# FaaSFlow: specifications, model checking and proofs

TLA+ specifications of FaaSFlow, a serverless workflow engine in which the data
drives the execution: a function block runs when its inputs are there, and
large values travel over redis on one host and over Kafka between hosts.
Source paths below are relative to the repository.

    tlc -workers 2 -config Wordcount.cfg MCWorkerSP     # model-check one run
    tlapm FlowMonitorProofs.tla                         # check the proofs of one module

## 1. Inventory

### 1.1 Parts of the system, their state and operations

| Part | Source | State | Operations |
|---|---|---|---|
| Gateway | `src/workflow_manager/gateway.py` | `requests_info`: an AsyncResult per request | `/run` (place templates, post request_info to all workers, post the inputs, wait for the result), `/post_user_data`, `/clear` |
| Worker proxy | `src/workflow_manager/proxy.py` | a dispatcher, the socket server on port 5999 | `/request_info`, `/transfer_data`, `socket_server`, `/clear` |
| Dataflow engine | `src/workflow_manager/workersp.py`, `workflow_info.py` | `incoming_data_queue`, a `WorkflowState` per request (inputs and input count of each block, status of each prefetch) | `receive_incoming_data`, `dispatch_incoming_data`, `flow_data`, `trigger_normal`, `prefetch_data`, `send_data_remote`, `post_user_data` |
| Flow monitor | `src/workflow_manager/flow_monitor.py` | `requests_keys_info`, `expire_queue`, `waiting_delete_keys`, the redis server, the prefetch directory | `add_key`, `decrease_key_dependencies`, `regular_expire`, `remove_redis_key`, `transfer_to_disk`, `remove_disk_key` |
| Container pool | `src/function_manager/*.py` | per template `request_queue`, `idle_containers`, `num_exec`, lock; `port_list` | `allocate_block`, `dispatch_request`, `create_container`, `run_block`, `put_container`, `regular_clean` |
| Block runtime | `src/container/block.py`, `store.py`, `proxy.py` | the block's inputs, serial numbers of its outputs, the outputs of a switch | `fetch`, `post`, `put_bigdata`, `VIRTUAL.CNT` |
| Kafka bypass | `src/container/bypass_store.py`, `src/workflow_manager/prefetcher.py` | `store_queue`, offsets counted per partition, the prefetched files | `put_to_kafka`, `post_kafka_data_ready_to_host`, `prefetch_data` |
| Disk reader | `src/workflow_manager/disk_reader.py` | none | sends a file of the prefetch directory to a container |
| eBPF host manager | `src/workflow_manager/ebpf_host_manager.py`, `src/container/faasflow_ebpf.c`, the eBPF part of `store.py` | registered containers, the kernel's socket and route maps, a data cache | register, unregister, ping, expiry, stop; `faasflow_sk_msg_prog` redirects messages |
| Repositories | `src/workflow_manager/repository.py` | documents in couchdb | logs and latencies |

### 1.2 How they interact

    client --/run--> gateway --request_info, transfer_data--> worker proxy (one process per host)
    worker proxy --transfer_data--> worker proxy of another host
    worker proxy --/run_block--> container --port 5999: values, *_ready, data_fetched--> worker proxy
    container --> redis --> container of the same host
    container --store_queue--> bypass store --> Kafka --> prefetcher --> file --> disk reader --> container
    container --Unix socket: ping, register--> eBPF host manager --socket and route maps--> kernel program
    worker proxy --post_user_data--> gateway

A worker proxy is one process of gevent greenlets: a greenlet keeps the process
until it sleeps or waits for I/O. `dispatch_incoming_data` is spawned every few
milliseconds, so many dispatch greenlets exist at once, some of them parked
inside `flow_data`. Containers, the redis server, Kafka, the gateway and the
other workers run concurrently with it. No message is retried.

### 1.3 What is hard, and what makes each part correct

* **Engine.** Inputs of a block arrive in any order, over two transports, and
  some of them twice. A merge counts items before or after it knows how many
  there are. A greenlet parks for a count or for a prefetch while others go on
  with the same `WorkflowState`. Correct: a block instance runs once, with all
  its inputs, on complete lists, and the request is answered.
* **Flow monitor.** Three things race for a key: its readers, its expiry and the
  batched deletion, with a redis round trip between check and act. Correct: a
  value stays readable until its last reader has read it, is given up once, and
  is given up eventually.
* **Pool.** Containers are created, shared by the blocks of a template, put back
  at once or later, and cleaned by greenlets that yield at every docker call.
  Correct: slots, lists, `num_exec` and ports agree; nothing in use is removed;
  every request is served.
* **Kafka bypass.** Offsets are counted by the producer, a value is announced
  before it is complete, and the reader follows it. Correct: each reader's file
  is exactly the value.
* **eBPF host manager.** Two kernel tables and a dictionary are written one after
  the other, by the socket server, by the monitor and by a signal handler, while
  the kernel program reads the tables. Correct: no entry outlives what the
  manager knows, no message goes to a forgotten container, and what has expired
  is removed, but not what has just registered again.

The hazards are listed at their lines, with the properties that cover them or the
reason why none does, under "hazards" in `PROJECT.json`.

## 2. Modules

| Module | What it is |
|---|---|
| `WorkerSP` | gateway, worker proxies with the engine, containers and the network between them |
| `WorkerSPProofs` | its types, that the socket server lives, and that it delivers nothing twice and triggers no instance twice |
| `RunsCompleteProofs` | that a block runs with all its inputs, and on whole lists, and that it implements `Dataflow` |
| `KeptUntilReadProofs` | that the flow monitors' counts are right, so that nothing is reclaimed that is still to be read |
| `Dataflow` | what the engine promises, with no hosts, queues or messages; `WorkerSP` implements it |
| `Workflows` | the functions and workflows of `benchmark/` (wordcount, svd, recognizer, video) as definitions |
| `MCWorkerSP` | instances of `WorkerSP` on them |
| `FlowMonitor` | flow monitor, redis, prefetch directory and readers of one host |
| `KeyStore` | what they promise; `FlowMonitor` implements it |
| `FlowMonitorProofs` | the theorems about `FlowMonitor` |
| `MCFlowMonitor` | its instances |
| `WorkerHost`, `MCWorkerHost` | `WorkerSP` with the whole `FlowMonitor` of one of its hosts, and an instance |
| `WorkerHostProofs` | that the engine keeps what the monitor relies on: each step of a host is a step of both |
| `ContainerPool`, `MCContainerPool` | the pool and ports of one worker, and instances |
| `BlockService` | what the pool promises to the engine; `ContainerPool` implements it |
| `ContainerPoolProofs` | the theorems about `ContainerPool` |
| `KafkaBypass`, `MCKafkaBypass` | bypass store, Kafka and prefetchers, and an instance |
| `KafkaBypassProofs` | the theorems about `KafkaBypass` |
| `EbpfHost`, `MCEbpfHost` | eBPF host manager, its clients and the kernel program, and an instance |
| `EbpfHostProofs` | the theorems about `EbpfHost` |

The modules meet at three seams. `WorkerSP` keeps of the flow monitor only the
dependency count of each key; `WorkerHost` puts the two together, and
`EngineKeepsContract` says that whatever the engine does next with a large datum
is what `FlowMonitor` is ready for. `WorkerSP` has containers start blocks in any
order, which is what `BlockService` allows and `Served` brings about. And in
`WorkerSP` an announced value can be prefetched, which is what `KafkaBypass`
offers (`Delivered`, `FileExact`). `EbpfHost` stands beside them: a Store
registers when a block starts, but nothing the engine waits for depends on it.

Operators whose names begin with `Mutant` are plausible bugs. No specification
uses them; each property is known to fail when the named definition is replaced
by one of them (`PROJECT.json`, "mutants").

### 2.1 WorkerSP

| Variable | Code |
|---|---|
| `phase`, `result` | where `/run` of a request is; `requests_info[..].result` |
| `infoNet`, `dataNet`, `userNet` | posts to `/request_info`, `/transfer_data`, `/post_user_data` in flight, each in a greenlet of its own |
| `known` | `workflows_state` has the request |
| `serving`, `backlog` | the `socket_server` greenlet, connections it has not accepted |
| `queue` | `incoming_data_queue` |
| `running`, `parked` | the dispatch greenlet that has the process, and those that wait |
| `inputDatas`, `inputCnt` | `templates_blocks_inputDatas`, `templates_blocks_input_cnt` |
| `prefetch` | `prefetch_keys_status` |
| `deps` | `dependencies_cnt` of the flow monitor's keys |
| `runs` | block instances handed to `allocate_block`, with what they have fetched and posted |

`Dispatch` is the pop of a datum up to the first destination; `ToUser`,
`ToRemote`, `FlowForeach`, `FlowMerge` and `FlowNormal` each do one destination
of the walk. While `running[h]` is not empty no other step of the host's
process is enabled (`Free`), so the walk is atomic as in the code until it
parks, in the poll of `flow_data` (`ResumeMerge`) or in `check_input_datas`
(`ResumeTrigger`). A container's `Post` decides, as `put_bigdata` does, between
redis for local readers, the bypass store for remote ones (whose announcement,
`Upload`, comes later and may be overtaken by the block's other posts), and a
direct message. The count of a key is the number of destination blocks on the
host, `local_cnt` or `ips_cnt`.

Abstractions: a value is only its place in the workflow and, for `VIRTUAL.CNT`,
its number; a template has one block, as all of the benchmark have; what a
block's code does is the order of its fetches (`Fetches`) and a set of possible
sequences of posts (`Programs`), a switch being a choice among them (`Workflows`
has one definition per committed block); a file or a
redis value is read in one step (the two modules below look inside).
Assumptions on the workflow, each named in the module: `WorkflowAssumption`,
`PostingAssumption`, `ItemsAssumption`, `CountsAssumption`, `FetchesAssumption`,
`BigStaysApart`.

A FOREACH block that posts no item raises a KeyError instead of announcing a
count of zero (`CountFails`), and its request is never answered. This is no
fault of the surroundings, so it is not bounded; `Answered` and `AnsweredAtRest`
say that it is the only way, but for a missing input, for a request not to be
answered, and that other requests are not held up by it.

Faults, bounded by `MaxFaults`: a post whose greenlet raises, a prefetch
request that raises before it sets its key, a container that dies between two
posts, with what its bypass store still has or without it. The code has no
retry for them, so only safety is asked under faults.

### 2.2 FlowMonitor

| Variable | Code |
|---|---|
| `redis`, `disk` | keys in the redis server; `none`, `partial` or `full` file in the prefetch directory |
| `known`, `deps`, `inRedis`, `inDisk`, `removing` | `requests_keys_info` and the fields of `DataInfo`; `status == 'removing_redis'` |
| `expireQueue` | `expire_queue`; all redis keys have the same lifetime, so the priority queue is in order of arrival |
| `waitingDelete`, `batches` | `waiting_delete_keys`; the lists taken from it that redis has not deleted yet |
| `remover`, `diskRemover` | the greenlets `remove_redis_key` and `remove_disk_key` of a key; `check` and `get` are its two redis round trips |
| `removals` | history: how often `os.remove` was called for the key |
| `reader` | per key and reader: not started, told to read redis or disk, fetched, lost, reported |

A remover yields only at redis commands, so `CheckRedis` is all it does after
the answer to `key in self.redis`, and `TransferToDisk` all after its GET: file,
test of `dependencies_cnt`, flag, and the append to `waiting_delete_keys`.
`StartReader` is `Container.link_prefetch_data`, which fixes where the block
will look; redis failing, the block looks on disk. `TransferFails` is the
`except` of `remove_redis_key`, with the partial file it leaves. Expiry may
happen at any time after registration. Readers are not fair: a switch may never
trigger the block, or it may fail before it reads or reports, and `Reclaimed`
says what is reclaimed all the same.

### 2.3 ContainerPool

A `dispatch_request` greenlet runs from the pop of the queue to its first wait,
which is either docker (`StartCreate`) or `/run_block` (`GetIdle`);
`DispatchFailed` is the requeue. `ContainerRun` and `WaitStart` are the two
halves of a cold start. `RunReturns` puts the slot back at once or leaves it to
`DelayedPut`. A run starts with a `mkdir` of a directory named after its workflow
request and its block (`WorkDirOf`, `StartRun`), which raises if an item of the
same request is in that container at that moment, or has failed there before:
never with one block per template, where a container runs one request at a time
and is lost after a failure, but with several. `RegularClean` is `regular_clean` up to the release of its lock,
and `RemoveContainer` one turn of the loop after it. `CreateFails`, `RunFails`
and `RemoveFails`, bounded by `MaxFailures`, are docker and the container
raising. `fresh` lists containers used within `idle_lifetime`, in order of last
use; `Age` lets the oldest leave it.

`BlockService` is the pool without greenlets, docker, ports and lists: a request
waits, is inside a container that had a slot free, and leaves; containers open
up to a bound and close when nobody is inside. A failed run never leaves.

The pool's `max_containers` is never read from the YAML, so it is 1000 in every
deployment; the model takes it as a constant to reach the bound with few
containers.

### 2.4 KafkaBypass

The bypass thread's position in a value (`current`), its slot and its own count
of `offsets`, the producer's buffer (`pending`), the partitions (`log`), the
announcements and the files of the prefetchers. A chunk is its value and its
number. Kafka is external: it keeps the order of a partition; `produce` raises
when `BufferSize` chunks are pending. A chunk may not be delivered
(`Undelivered`, bounded by `MaxLosses`): nobody looks at its report, `flush()`
returns, and the offset counted by the store is ahead of the partition from then
on. The properties say how far that damage goes: to the value itself and to the
values after it in the same partition (`Damaged`), and no further.

### 2.5 EbpfHost

| Variable | Code |
|---|---|
| `pc`, `reply` | where `init_ebpf` (ping, then register) and `cleanup_ebpf` of a `Store` are; the bytes its `recv` waits for |
| `backlog` | connections to `ebpf_manager.sock` that are not accepted yet |
| `server`, `proc` | the socket server's greenlet; the `register_container` or `unregister_container` under way and the statement it is at |
| `doomed` | `expired_containers` of the monitor, or `container_ids` of `stop` |
| `mode` | `running`, inside `stop`, exited |
| `containers` | `containers`: absent, or registered for less or more than 300 s |
| `program`, `sockMap`, `routeMap` | whether BCC has loaded the program; the keys of the two maps |
| `msg`, `last` | a message between the kernel program's two map operations; where the last one went |

The manager is started by `proxy.py`, whose `monkey.patch_all` makes the two
threads greenlets. Neither waits between its first and last statement on the
maps, so the server's handler and the monitor's round exclude each other
(`ServerMayRun`), and this is what `FreshKept` rests on; the kernel and the
containers run on between any two system calls. `Raise` is a map operation that
raises, which leaves what was done and still answers `ok`. It is the usual case
for the socket map, whose 65535 entries are indexed by a 32-bit hash. `Stop` is
the signal handler: it runs on top of whatever it interrupts, which never goes
on, and `Exit` is the `sys.exit` after it, which takes the maps away. Expiry
counts from the registration, since nothing updates `last_activity` (`Age`).
The code answers a ping and a registration with `ok` whatever their outcome, so
`After` looks only at whether an answer came.

`register_container` writes the maps only for a message with `socket_fd`. The
committed `Store` sends none, and nothing calls `cleanup_ebpf`, so in this
repository both maps stay empty. `WithFd` and `CleansUp` say which Stores do,
and the instance has one of each kind, to check the manager as it is written.

### 2.6 WorkerHost

The variables of `WorkerSP` and, for the host `Watched`, those of `FlowMonitor`
(`known` and `deps` are `kept` and `cnt` here). A step in which both take part is
a conjunction of an action of each:

| Joint action | WorkerSP | FlowMonitor |
|---|---|---|
| `PostHere` | `Post` | `PutToRedis`, if the datum is announced as `redis_data_ready` |
| `DispatchHere` | `Dispatch` | `AddRedisKey` or `AddDiskKey` |
| `PrefetchHere` | `PrefetchData` | `Prefetch` |
| `LinkPrefetchData`, then `StartHere` | `StartRun` | `StartReader`, once per input by reference |
| `MissInRedis`, `FetchHere` | `Fetch` | `FetchFromRedis`, `FetchFromDisk` |
| `ReportHere` | `DispatchFetched` | `DecreaseKeyDependencies` |

The monitor's greenlets run when no dispatch greenlet holds the process
(`Free`). Such a conjunction can hide a mistake: a step that the engine would take
while the monitor is not ready for it is missing here. `EngineKeepsContract` says
that there is none. For each thing the engine may do next with a large datum
the monitor's condition (`MayPut`, `MayAddRedisKey`, `MayAddDiskKey`, `MayPrefetch`,
`MayStart`, `MayReport`, the guards of its actions) holds.

## 3. Runs

| Run | Instance | What it shows |
|---|---|---|
| `wordcount` | one request, 0 to 3 items, map and merge on the second host, 2 faults | types; merges are complete; reads are backed; dependency counts are exact; `socket_server` survives; nothing gets stuck; refinement of `Dataflow` |
| `recognizer` | 7 blocks, all outcomes of two switches | blocks run once although inputs repeat; nothing gets stuck |
| `two_requests` | two requests of svd, 0 or 1 item each, merge back on the first host, one queue, fair | inputs are not mixed; each is answered unless its own run fails; both are released; refinement |
| `worker_host` | wordcount of 0 to 2 items with the monitor of the second host, failing writes, 2 faults | the engine keeps the monitor's contract; the host ends up clean |
| `flow_monitor` | 3 keys, one without readers, fair | redis is reclaimed whatever readers do, files once they are read |
| `flow_monitor_faults` | 3 keys, one with two readers, failing writes | the inductive invariant and its consequences; refinement of `KeyStore` |
| `pool` | 4 requests, 2 templates, 2 ports, items of one request, fair | requests are served, none meets another's work directory, the pool drains |
| `pool_blocks` | 4 requests, 2 templates of two blocks, 1 failure | slots, lists, counters, ports; refinement of `BlockService` |
| `bypass` | 4 values of 0 to 3 chunks, 2 partitions, buffer of 1, 2 hosts, 1 chunk lost | files are exact, offsets are right, everything is delivered, but for what the lost chunk damages |
| `ebpf_host` | 3 Stores in 2 containers, one of them used twice, one with a socket; a failing system call, a message, a signal | the maps name known containers only; no stale delivery; no fresh registration is removed; what has expired is removed |
| `video` | a FOREACH item joined with another input | finding |
| `clean_assertion` | one template of two blocks | finding |

Bounds. Three items make a list in which an item can be first, last and in
between when the count arrives; with two hosts each transport is used in each
direction. Two readers of a key and a batch limit of one instead of ten reach
every order of last report, expiry, transfer and batch; `DeleteBatch` is a
parameter of the proofs. Two slots per container, two templates and a port less
than requests reach empty pools, full containers, reuse and exhaustion. Four
values over two partitions use a partition again after a value of each length
of chunks; one lost chunk can be the first, the last or an inner one of any of
them, with values before, behind and beside it. Two faults let a second one hit what the first has left. In
`ebpf_host`, a container that registers twice, with a second one for the monitor
to collect with it, reaches the race of expiry and registration; one message is
enough, since the kernel program keeps nothing. Symmetry is
used in `pool_blocks` only, over requests of one template, and no liveness is
checked there.

Every configuration turns the deadlock check off, because every model stops when
its finite set of requests, keys or values is through; that none stops too
early is what `AnsweredAtRest`, `ReleasedAtRest` and the liveness properties say.

Fairness. `WorkerSP`: some step is taken while one is enabled (the hub runs
every greenlet that can run, posts are answered, containers execute); the
instances terminate, so this brings every enabled step about in the end. Faults
are not fair. `FlowMonitor`: every greenlet and redis command goes on; a new
value or a failing write need not happen, and a reader may stop anywhere. `ContainerPool`: the two timer
events of `function_manager.py` spawn their greenlets for ever, docker and
containers answer, time passes; requests and failures need not come.
`KafkaBypass`: the thread and the prefetchers go on, Kafka delivers or gives up; values need not be
posted. `EbpfHost`: the socket server and the monitor go on; clients, time,
failures, messages and the signal need not come.

### 3.1 Findings

* `video` (`RunsComplete`, `workersp.py:156`). A FOREACH item triggers its block
  with the inputs that happen to be there. The comment assumes there are no
  others on their way; `video/workflow_info.yaml:36-38` has one.
* `clean_assertion` (`CleanAssertion`, `template.py:230`). The assertion that an
  outdated container is wholly idle fails for templates with several blocks,
  while the template's lock is held. All templates enabled in
  `benchmark/templates_info.yaml` have one block.

## 4. Proofs

`FlowMonitorProofs` proves, for all finite sets of readers, all sets of keys, any
assignment of readers to keys, any batch size and with failing writes:

| Theorem | Property |
|---|---|
| `Invariance` | `Spec => []IInv` |
| `TypeCorrect` | `TypeOK` |
| `CountExact` | `DepsExact` |
| `NoValueLost` | `NeverLost` |
| `FileRemovedOnce` | `DiskRemovedOnce` |
| `KeyDeletedOnce` | `DeletedOnce`, a part of `IInv` |
| `Implementation` | `Spec => ImplementsKeyStore` |

from the assumptions named in `FlowMonitor` (`ReadersAssumption`,
`KeysAssumption`, `FlagAssumption`) and nothing else.

`NeverLost` alone is not inductive: a state in which a reader is about to look
in redis while its key has been deleted and never transferred satisfies it, and
the next step does not. `IInv` says, key by key, where a value is in each phase.
`UnknownInv`: before registration nothing refers to the key. `RedisInv`: once
registered, a redis key is in redis or has been given to the deletion, and was
given to it only with no reader left or a whole file on disk. `RemoteInv`: a
prefetched key never enters the redis machinery. `ReaderInv`: a reader that
will look on disk finds the whole file. `RemovalInv`: files are removed by
one of the two removers, after the last report. With `DepsExact`, `DeletedOnce`
and `QueueInv` for the counter, the batches and the expiry queue, this is
preserved by every action; there is a lemma per action, and one
step in it per part of the invariant that the action can disturb. The
refinement uses the same invariant: a step that gives a value up finds
`unread` empty, since the readers that have not read are still counted.

`KafkaBypassProofs` proves, for all values and chunk counts (zero included), any
number of topics and partitions, any readers, any buffer size and any number of
losses, from `SizesAssumption` alone:

| Theorem | Property |
|---|---|
| `Invariance` | `Spec => []IInv` |
| `TypeCorrect` | `TypeOK` |
| `OffsetsCorrect` | `OffsetsExact` |
| `AnnouncementsReadable` | `AnnouncedReadable` |
| `FilesExact` | `FileExact` |

`OffsetsExact` speaks of the moments between two values and cannot be inductive.
`CountInv` extends it to every moment: the length of a partition and the chunks
lost there make the offset plus the chunks that Kafka has taken of the value
under way (`Gone`). `LostAt` counts the losses of that value in its partition
before it is announced. `PastInv` places the finished values, `PresentInv` the one under
way, which is where its offset says as long as the partition has lost nothing;
`FileInv` makes every file a copy of its place in the partition. `QueueInv`,
`AnnouncedInv` and `SendInv` say that a value is in one place only and that what
is pending are its last chunks in order. `UndamagedCurrent` is the step that
joins them: a value under way that is not damaged has a partition without
losses.

`ContainerPoolProofs` proves, for all requests and templates (each may be infinite, for only
finitely many requests have been made at any moment), any limits, any number of
ports and any number of failures, from `TemplatesAssumption`, `LimitsAssumption` and
`PortsAssumption`:

| Theorem | Property |
|---|---|
| `Invariance` | `Spec => []IInv` |
| `TypeCorrect` | `TypeOK` |
| `ContainersAreCounted` | `NumExecExact` |
| `SlotsAddUp` | `SlotAccounting` |
| `IdleListIsExact` | `IdleExact` |
| `PortsAreDistinct` | `PortsDistinct` |
| `Implementation` | `Spec => ImplementsService` |

The four counts say what is in the pool and not why, and none is inductive: that
`put_container` does not free a slot too many follows only if its container is
still the pool's. `StageInv` ties the stage of a
request to the container it is on, which is up, of its template and not yet taken by
`regular_clean`; `LeavingInv` says that what `regular_clean` has taken is wholly idle and in
one greenlet's list, once; `QueueInv` that a request waits in one place.
`NumInv` bounds `num_exec` at `max_containers + 1`, since `create_container`
compares with `>`. The refinement maps the containers that are up and not taken to
those open in `BlockService`, and has one lemma per action, which is one step of
the service (take, open, enter, leave, close) or a stutter.

`EbpfHostProofs` proves, for all Stores and containers, any placement of Stores,
any number of failing system calls and messages and a signal at any moment,
from `ContainersAssumption`:

| Theorem | Property |
|---|---|
| `Invariance` | `Spec => []IInv` |
| `TypeCorrect` | `TypeOK` |
| `RoutesAreBacked` | `RoutesBacked` |
| `DeliveriesAreCurrent` | `NoStaleDelivery` |
| `FreshIsKept` | `FreshKept` |

`RoutesBacked` is kept by a statement only if the statements before it were
made. `FrameInv` says, statement by statement of `proc`, which of the three tables
still has the container: a registration has put it in the manager's table
before it writes the kernel's, an unregistration has deleted from both before it
forgets it. `MonitorInv` says that between two sleeps of the monitor what it has
collected stays expired, because no handler runs; `FreshKept` needs it.

`WorkerSPProofs` proves, for all requests, any workflow, any placement and any
number of faults, from `WorkflowAssumption` (outputs go to declared inputs, those of
a MERGE to lists, and blocks post declared outputs):

| Theorem | Property |
|---|---|
| `Invariance` | `Spec => []Inv` |
| `ServerLives` | `SocketServerLives` |

A worker that does not know a request raises on its data, and `socket_server` has no
handler for that. `Inv` follows a request through everything that can put a
message on the port: `known` of a host only grows, a message enters its queue only
when its request is known, a greenlet, a trigger that waits for a prefetch and a run
inherit the request of their data, and what a container posts goes to its own
host. With the requests goes the shape of all data, since the serial number of a
block is read from its inputs. The helper `Subsequence` is a recursive function: that it has
the right elements is proved by a least counterexample (`Least`).

Its second half adds, for every workflow with `PostingAssumption` and
`ItemsAssumption`:

| Theorem | Property |
|---|---|
| `DeliveredOnce` | `Spec => []IInv` |
| `InstancesTriggerOnce` | `TriggerOnce` |

The assumptions are what the four workflow files have in common. Outputs are named
after their block (`store.py:88`), the user's are NORMAL, and a block that an
item triggers posts each output once, since its posts all get the item's
serial number. Items come to one input of a block, which no NORMAL output goes to, and
a LIST collects the results of one output.

A repeated NORMAL input is recognised by the worker that has it; a repeated item or result
would not be, so nothing may repeat them. A *delivery* is a datum
on its way to one destination, and `Held` says which deliveries a place has still to make:
a container's uploads, a port, a queue, the network, a running greenlet, a parked
one. `OnceInv` and `ApartInv` say that each delivery is in one place and there
once; `AheadInv` that it has had no effect yet (`Got`) and that its datum was
posted (`Sent`). The places divide a datum's destinations among themselves as the code
does: the redis announcement stands for the local ones, the Kafka announcement
for the remote ones, and of those a greenlet gives each host its own
(`WorkFor`). An action takes deliveries out of one place and puts them, or some of them, into
another (`Moving`), or makes new ones (`Appears`) of a datum that no run has
posted before (`PostIsNew`).

On the other side, `Fired` has the instances that were triggered, in a run or in the
call of a greenlet that waits for a prefetch. `FireInv` says that each is there
once. An item triggers only what its own delivery entitles it to
(`InstInv`: an instance has a serial number if and only if its block takes items). Any
other instance is triggered by the last input: `CountInv` makes `inputCnt` the number of
complete inputs, so the count passes the number of declared inputs once. That a LIST is
complete once only needs results that are not stored twice, that is, `Got`
again. `PostInv` says what a run has still to post, `InfoInv` that a second
`request_info` cannot wipe what a worker has collected.

`RunsCompleteProofs` adds:

| Theorem | Property |
|---|---|
| `TriggeredOnAllInputs` | `Spec => []AllInputsInv` |
| `CompleteRuns` | `RunsComplete`, if every block that takes items has no other input |
| `CountsAreAnnounced` | `Spec => [](AnnouncedInv /\ CountLastInv)` |
| `ListsAreWhole` | `Spec => []WholeInv` |
| `MergesAreComplete` | `MergeComplete` |

The hypothesis is the one that the `video` workflow violates (3.1); without it
the first theorem still gives all inputs to every block that no item triggers.
When the count is reached, `CountInv` says that as many inputs are complete as are declared.

The last three need `CountsAssumption` besides. The first part of it is the code's own:
`block.py:58-67` announces `VIRTUAL.CNT` when the code of the block has
returned, so that no item is posted after the count. The rest is what the
workflow files have in common: who takes a list takes its count and no item, and the
blocks whose results it collects take the items of the block that announces the count. A
workflow that counted one split and collected another would be merged wrongly by
this engine, which compares two numbers and asks no more (`workersp.py:172`).

`MergeComplete` speaks of runs, but what can go wrong is done long before, so the count is followed
from the block that announces it: `AnnouncedInv` says that whatever is in an upload,
a port, a queue, the network, a greenlet or among the stored inputs was posted, and
that a count among it is the number of items of the run that announced it, and
`CountLastInv` that this run posts none after it. A list cannot then have too many elements: each has the serial
number of an item that was posted (`ItemOf`, from `GotInv`), and by the very run that
announced the count, since by `FireInv` a block that takes no items runs once per
request; so by `ListsAreBounded` the list's serial numbers are among those of the announced
items. It has not
too few, because a list that is incomplete is not counted as an input. `WholeInv` carries
this over to the calls and the runs.

On these it proves, the second for workflows in which a block that takes items
has no other input:

| Theorem | Property |
|---|---|
| `AnswersAreBacked` | `Spec => []UserInv` |
| `Implementation` | `Spec => ImplementsDataflow` |

`Dataflow` knows three sets: the data that were posted, the instances that have
fired and the requests that are answered. Hosts, queues, references, lists
and counts are gone. What a step of `WorkerSP` does to the sets is read off the runs
and the phase of the request (`seen`), and nearly all steps do nothing. Four do.
The gateway's inputs are data that the user posts. A block that is handed to a
container fires: once, by `FireInv`, and on what `Available` asks for
(`AvailableInv`): a value, or an item of its own serial, was posted
(`AnnouncedInv`, `GotInv`), and of a list every result that the items of the
split can become (`ItemIsCounted`: whoever posts such an item is the run whose
count has arrived, and `WholeInv` has one element for each of its items). A
post is a new datum, and its serial number is the number of data posted before
of that output (`PostedSoFar`, a bijection between them and the posts of the
only run that can have made them). An answer needs a datum for `$USER`:
`UserInv` follows it from the greenlet that meets this destination through the
post to the gateway to the `AsyncResult`. The abstract `Fire`, `Post` and
`Answer` have these conditions as guards, so mapping the steps proves them.

`KeptUntilReadProofs` adds, for the same workflows:

| Theorem | Property |
|---|---|
| `KeysAreCounted` | `Spec => []KInv` |
| `KeysKeptUntilRead` | `KeptUntilRead` |
| `ReadsAreBacked` | `ReadsBacked` |
| `TypeCorrectness` | `TypeOK` |

A block that joins an item with a large value would read this once for each item, and
its key would be counted once: the hypothesis is needed. `FetchesAssumption` is what
the code of the blocks has in common: a large value goes to a block at one input, and the
block's code fetches each input once and all those that large values go to.

The count of a key is set in one greenlet, when its datum arrives, and goes down in
another, when a container's report does; a block may be triggered long before or
after either. So `KeptUntilRead` speaks of the blocks, triggered or not: the
count is the number of local blocks that have not read the datum (`Missing`)
and of the reports on their way. Five facts make it inductive. A key is
registered before anything of its datum is looked at: `RegisteredInv` follows the
references from the dispatch through greenlets, stored inputs and calls to the runs,
for what announces a large value is the reference itself, and its dispatch registers it
before it flows. It is registered
once: a second datum of its key would be a second delivery (`NewKeyUnread`, from
`OnceInv`, `ApartInv` and `AheadInv`), and nobody can have read it before. `ReadsInv`
says that a run's list of reads holds references of its inputs without
repetition, so that one read takes one block from `Missing` and puts one report
on its way; that `StartRun` makes such a list is a fact about `FlattenSeq` and
`Subsequence` (`StartRunReads`). No block reads a key twice: a value goes to one run of
each block, by its serial number (`SerialInv`, `OneReader`), which is where the
hypothesis comes in. And `ReportsInv` says that a report is of a registered key with a
local reader. For `ReadsBacked` there is `PrefetchInv` besides: what a
run was triggered on stays on disk.

Of `TypeOK` all but the counts follows from `Inv`; that these are never negative is a
consequence of `KeptUntilRead`.

`WorkerHostProofs` joins the two, for a worker host with its whole `FlowMonitor`, from
the assumptions of `WorkerSP` and `HostAssumption` (finitely many blocks, and
enough serial numbers for what they post); all but the first theorem are for the
workflows of `KeptUntilReadProofs`:

| Theorem | Property |
|---|---|
| `HostRunsEngine` | `HostSpec => Spec` of `WorkerSP` |
| `HostAgrees` | `HostSpec => [](EngineInv /\ Proved!IInv /\ HostInv)` |
| `HostRunsMonitor` | `HostSpec => Monitor!Spec` |
| `ContractKept` | `EngineKeepsContract` |
| `HostLosesNothing` | `NeverLost` of the monitor |

`FlowMonitor` alone lets its environment put, register, read and report only
when it is ready; that the engine keeps to this is the claim, and no invariant of
one side gives it. `HostInv` is what they agree on. `KeptInv`: the same keys are
registered, with the same counts. `ReadInv`: a reader has got past its read
exactly when a run of its block has read that key. `LinkedInv`: what a run has
still to read, its reader has been sent to fetch from redis or from disk.
`FilesInv`: a prefetch that runs has a partial file and no reader, and the file of one that
is done is whole as long as the key is counted. `ValuesInv`: what redis announces to the
dispatcher is in redis, and all that is there was posted.

A joint step keeps these only with facts of the engine alone, which are
`EngineInv`. `LocatedInv`: a redis announcement is at the host that makes the datum
and has readers, a remote announcement at another one, so a key never is
local and remote in one. `RedisInv`: redis announces a key once, and a
post announces a new one (`PostIsNew`). `ProgramInv` and `SerialsInv`: what a run
has posted is the beginning of a program of its block, so its serial numbers are those of
the host's keys. With `KInv` (a reference held anywhere is registered and its
block counted), `OneReader` and `ReadsInv` a run reads each reference once and no
other run does (`NotReadYet`), which is `MayStart`, and a report that is on
its way has a reader that has read (`MayReport`).

For the monitor's half nothing is proved twice: `Proved` is `FlowMonitorProofs`
instantiated for the watched host, so its `IInv` is preserved by every step of the
host because each is a step of the monitor, and `HostLosesNothing` follows.

Only model-checked: `Reclaimed`, `Served`, `Drained`, `Delivered`, `Answered`
and `ExpiredRemoved`, because liveness under fairness is out of the prover's reach, and so
is `ENABLED` in `AnsweredAtRest`, `ReleasedAtRest` and `HostClean`.

## 5. Not modelled

* `/clear` of the gateway and of the workers: the drivers in `test/` call it between
  experiments, when no request runs; it replaces the dispatcher and with it all
  the state the models start from.
* `/commit_inter_data`, the couchdb alternatives to Kafka (`put_to_couch`,
  `prefetch_couch_data`), `trigger_switch`, `preempt_block`, `send_data`: dead in
  this deployment.
* Of the eBPF bypass: the data cache (`store_data`, `get_data`, `store_to_ebpf`,
  `fetch_from_ebpf`), `redirect_data` and the statistics, which nothing calls
  for; the mode in which the manager is a process of its own with real threads
  (`main` of `ebpf_host_manager.py`); `ebpf_manager.py`, used by an example only.
* The default branch of recognizer's last switch, which the committed function
  never takes, and the branch of video without a split.
* The partial file that a failed write leaves when the last reader reports before
  the new attempt is in the model and is never removed, as in the code;
  `HostClean` allows it.
* Bytes: the one `recv` of `socket_server`, chunk contents, JSON.
* Time: a lifetime, a delay or an interval is a step that may happen at any
  later moment. In `ContainerPool` a cold start is taken to be shorter than
  `idle_lifetime` (600 s).
* Crashes of a worker process: nothing is persisted, so there is no recovery
  to model.

## 6. Plan

In the order of what matters most; all of it is done.

1. `Dataflow`, `WorkerSP`, runs over the committed workflows.
2. `KeyStore`, `FlowMonitor`, runs with expiry and failing writes.
3. `FlowMonitorProofs`: type, safety and refinement.
4. `ContainerPool`, with failures and cleaning.
5. `KafkaBypass`.
6. `EbpfHost`, with failing system calls and a signal.
7. `WorkerHost`, the composition of engine and monitor, and `BlockService`, the
   promise of the pool.
8. `KafkaBypassProofs`: type and safety.
9. `ContainerPoolProofs`: `SlotAccounting`, `NumExecExact`, `PortsDistinct` and
   the refinement of `BlockService` for every limit and every number of ports.
10. `EbpfHostProofs`: `RoutesBacked`, `NoStaleDelivery` and `FreshKept` for any
   Stores and containers. The invariant says, statement by statement of `proc`,
   which of the three tables still has the container.
11. `WorkerSPProofs`: the types of all data, greenlets and runs, and
   `SocketServerLives`, for any workflow and placement.
12. `TriggerOnce`, in `WorkerSPProofs`: that a datum on its way to a destination is in one place
   only, and that `inputCnt` is the number of complete inputs.
13. `RunsCompleteProofs`: that a run has all inputs.
14. `MergeComplete`, in `RunsCompleteProofs`: the serial numbers of a list are those of
   the items that were split off.
15. `ImplementsDataflow`, in `RunsCompleteProofs`: step by step, from 12, 13 and 14.
16. `KeptUntilReadProofs`: `KeptUntilRead`, with `TypeOK` and `ReadsBacked`, the count of
   a key against the blocks that have still to read it.
17. `WorkerHostProofs`: `EngineKeepsContract`, the seam between 16 and 3: where references
   may be, and that engine and monitor agree on keys, counts and readers.
