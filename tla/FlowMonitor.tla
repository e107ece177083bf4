----------------------------- MODULE FlowMonitor -----------------------------
(***************************************************************************)
(* The life of large data on one worker host: the flow monitor of the      *)
(* proxy process, the redis server, the prefetch directory and the         *)
(* containers that read.                                                   *)
(*                                                                         *)
(* A datum produced on this host is put in redis and registered with the   *)
(* number of its local readers; one that comes from another host is        *)
(* registered as a disk key and written by the prefetcher.  A key leaves   *)
(* redis when its last reader has reported or when it expires; a key that  *)
(* expires before is first written to disk.  The greenlets of the proxy    *)
(* yield at every redis command: a remover that runs for a key interleaves *)
(* with the reports of the readers and with the batched deletion.          *)
(***************************************************************************)
EXTENDS Naturals, FiniteSets, Sequences

CONSTANTS
  LocalKeys,     \* keys put in redis by a container of this host
  RemoteKeys,    \* keys prefetched from another host
  Readers,       \* names for the readers of a key
  ReadersOf,     \* key -> the readers counted for it (local_cnt, ips_cnt)
  DeleteBatch,   \* regular_expire deletes when more keys than this wait
  WriteFails     \* TRUE: writing a file may raise (disk full)

Keys == LocalKeys \cup RemoteKeys

ASSUME ReadersAssumption ==
  /\ IsFiniteSet(Readers)
  /\ ReadersOf \in [Keys -> SUBSET Readers]
ASSUME KeysAssumption == LocalKeys \cap RemoteKeys = {}
ASSUME FlagAssumption == DeleteBatch \in Nat /\ WriteFails \in BOOLEAN

VARIABLES
  redis,          \* keys stored in the redis server
  disk,           \* key -> its file in the prefetch directory
  known,          \* keys with a DataInfo in requests_keys_info
  deps,           \* key -> dependencies_cnt
  inRedis, inDisk,\* keys whose DataInfo has the flag
  removing,       \* keys with status 'removing_redis'
  expireQueue,    \* expire_queue, oldest first
  waitingDelete,  \* waiting_delete_keys
  batches,        \* lists handed to redis.delete, not deleted yet
  remover,        \* key -> its remove_redis_key greenlet
  diskRemover,    \* key -> its remove_disk_key greenlet
  removals,       \* key -> number of times os.remove was called on its file
  reader          \* key -> reader -> where the reading block is

infoVars  == <<known, deps, inRedis, inDisk, removing>>
queueVars == <<expireQueue, waitingDelete, batches>>
fileVars  == <<disk, diskRemover, removals>>
vars == <<redis, infoVars, queueVars, fileVars, remover, reader>>

Outstanding(k) == {r \in ReadersOf[k] : reader[k][r] # "done"}

Init ==
  /\ redis = {}
  /\ disk = [k \in Keys |-> "none"]
  /\ known = {} /\ inRedis = {} /\ inDisk = {} /\ removing = {}
  /\ deps = [k \in Keys |-> 0]
  /\ expireQueue = <<>> /\ waitingDelete = {} /\ batches = {}
  /\ remover = [k \in Keys |-> "none"]
  /\ diskRemover = [k \in Keys |-> "none"]
  /\ removals = [k \in Keys |-> 0]
  /\ reader = [k \in Keys |-> [r \in Readers |-> "idle"]]

-----------------------------------------------------------------------------
(* When the engine may call what follows: a key is put and registered      *)
(* once, its value first; a registered one is read, once by each reader    *)
(* that was counted, a remote one when its file is whole; a read is        *)
(* reported.                                                               *)
MayPut(k)         == k \in LocalKeys \ redis /\ k \notin known
MayAddRedisKey(k) == k \in LocalKeys \cap redis /\ k \notin known
MayAddDiskKey(k)  == k \in RemoteKeys \ known
MayPrefetch(k)    == k \in RemoteKeys /\ disk[k] = "partial"
MayStart(k, r) ==
  /\ k \in known /\ r \in ReadersOf[k] /\ reader[k][r] = "idle"
  /\ k \in RemoteKeys => disk[k] = "full"
MayReport(k, r) == reader[k][r] \in {"fetched", "lost"}

(* A container puts the value in redis, then posts redis_data_ready.       *)
PutToRedis(k) ==
  /\ MayPut(k)
  /\ redis' = redis \cup {k}
  /\ UNCHANGED <<infoVars, queueVars, fileVars, remover, reader>>

(* Mutant: one of the readers is not counted.                              *)
MutantOneShort(k) ==
  /\ k \in LocalKeys \cap redis /\ k \notin known
  /\ known' = known \cup {k}
  /\ deps' = [deps EXCEPT ![k] = Cardinality(ReadersOf[k]) - 1]
  /\ inRedis' = inRedis \cup {k}
  /\ expireQueue' = Append(expireQueue, k)
  /\ UNCHANGED <<redis, inDisk, removing, waitingDelete, batches, fileVars, remover, reader>>

(* add_key of a redis datum; its expiry starts now.                        *)
AddRedisKey(k) ==
  /\ MayAddRedisKey(k)
  /\ known' = known \cup {k}
  /\ deps' = [deps EXCEPT ![k] = Cardinality(ReadersOf[k])]
  /\ inRedis' = inRedis \cup {k}
  /\ expireQueue' = Append(expireQueue, k)
  /\ UNCHANGED <<redis, inDisk, removing, waitingDelete, batches, fileVars, remover, reader>>

(* add_key of a remote datum: in_disk at once, and the prefetch is spawned *)
(* that opens the file and completes it.                                   *)
AddDiskKey(k) ==
  /\ MayAddDiskKey(k)
  /\ known' = known \cup {k}
  /\ deps' = [deps EXCEPT ![k] = Cardinality(ReadersOf[k])]
  /\ inDisk' = inDisk \cup {k}
  /\ disk' = [disk EXCEPT ![k] = "partial"]
  /\ UNCHANGED <<redis, inRedis, removing, queueVars, diskRemover, removals, remover, reader>>

Prefetch(k) ==
  /\ MayPrefetch(k)
  /\ disk' = [disk EXCEPT ![k] = "full"]
  /\ UNCHANGED <<redis, infoVars, queueVars, diskRemover, removals, remover, reader>>

-----------------------------------------------------------------------------
(* The readers                                                             *)

(* The block of reader r is handed to a container: check_input_datas has   *)
(* waited for a prefetch, and link_prefetch_data reads the in_disk flag.   *)
StartReader(k, r) ==
  /\ MayStart(k, r)
  /\ reader' = [reader EXCEPT ![k][r] = IF k \in inDisk THEN "disk" ELSE "redis"]
  /\ UNCHANGED <<redis, infoVars, queueVars, fileVars, remover>>

(* fetch_from_redis: a missing value is looked for on disk.                *)
FetchFromRedis(k, r) ==
  /\ reader[k][r] = "redis"
  /\ reader' = [reader EXCEPT ![k][r] = IF k \in redis THEN "fetched" ELSE "disk"]
  /\ UNCHANGED <<redis, infoVars, queueVars, fileVars, remover>>

(* fetch_from_disk: without the whole file the block gets no value, or a   *)
(* truncated one.                                                          *)
FetchFromDisk(k, r) ==
  /\ reader[k][r] = "disk"
  /\ reader' = [reader EXCEPT ![k][r] = IF disk[k] = "full" THEN "fetched" ELSE "lost"]
  /\ UNCHANGED <<redis, infoVars, queueVars, fileVars, remover>>

(* Mutant: the last report removes the file without looking at in_disk.    *)
MutantRemoveAnyway(k, r) ==
  /\ reader[k][r] \in {"fetched", "lost"}
  /\ reader' = [reader EXCEPT ![k][r] = "done"]
  /\ deps' = [deps EXCEPT ![k] = @ - 1]
  /\ diskRemover' = IF deps[k] = 1 THEN [diskRemover EXCEPT ![k] = "spawned"] ELSE diskRemover
  /\ UNCHANGED <<redis, known, inRedis, inDisk, removing, queueVars, disk, removals, remover>>

(* Mutant: the last report removes the redis key and forgets the file.     *)
MutantKeepFile(k, r) ==
  /\ reader[k][r] \in {"fetched", "lost"}
  /\ reader' = [reader EXCEPT ![k][r] = "done"]
  /\ deps' = [deps EXCEPT ![k] = @ - 1]
  /\ LET removes == deps[k] = 1 /\ k \in inRedis /\ k \notin removing
     IN /\ removing' = IF removes THEN removing \cup {k} ELSE removing
        /\ remover' = IF removes THEN [remover EXCEPT ![k] = "check"] ELSE remover
  /\ UNCHANGED <<redis, known, inRedis, inDisk, queueVars, disk, diskRemover, removals>>

(* The message data_fetched arrives: decrease_key_dependencies.            *)
DecreaseKeyDependencies(k, r) ==
  /\ MayReport(k, r)
  /\ reader' = [reader EXCEPT ![k][r] = "done"]
  /\ deps' = [deps EXCEPT ![k] = @ - 1]
  /\ LET last == deps[k] = 1
         removes == last /\ k \in inRedis /\ k \notin removing
     IN /\ removing' = IF removes THEN removing \cup {k} ELSE removing
        /\ remover' = IF removes THEN [remover EXCEPT ![k] = "check"] ELSE remover
        /\ diskRemover' = IF last /\ k \in inDisk
                          THEN [diskRemover EXCEPT ![k] = "spawned"] ELSE diskRemover
  /\ UNCHANGED <<redis, known, inRedis, inDisk, queueVars, disk, removals>>

-----------------------------------------------------------------------------
(* remove_redis_key                                                        *)

MarkDeleted(k) ==
  /\ inRedis' = inRedis \ {k}
  /\ waitingDelete' = waitingDelete \cup {k}
  /\ remover' = [remover EXCEPT ![k] = "done"]

(* Mutant: a key with a single reader left is not transferred.             *)
MutantLastReader(k) == deps[k] > 1 /\ k \notin inDisk

NeedsTransfer(k) == deps[k] > 0 /\ k \notin inDisk

(* The answer to `key in self.redis' is back.                              *)
CheckRedis(k) ==
  /\ remover[k] = "check"
  /\ IF k \notin redis
     THEN /\ remover' = [remover EXCEPT ![k] = "done"]
          /\ UNCHANGED <<inRedis, waitingDelete>>
     ELSE IF NeedsTransfer(k)
     THEN /\ remover' = [remover EXCEPT ![k] = "get"]
          /\ UNCHANGED <<inRedis, waitingDelete>>
     ELSE MarkDeleted(k)
  /\ UNCHANGED <<redis, known, deps, inDisk, removing, expireQueue, batches, fileVars, reader>>

(* transfer_to_disk after its GET: the file is written; if the last reader *)
(* reported meanwhile it is removed again, otherwise the key is on disk.   *)
TransferToDisk(k) ==
  /\ remover[k] = "get"
  /\ IF deps[k] = 0
     THEN /\ disk' = [disk EXCEPT ![k] = "none"]
          /\ removals' = [removals EXCEPT ![k] = @ + 1]
          /\ UNCHANGED inDisk
     ELSE /\ disk' = [disk EXCEPT ![k] = "full"]
          /\ inDisk' = inDisk \cup {k}
          /\ UNCHANGED removals
  /\ MarkDeleted(k)
  /\ UNCHANGED <<redis, known, deps, removing, expireQueue, batches, diskRemover, reader>>

(* The write raises half-way: sleep, and start over.                       *)
TransferFails(k) ==
  /\ WriteFails
  /\ remover[k] = "get"
  /\ disk' = [disk EXCEPT ![k] = "partial"]
  /\ remover' = [remover EXCEPT ![k] = "check"]
  /\ UNCHANGED <<redis, infoVars, queueVars, diskRemover, removals, reader>>

RemoveDiskKey(k) ==
  /\ diskRemover[k] = "spawned"
  /\ diskRemover' = [diskRemover EXCEPT ![k] = "done"]
  /\ disk' = [disk EXCEPT ![k] = "none"]
  /\ removals' = [removals EXCEPT ![k] = @ + 1]
  /\ UNCHANGED <<redis, infoVars, queueVars, remover, reader>>

-----------------------------------------------------------------------------
(* regular_expire: a batch of deleted keys goes to redis, and the loop     *)
(* takes expired keys from the head of the queue; a round that takes       *)
(* several is several steps here, since nothing runs between them.         *)

StartDeletion ==
  /\ Cardinality(waitingDelete) > DeleteBatch
  /\ batches' = batches \cup {waitingDelete}
  /\ waitingDelete' = {}
  /\ UNCHANGED <<redis, infoVars, expireQueue, fileVars, remover, reader>>

DeleteFromRedis(b) ==
  /\ b \in batches
  /\ redis' = redis \ b
  /\ batches' = batches \ {b}
  /\ UNCHANGED <<infoVars, expireQueue, waitingDelete, fileVars, remover, reader>>

(* Mutant: an expired key gets a remover although it has one already.      *)
MutantExpireAgain ==
  /\ expireQueue # <<>>
  /\ expireQueue' = Tail(expireQueue)
  /\ removing' = removing \cup {Head(expireQueue)}
  /\ remover' = [remover EXCEPT ![Head(expireQueue)] = "check"]
  /\ UNCHANGED <<redis, known, deps, inRedis, inDisk, waitingDelete, batches, fileVars, reader>>

Expire ==
  /\ expireQueue # <<>>
  /\ expireQueue' = Tail(expireQueue)
  /\ LET k == Head(expireQueue) IN
       IF k \in removing THEN UNCHANGED <<removing, remover>>
       ELSE /\ removing' = removing \cup {k}
            /\ remover' = [remover EXCEPT ![k] = "check"]
  /\ UNCHANGED <<redis, known, deps, inRedis, inDisk, waitingDelete, batches, fileVars, reader>>

-----------------------------------------------------------------------------
Monitor(k) ==
  \/ AddRedisKey(k) \/ AddDiskKey(k) \/ Prefetch(k)
  \/ CheckRedis(k) \/ TransferToDisk(k) \/ RemoveDiskKey(k)
Reading(k, r) ==
  \/ StartReader(k, r) \/ FetchFromRedis(k, r) \/ FetchFromDisk(k, r)
  \/ DecreaseKeyDependencies(k, r)

Next ==
  \/ \E k \in Keys : PutToRedis(k) \/ Monitor(k) \/ TransferFails(k)
  \/ \E k \in Keys, r \in Readers : Reading(k, r)
  \/ StartDeletion \/ Expire
  \/ \E b \in batches : DeleteFromRedis(b)

Spec == Init /\ [][Next]_vars

(* Greenlets run, the prefetcher and the redis server answer.  A put and a *)
(* failing write are not fair, and neither are the readers: a switch may   *)
(* not trigger the block, or it may fail before it reads or reports.       *)
Fairness ==
  /\ \A k \in Keys : WF_vars(Monitor(k))
  /\ WF_vars(StartDeletion) /\ WF_vars(Expire)
  /\ WF_vars(\E b \in batches : DeleteFromRedis(b))
FairSpec == Spec /\ Fairness

-----------------------------------------------------------------------------
(* Properties                                                              *)

(* The types of the variables.                                             *)
TypeOK ==
  /\ redis \subseteq LocalKeys
  /\ disk \in [Keys -> {"none", "partial", "full"}]
  /\ known \subseteq Keys /\ inRedis \subseteq Keys
  /\ inDisk \subseteq Keys /\ removing \subseteq Keys
  /\ deps \in [Keys -> Nat]
  /\ expireQueue \in Seq(LocalKeys)
  /\ waitingDelete \subseteq LocalKeys /\ batches \subseteq SUBSET LocalKeys
  /\ remover \in [Keys -> {"none", "check", "get", "done"}]
  /\ diskRemover \in [Keys -> {"none", "spawned", "done"}]
  /\ removals \in [Keys -> Nat]
  /\ reader \in [Keys -> [Readers -> {"idle", "redis", "disk", "fetched", "lost", "done"}]]

(* dependencies_cnt is the number of readers that have not reported: its   *)
(* assertion that it never drops below zero holds, and zero means that     *)
(* every counted reader is through.                                        *)
DepsExact == \A k \in known : deps[k] = Cardinality(Outstanding(k))

(* No reader looks for its value and finds neither the redis key nor the   *)
(* whole file, whenever the key expires, is transferred or is deleted.     *)
NeverLost == \A k \in Keys, r \in Readers : reader[k][r] # "lost"

(* A file is removed at most once, although both transfer_to_disk and the  *)
(* last report remove it: flow_monitor.py:82 fears otherwise.              *)
DiskRemovedOnce == \A k \in Keys : removals[k] <= 1

(* A key is handed to redis.delete once: it is in one batch, or it waits.  *)
DeletedOnce ==
  \A b \in batches :
     /\ b \cap waitingDelete = {}
     /\ \A c \in batches : b # c => b \cap c = {}

Held(k) == k \in redis \/ disk[k] = "full"

Store == INSTANCE KeyStore WITH
  held <- {k \in Keys : Held(k)},
  unread <- [k \in Keys |-> {r \in ReadersOf[k] : reader[k][r] \notin {"fetched", "done"}}]

(* The monitor implements KeyStore: no step gives a value up while one of  *)
(* its readers has still to read it, be the block running or not.          *)
ImplementsKeyStore == Store!Spec

(* Memory is reclaimed in the end whatever the readers do: redis keeps no  *)
(* more keys than regular_expire leaves waiting.  A file goes when the last *)
(* reader of its key has reported, and a reader that never does keeps it.  *)
Reclaimed ==
  <>[](/\ \A k \in Keys : Outstanding(k) = {} => disk[k] = "none"
       /\ known \cap redis \subseteq waitingDelete
       /\ Cardinality(waitingDelete) <= DeleteBatch)

-----------------------------------------------------------------------------
(* The inductive invariant behind these properties                         *)

Deleting(k) == k \in waitingDelete \/ \E b \in batches : k \in b

(* A key that is not registered has left no trace but its redis value.     *)
UnknownInv(k) ==
  k \notin known =>
    /\ \A r \in Readers : reader[k][r] = "idle"
    /\ k \notin inRedis /\ k \notin inDisk /\ k \notin removing /\ ~Deleting(k)
    /\ disk[k] = "none" /\ diskRemover[k] = "none" /\ removals[k] = 0

(* A redis key is in redis, with its flag, until its one remover is done;  *)
(* then it is queued for deletion and unread only if the file is whole.    *)
RedisInv(k) ==
  k \in LocalKeys =>
    /\ k \in known /\ remover[k] # "done" =>
         k \in redis /\ k \in inRedis /\ ~Deleting(k) /\ k \notin inDisk /\ disk[k] # "full"
    /\ remover[k] = "done" => k \notin inRedis /\ (k \in inDisk \/ deps[k] = 0)
    /\ k \in inDisk /\ deps[k] > 0 => disk[k] = "full"

(* A remote key never touches redis, and is read only when prefetched.     *)
RemoteInv(k) ==
  k \in RemoteKeys =>
    /\ remover[k] = "none" /\ k \notin redis /\ k \notin inRedis
    /\ k \in known => k \in inDisk
    /\ \A r \in ReadersOf[k] : reader[k][r] # "idle" /\ deps[k] > 0 => disk[k] = "full"

(* Only counted readers read, and on their way to the disk the flag is set. *)
ReaderInv(k) ==
  \A r \in Readers :
     /\ r \notin ReadersOf[k] => reader[k][r] = "idle"
     /\ reader[k][r] # "lost"
     /\ reader[k][r] = "disk" => k \in inDisk

(* Removals of the file come after the last report, from one side only.    *)
RemovalInv(k) ==
  /\ remover[k] = "none" <=> k \notin removing
  /\ diskRemover[k] # "none" => k \in inDisk /\ deps[k] = 0
  /\ diskRemover[k] = "done" => removals[k] = 1
  /\ diskRemover[k] = "spawned" => removals[k] = 0
  /\ diskRemover[k] = "none" =>
       removals[k] = 0 \/ (removals[k] = 1 /\ remover[k] = "done" /\ k \notin inDisk /\ deps[k] = 0)

(* What waits to expire or to be deleted is registered.                    *)
QueueInv == \A i \in 1..Len(expireQueue) : expireQueue[i] \in known

IInv ==
  /\ TypeOK /\ DepsExact /\ DeletedOnce /\ QueueInv
  /\ \A k \in Keys : UnknownInv(k) /\ RedisInv(k) /\ RemoteInv(k) /\ ReaderInv(k) /\ RemovalInv(k)
=============================================================================
