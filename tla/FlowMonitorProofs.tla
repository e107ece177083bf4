-------------------------- MODULE FlowMonitorProofs --------------------------
(***************************************************************************)
(* FlowMonitor for every set of keys and readers: the inductive invariant, *)
(* the safety properties that follow from it and the refinement of         *)
(* KeyStore.                                                               *)
(***************************************************************************)
EXTENDS FlowMonitor, FiniteSetTheorems, TLAPS

USE DEF Keys, MayPut, MayAddRedisKey, MayAddDiskKey, MayPrefetch, MayStart, MayReport

(* The readers of a key are finitely many.                                 *)
LEMMA OutstandingFinite ==
  ASSUME NEW k \in Keys
  PROVE  IsFiniteSet(Outstanding(k))
<1>1. Outstanding(k) \subseteq Readers
  BY ReadersAssumption DEF Outstanding
<1>2. QED
  BY <1>1, ReadersAssumption, FS_Subset

(* The count of a registered key is zero exactly when every reader it was  *)
(* counted for has reported.                                               *)
LEMMA DepsZero ==
  ASSUME DepsExact, NEW k \in Keys, k \in known
  PROVE  /\ deps[k] \in Nat
         /\ deps[k] = 0 <=> Outstanding(k) = {}
<1>1. deps[k] = Cardinality(Outstanding(k))
  BY DEF DepsExact
<1>2. QED
  BY <1>1, OutstandingFinite, FS_EmptySet, FS_CardinalityType

(* A reader that has not reported keeps the count above zero.              *)
LEMMA DepsPositive ==
  ASSUME DepsExact, NEW k \in Keys, k \in known,
         NEW r \in ReadersOf[k], reader[k][r] # "done"
  PROVE  deps[k] \in Nat /\ deps[k] > 0
<1>1. r \in Outstanding(k)
  BY DEF Outstanding
<1>2. QED
  BY <1>1, DepsZero

(* The count of a key whose outstanding readers do not change stays exact. *)
LEMMA DepsExactKept ==
  ASSUME DepsExact, known' = known, deps' = deps,
         \A k \in known : Outstanding(k)' = Outstanding(k)
  PROVE  DepsExact'
BY DEF DepsExact

(* Every initial state satisfies the invariant.                            *)
LEMMA InitIInv == Init => IInv
BY ReadersAssumption DEF Init, IInv, TypeOK, DepsExact, DeletedOnce, QueueInv, UnknownInv, RedisInv,
   RemoteInv, ReaderInv, RemovalInv, Deleting

-----------------------------------------------------------------------------
(* Each action preserves it, conjunct by conjunct                          *)

(* A value put in redis before its message is registered by nobody.        *)
LEMMA PutToRedisIInv ==
  ASSUME IInv, NEW k \in Keys, PutToRedis(k)
  PROVE  IInv'
<1> USE KeysAssumption, ReadersAssumption DEF infoVars, queueVars, fileVars, PutToRedis
<1>1. TypeOK' BY DEF IInv, TypeOK
<1>2. DepsExact' BY DEF IInv, TypeOK, DepsExact, Outstanding
<1>3. DeletedOnce' BY DEF IInv, TypeOK, DeletedOnce, RedisInv, Deleting
<1>4. QueueInv' BY DEF IInv, TypeOK, QueueInv
<1>5. ASSUME NEW x \in Keys PROVE UnknownInv(x)' BY <1>5 DEF IInv, TypeOK, UnknownInv, Deleting, QueueInv
<1>6. ASSUME NEW x \in Keys PROVE RedisInv(x)' BY <1>6 DEF IInv, TypeOK, UnknownInv, RedisInv, RemovalInv, Deleting
<1>7. ASSUME NEW x \in Keys PROVE RemoteInv(x)' BY <1>7 DEF IInv, TypeOK, UnknownInv, RemoteInv
<1>8. ASSUME NEW x \in Keys PROVE ReaderInv(x)' BY <1>8 DEF IInv, TypeOK, UnknownInv, ReaderInv
<1>9. ASSUME NEW x \in Keys PROVE RemovalInv(x)' BY <1>9 DEF IInv, TypeOK, UnknownInv, RedisInv, RemovalInv
<1>10. QED BY <1>1, <1>2, <1>3, <1>4, <1>5, <1>6, <1>7, <1>8, <1>9 DEF IInv

(* The new count is that of readers of whom none has started.              *)
LEMMA AddRedisKeyIInv ==
  ASSUME IInv, NEW k \in Keys, AddRedisKey(k)
  PROVE  IInv'
<1> USE KeysAssumption, ReadersAssumption DEF infoVars, queueVars, fileVars, AddRedisKey
<1>a. Cardinality(ReadersOf[k]) \in Nat
  BY FS_Subset, FS_CardinalityType
<1>1. TypeOK' BY <1>a DEF IInv, TypeOK
<1>2. DepsExact'
  <2>1. reader[k] \in [Readers -> {"idle"}]
    BY DEF IInv, TypeOK, UnknownInv
  <2>2. Outstanding(k)' = ReadersOf[k]
    BY <2>1 DEF Outstanding
  <2>3. \A x \in known : Outstanding(x)' = Outstanding(x)
    BY DEF Outstanding
  <2>4. QED
    BY <2>2, <2>3 DEF IInv, TypeOK, DepsExact
<1>3. DeletedOnce' BY DEF IInv, TypeOK, DeletedOnce, RedisInv, Deleting
<1>4. QueueInv' BY DEF IInv, TypeOK, QueueInv
<1>5. ASSUME NEW x \in Keys PROVE UnknownInv(x)' BY <1>5 DEF IInv, TypeOK, UnknownInv, Deleting, QueueInv
<1>6. ASSUME NEW x \in Keys PROVE RedisInv(x)' BY <1>6 DEF IInv, TypeOK, UnknownInv, RedisInv, RemovalInv, Deleting
<1>7. ASSUME NEW x \in Keys PROVE RemoteInv(x)' BY <1>7 DEF IInv, TypeOK, UnknownInv, RemoteInv
<1>8. ASSUME NEW x \in Keys PROVE ReaderInv(x)' BY <1>8 DEF IInv, TypeOK, UnknownInv, ReaderInv
<1>9. ASSUME NEW x \in Keys PROVE RemovalInv(x)' BY <1>9 DEF IInv, TypeOK, UnknownInv, RedisInv, RemovalInv
<1>10. QED BY <1>1, <1>2, <1>3, <1>4, <1>5, <1>6, <1>7, <1>8, <1>9 DEF IInv

(* A remote key starts with all its readers, and its file open.            *)
LEMMA AddDiskKeyIInv ==
  ASSUME IInv, NEW k \in Keys, AddDiskKey(k)
  PROVE  IInv'
<1> USE KeysAssumption, ReadersAssumption DEF infoVars, queueVars, fileVars, AddDiskKey
<1>a. Cardinality(ReadersOf[k]) \in Nat
  BY FS_Subset, FS_CardinalityType
<1>1. TypeOK' BY <1>a DEF IInv, TypeOK
<1>2. DepsExact'
  <2>1. reader[k] \in [Readers -> {"idle"}]
    BY DEF IInv, TypeOK, UnknownInv
  <2>2. Outstanding(k)' = ReadersOf[k]
    BY <2>1 DEF Outstanding
  <2>3. \A x \in known : Outstanding(x)' = Outstanding(x)
    BY DEF Outstanding
  <2>4. QED
    BY <2>2, <2>3 DEF IInv, TypeOK, DepsExact
<1>3. DeletedOnce' BY DEF IInv, TypeOK, DeletedOnce, RedisInv, Deleting
<1>4. QueueInv' BY DEF IInv, TypeOK, QueueInv
<1>5. ASSUME NEW x \in Keys PROVE UnknownInv(x)' BY <1>5 DEF IInv, TypeOK, UnknownInv, Deleting, QueueInv
<1>6. ASSUME NEW x \in Keys PROVE RedisInv(x)' BY <1>6 DEF IInv, TypeOK, UnknownInv, RedisInv, RemovalInv, Deleting
<1>7. ASSUME NEW x \in Keys PROVE RemoteInv(x)' BY <1>7 DEF IInv, TypeOK, UnknownInv, RemoteInv
<1>8. ASSUME NEW x \in Keys PROVE ReaderInv(x)' BY <1>8 DEF IInv, TypeOK, UnknownInv, ReaderInv
<1>9. ASSUME NEW x \in Keys PROVE RemovalInv(x)' BY <1>9 DEF IInv, TypeOK, UnknownInv, RedisInv, RemovalInv
<1>10. QED BY <1>1, <1>2, <1>3, <1>4, <1>5, <1>6, <1>7, <1>8, <1>9 DEF IInv

(* The prefetcher completes the file of a key nobody has started to read.  *)
LEMMA PrefetchIInv ==
  ASSUME IInv, NEW k \in Keys, Prefetch(k)
  PROVE  IInv'
<1> USE KeysAssumption, ReadersAssumption DEF infoVars, queueVars, fileVars, Prefetch
<1>1. TypeOK' BY DEF IInv, TypeOK
<1>2. DepsExact' BY DEF IInv, TypeOK, DepsExact, Outstanding
<1>3. DeletedOnce' BY DEF IInv, TypeOK, DeletedOnce, RedisInv, Deleting
<1>4. QueueInv' BY DEF IInv, TypeOK, QueueInv
<1>5. ASSUME NEW x \in Keys PROVE UnknownInv(x)' BY <1>5 DEF IInv, TypeOK, UnknownInv, Deleting, QueueInv
<1>6. ASSUME NEW x \in Keys PROVE RedisInv(x)' BY <1>6 DEF IInv, TypeOK, UnknownInv, RedisInv, RemovalInv, Deleting
<1>7. ASSUME NEW x \in Keys PROVE RemoteInv(x)' BY <1>7 DEF IInv, TypeOK, UnknownInv, RemoteInv
<1>8. ASSUME NEW x \in Keys PROVE ReaderInv(x)' BY <1>8 DEF IInv, TypeOK, UnknownInv, ReaderInv
<1>9. ASSUME NEW x \in Keys PROVE RemovalInv(x)' BY <1>9 DEF IInv, TypeOK, UnknownInv, RedisInv, RemovalInv
<1>10. QED BY <1>1, <1>2, <1>3, <1>4, <1>5, <1>6, <1>7, <1>8, <1>9 DEF IInv

(* The remover keeps its key in redis, or finds it read or on disk.        *)
LEMMA CheckRedisIInv ==
  ASSUME IInv, NEW k \in Keys, CheckRedis(k)
  PROVE  IInv'
<1> USE KeysAssumption, ReadersAssumption DEF infoVars, queueVars, fileVars, CheckRedis, MarkDeleted, NeedsTransfer
<1>k. k \in known /\ k \in LocalKeys
  BY DEF IInv, UnknownInv, RemovalInv, RemoteInv
<1>1. TypeOK' BY <1>k DEF IInv, TypeOK
<1>2. DepsExact' BY DEF IInv, TypeOK, DepsExact, Outstanding
<1>3. DeletedOnce' BY <1>k DEF IInv, TypeOK, DeletedOnce, RedisInv, Deleting
<1>4. QueueInv' BY DEF IInv, TypeOK, QueueInv
<1>5. ASSUME NEW x \in Keys PROVE UnknownInv(x)' BY <1>k, <1>5 DEF IInv, TypeOK, UnknownInv, Deleting, QueueInv
<1>6. ASSUME NEW x \in Keys PROVE RedisInv(x)' BY <1>6 DEF IInv, TypeOK, UnknownInv, RedisInv, RemovalInv, Deleting
<1>7. ASSUME NEW x \in Keys PROVE RemoteInv(x)' BY <1>7 DEF IInv, TypeOK, UnknownInv, RemoteInv
<1>8. ASSUME NEW x \in Keys PROVE ReaderInv(x)' BY <1>8 DEF IInv, TypeOK, UnknownInv, ReaderInv
<1>9. ASSUME NEW x \in Keys PROVE RemovalInv(x)' BY <1>9 DEF IInv, TypeOK, UnknownInv, RedisInv, RemovalInv
<1>10. QED BY <1>1, <1>2, <1>3, <1>4, <1>5, <1>6, <1>7, <1>8, <1>9 DEF IInv

(* A transferred key is on disk, unless its last reader has reported.      *)
LEMMA TransferToDiskIInv ==
  ASSUME IInv, NEW k \in Keys, TransferToDisk(k)
  PROVE  IInv'
<1> USE KeysAssumption, ReadersAssumption DEF infoVars, queueVars, fileVars, TransferToDisk, MarkDeleted
<1>k. k \in known /\ k \in LocalKeys
  BY DEF IInv, UnknownInv, RemovalInv, RemoteInv
<1>m. removals' \in [Keys -> Nat]
  BY DEF IInv, TypeOK
<1>w. inRedis' \subseteq Keys /\ waitingDelete' \subseteq LocalKeys /\ inDisk' \subseteq Keys
  BY <1>k DEF IInv, TypeOK
<1>d. disk' \in [Keys -> {"none", "partial", "full"}]
  BY DEF IInv, TypeOK
<1>1. TypeOK' BY <1>m, <1>w, <1>d DEF IInv, TypeOK
<1>2. DepsExact' BY DEF IInv, TypeOK, DepsExact, Outstanding
<1>3. DeletedOnce' BY <1>k DEF IInv, TypeOK, DeletedOnce, RedisInv, Deleting
<1>4. QueueInv' BY DEF IInv, TypeOK, QueueInv
<1>5. ASSUME NEW x \in Keys PROVE UnknownInv(x)' BY <1>k, <1>5 DEF IInv, TypeOK, UnknownInv, Deleting, QueueInv
<1>6. ASSUME NEW x \in Keys PROVE RedisInv(x)' BY <1>6 DEF IInv, TypeOK, UnknownInv, RedisInv, RemovalInv, Deleting
<1>7. ASSUME NEW x \in Keys PROVE RemoteInv(x)' BY <1>7 DEF IInv, TypeOK, UnknownInv, RemoteInv
<1>8. ASSUME NEW x \in Keys PROVE ReaderInv(x)' BY <1>8 DEF IInv, TypeOK, UnknownInv, ReaderInv
<1>9. ASSUME NEW x \in Keys PROVE RemovalInv(x)' BY <1>k, <1>9 DEF IInv, TypeOK, UnknownInv, RedisInv, RemovalInv
<1>10. QED BY <1>1, <1>2, <1>3, <1>4, <1>5, <1>6, <1>7, <1>8, <1>9 DEF IInv

(* A write that fails leaves the key in redis, with its remover.           *)
LEMMA TransferFailsIInv ==
  ASSUME IInv, NEW k \in Keys, TransferFails(k)
  PROVE  IInv'
<1> USE KeysAssumption, ReadersAssumption DEF infoVars, queueVars, fileVars, TransferFails
<1>k. k \in known /\ k \in LocalKeys
  BY DEF IInv, UnknownInv, RemovalInv, RemoteInv
<1>1. TypeOK' BY <1>k DEF IInv, TypeOK
<1>2. DepsExact' BY DEF IInv, TypeOK, DepsExact, Outstanding
<1>3. DeletedOnce' BY <1>k DEF IInv, TypeOK, DeletedOnce, RedisInv, Deleting
<1>4. QueueInv' BY DEF IInv, TypeOK, QueueInv
<1>5. ASSUME NEW x \in Keys PROVE UnknownInv(x)' BY <1>k, <1>5 DEF IInv, TypeOK, UnknownInv, Deleting, QueueInv
<1>6. ASSUME NEW x \in Keys PROVE RedisInv(x)' BY <1>6 DEF IInv, TypeOK, UnknownInv, RedisInv, RemovalInv, Deleting
<1>7. ASSUME NEW x \in Keys PROVE RemoteInv(x)' BY <1>7 DEF IInv, TypeOK, UnknownInv, RemoteInv
<1>8. ASSUME NEW x \in Keys PROVE ReaderInv(x)' BY <1>8 DEF IInv, TypeOK, UnknownInv, ReaderInv
<1>9. ASSUME NEW x \in Keys PROVE RemovalInv(x)' BY <1>9 DEF IInv, TypeOK, UnknownInv, RedisInv, RemovalInv
<1>10. QED BY <1>1, <1>2, <1>3, <1>4, <1>5, <1>6, <1>7, <1>8, <1>9 DEF IInv

(* The file goes when the count is zero, so no reader is left.             *)
LEMMA RemoveDiskKeyIInv ==
  ASSUME IInv, NEW k \in Keys, RemoveDiskKey(k)
  PROVE  IInv'
<1> USE KeysAssumption, ReadersAssumption DEF infoVars, queueVars, fileVars, RemoveDiskKey
<1>1. TypeOK' BY DEF IInv, TypeOK
<1>2. DepsExact' BY DEF IInv, TypeOK, DepsExact, Outstanding
<1>3. DeletedOnce' BY DEF IInv, TypeOK, DeletedOnce, RedisInv, Deleting
<1>4. QueueInv' BY DEF IInv, TypeOK, QueueInv
<1>5. ASSUME NEW x \in Keys PROVE UnknownInv(x)' BY <1>5 DEF IInv, TypeOK, UnknownInv, Deleting, QueueInv
<1>6. ASSUME NEW x \in Keys PROVE RedisInv(x)' BY <1>6 DEF IInv, TypeOK, UnknownInv, RedisInv, RemovalInv, Deleting
<1>7. ASSUME NEW x \in Keys PROVE RemoteInv(x)' BY <1>7 DEF IInv, TypeOK, UnknownInv, RemoteInv, RemovalInv
<1>8. ASSUME NEW x \in Keys PROVE ReaderInv(x)' BY <1>8 DEF IInv, TypeOK, UnknownInv, ReaderInv
<1>9. ASSUME NEW x \in Keys PROVE RemovalInv(x)' BY <1>9 DEF IInv, TypeOK, UnknownInv, RedisInv, RemovalInv
<1>10. QED BY <1>1, <1>2, <1>3, <1>4, <1>5, <1>6, <1>7, <1>8, <1>9 DEF IInv

(* A reader that starts goes to the disk only if the flag is set.          *)
LEMMA StartReaderIInv ==
  ASSUME IInv, NEW k \in Keys, NEW r \in Readers, StartReader(k, r)
  PROVE  IInv'
<1> USE KeysAssumption, ReadersAssumption DEF infoVars, queueVars, fileVars, StartReader
<1>1. TypeOK' BY DEF IInv, TypeOK
<1>2. DepsExact'
  <2>1. \A x \in known : Outstanding(x)' = Outstanding(x)
    BY DEF IInv, TypeOK, Outstanding
  <2>2. QED
    BY <2>1, DepsExactKept DEF IInv
<1>3. DeletedOnce' BY DEF IInv, TypeOK, DeletedOnce, RedisInv, Deleting
<1>4. QueueInv' BY DEF IInv, TypeOK, QueueInv
<1>5. ASSUME NEW x \in Keys PROVE UnknownInv(x)' BY <1>5 DEF IInv, TypeOK, UnknownInv, Deleting, QueueInv
<1>6. ASSUME NEW x \in Keys PROVE RedisInv(x)' BY <1>6 DEF IInv, TypeOK, UnknownInv, RedisInv, RemovalInv, Deleting
<1>7. ASSUME NEW x \in Keys PROVE RemoteInv(x)' BY <1>7 DEF IInv, TypeOK, UnknownInv, RemoteInv
<1>8. ASSUME NEW x \in Keys PROVE ReaderInv(x)' BY <1>8 DEF IInv, TypeOK, UnknownInv, ReaderInv
<1>9. ASSUME NEW x \in Keys PROVE RemovalInv(x)' BY <1>9 DEF IInv, TypeOK, UnknownInv, RedisInv, RemovalInv
<1>10. QED BY <1>1, <1>2, <1>3, <1>4, <1>5, <1>6, <1>7, <1>8, <1>9 DEF IInv

(* A key not in redis any more is on disk for a reader that has not reported. *)
LEMMA FetchFromRedisIInv ==
  ASSUME IInv, NEW k \in Keys, NEW r \in Readers, FetchFromRedis(k, r)
  PROVE  IInv'
<1> USE KeysAssumption, ReadersAssumption DEF infoVars, queueVars, fileVars, FetchFromRedis
<1>r. k \in known /\ r \in ReadersOf[k]
  BY DEF IInv, UnknownInv, ReaderInv
<1>p. deps[k] \in Nat /\ deps[k] > 0
  BY <1>r, DepsPositive DEF IInv
<1>1. TypeOK' BY DEF IInv, TypeOK
<1>2. DepsExact'
  <2>1. \A x \in known : Outstanding(x)' = Outstanding(x)
    BY DEF IInv, TypeOK, Outstanding
  <2>2. QED
    BY <2>1, DepsExactKept DEF IInv
<1>3. DeletedOnce' BY DEF IInv, TypeOK, DeletedOnce, RedisInv, Deleting
<1>4. QueueInv' BY DEF IInv, TypeOK, QueueInv
<1>5. ASSUME NEW x \in Keys PROVE UnknownInv(x)' BY <1>5 DEF IInv, TypeOK, UnknownInv, Deleting, QueueInv
<1>6. ASSUME NEW x \in Keys PROVE RedisInv(x)' BY <1>6 DEF IInv, TypeOK, UnknownInv, RedisInv, RemovalInv, Deleting
<1>7. ASSUME NEW x \in Keys PROVE RemoteInv(x)' BY <1>7 DEF IInv, TypeOK, UnknownInv, RemoteInv
<1>8. ASSUME NEW x \in Keys PROVE ReaderInv(x)'
  BY <1>r, <1>p, <1>8 DEF IInv, TypeOK, UnknownInv, RedisInv, RemoteInv, ReaderInv
<1>9. ASSUME NEW x \in Keys PROVE RemovalInv(x)' BY <1>9 DEF IInv, TypeOK, UnknownInv, RedisInv, RemovalInv
<1>10. QED BY <1>1, <1>2, <1>3, <1>4, <1>5, <1>6, <1>7, <1>8, <1>9 DEF IInv

(* A reader that looks on disk finds the whole file.                       *)
LEMMA FetchFromDiskIInv ==
  ASSUME IInv, NEW k \in Keys, NEW r \in Readers, FetchFromDisk(k, r)
  PROVE  IInv'
<1> USE KeysAssumption, ReadersAssumption DEF infoVars, queueVars, fileVars, FetchFromDisk
<1>r. k \in known /\ r \in ReadersOf[k]
  BY DEF IInv, UnknownInv, ReaderInv
<1>p. deps[k] \in Nat /\ deps[k] > 0
  BY <1>r, DepsPositive DEF IInv
<1>1. TypeOK' BY DEF IInv, TypeOK
<1>2. DepsExact'
  <2>1. \A x \in known : Outstanding(x)' = Outstanding(x)
    BY DEF IInv, TypeOK, Outstanding
  <2>2. QED
    BY <2>1, DepsExactKept DEF IInv
<1>3. DeletedOnce' BY DEF IInv, TypeOK, DeletedOnce, RedisInv, Deleting
<1>4. QueueInv' BY DEF IInv, TypeOK, QueueInv
<1>5. ASSUME NEW x \in Keys PROVE UnknownInv(x)' BY <1>5 DEF IInv, TypeOK, UnknownInv, Deleting, QueueInv
<1>6. ASSUME NEW x \in Keys PROVE RedisInv(x)' BY <1>6 DEF IInv, TypeOK, UnknownInv, RedisInv, RemovalInv, Deleting
<1>7. ASSUME NEW x \in Keys PROVE RemoteInv(x)' BY <1>7 DEF IInv, TypeOK, UnknownInv, RemoteInv
<1>8. ASSUME NEW x \in Keys PROVE ReaderInv(x)'
  BY <1>r, <1>p, <1>8 DEF IInv, TypeOK, UnknownInv, RedisInv, RemoteInv, ReaderInv
<1>9. ASSUME NEW x \in Keys PROVE RemovalInv(x)' BY <1>9 DEF IInv, TypeOK, UnknownInv, RedisInv, RemovalInv
<1>10. QED BY <1>1, <1>2, <1>3, <1>4, <1>5, <1>6, <1>7, <1>8, <1>9 DEF IInv

(* A report takes one reader off the count; the last one spawns the removers. *)
LEMMA DecreaseIInv ==
  ASSUME IInv, NEW k \in Keys, NEW r \in Readers, DecreaseKeyDependencies(k, r)
  PROVE  IInv'
<1> USE KeysAssumption, ReadersAssumption DEF infoVars, queueVars, fileVars, DecreaseKeyDependencies
<1>r. k \in known /\ r \in ReadersOf[k]
  BY DEF IInv, UnknownInv, ReaderInv
<1>p. deps[k] \in Nat /\ deps[k] > 0
  BY <1>r, DepsPositive DEF IInv
<1>t. deps' \in [Keys -> Nat]
  BY <1>p DEF IInv, TypeOK
<1>1. TypeOK' BY <1>t DEF IInv, TypeOK
<1>2. DepsExact'
  <2>1. \A x \in known : x # k => Outstanding(x)' = Outstanding(x)
    BY DEF IInv, TypeOK, Outstanding
  <2>2. Outstanding(k)' = Outstanding(k) \ {r} /\ r \in Outstanding(k)
    BY <1>r DEF IInv, TypeOK, Outstanding
  <2>3. Cardinality(Outstanding(k)') = Cardinality(Outstanding(k)) - 1
    BY <2>2, OutstandingFinite, FS_RemoveElement
  <2>4. QED
    BY <2>1, <2>3 DEF IInv, TypeOK, DepsExact
<1>3. DeletedOnce' BY DEF IInv, TypeOK, DeletedOnce, RedisInv, Deleting
<1>4. QueueInv' BY DEF IInv, TypeOK, QueueInv
<1>5. ASSUME NEW x \in Keys PROVE UnknownInv(x)' BY <1>5 DEF IInv, TypeOK, UnknownInv, Deleting, QueueInv
<1>6. ASSUME NEW x \in Keys PROVE RedisInv(x)' BY <1>p, <1>6 DEF IInv, TypeOK, UnknownInv, RedisInv, RemovalInv, Deleting
<1>7. ASSUME NEW x \in Keys PROVE RemoteInv(x)' BY <1>7 DEF IInv, TypeOK, UnknownInv, RemoteInv
<1>8. ASSUME NEW x \in Keys PROVE ReaderInv(x)' BY <1>8 DEF IInv, TypeOK, UnknownInv, ReaderInv
<1>9. ASSUME NEW x \in Keys PROVE RemovalInv(x)' BY <1>p, <1>r, <1>9 DEF IInv, TypeOK, UnknownInv, RedisInv, RemovalInv
<1>10. QED BY <1>1, <1>2, <1>3, <1>4, <1>5, <1>6, <1>7, <1>8, <1>9 DEF IInv

(* The waiting keys become a batch disjoint from the others.               *)
LEMMA StartDeletionIInv ==
  ASSUME IInv, StartDeletion
  PROVE  IInv'
<1> USE KeysAssumption, ReadersAssumption DEF infoVars, queueVars, fileVars, StartDeletion
<1>1. TypeOK' BY DEF IInv, TypeOK
<1>2. DepsExact' BY DEF IInv, TypeOK, DepsExact, Outstanding
<1>3. DeletedOnce' BY DEF IInv, TypeOK, DeletedOnce, RedisInv, Deleting
<1>4. QueueInv' BY DEF IInv, TypeOK, QueueInv
<1>5. ASSUME NEW x \in Keys PROVE UnknownInv(x)' BY <1>5 DEF IInv, TypeOK, UnknownInv, Deleting, QueueInv
<1>6. ASSUME NEW x \in Keys PROVE RedisInv(x)' BY <1>6 DEF IInv, TypeOK, UnknownInv, RedisInv, RemovalInv, Deleting
<1>7. ASSUME NEW x \in Keys PROVE RemoteInv(x)' BY <1>7 DEF IInv, TypeOK, UnknownInv, RemoteInv
<1>8. ASSUME NEW x \in Keys PROVE ReaderInv(x)' BY <1>8 DEF IInv, TypeOK, UnknownInv, ReaderInv
<1>9. ASSUME NEW x \in Keys PROVE RemovalInv(x)' BY <1>9 DEF IInv, TypeOK, UnknownInv, RedisInv, RemovalInv
<1>10. QED BY <1>1, <1>2, <1>3, <1>4, <1>5, <1>6, <1>7, <1>8, <1>9 DEF IInv

(* A batch holds only keys whose remover is done.                          *)
LEMMA DeleteFromRedisIInv ==
  ASSUME IInv, NEW b \in batches, DeleteFromRedis(b)
  PROVE  IInv'
<1> USE KeysAssumption, ReadersAssumption DEF infoVars, queueVars, fileVars, DeleteFromRedis
<1>1. TypeOK' BY DEF IInv, TypeOK
<1>2. DepsExact' BY DEF IInv, TypeOK, DepsExact, Outstanding
<1>3. DeletedOnce' BY DEF IInv, TypeOK, DeletedOnce, RedisInv, Deleting
<1>4. QueueInv' BY DEF IInv, TypeOK, QueueInv
<1>5. ASSUME NEW x \in Keys PROVE UnknownInv(x)' BY <1>5 DEF IInv, TypeOK, UnknownInv, Deleting, QueueInv
<1>6. ASSUME NEW x \in Keys PROVE RedisInv(x)' BY <1>6 DEF IInv, TypeOK, UnknownInv, RedisInv, RemovalInv, Deleting
<1>7. ASSUME NEW x \in Keys PROVE RemoteInv(x)' BY <1>7 DEF IInv, TypeOK, UnknownInv, RemoteInv
<1>8. ASSUME NEW x \in Keys PROVE ReaderInv(x)' BY <1>8 DEF IInv, TypeOK, UnknownInv, ReaderInv
<1>9. ASSUME NEW x \in Keys PROVE RemovalInv(x)' BY <1>9 DEF IInv, TypeOK, UnknownInv, RedisInv, RemovalInv
<1>10. QED BY <1>1, <1>2, <1>3, <1>4, <1>5, <1>6, <1>7, <1>8, <1>9 DEF IInv

(* An expired key gets a remover unless it has one.                        *)
LEMMA ExpireIInv ==
  ASSUME IInv, Expire
  PROVE  IInv'
<1> USE KeysAssumption, ReadersAssumption DEF infoVars, queueVars, fileVars, Expire
<1>h. Head(expireQueue) \in LocalKeys /\ Head(expireQueue) \in known /\ Tail(expireQueue) \in Seq(LocalKeys)
  BY DEF IInv, TypeOK, QueueInv
<1>r. /\ removing' \subseteq Keys
      /\ remover' \in [Keys -> {"none", "check", "get", "done"}]
  BY <1>h DEF IInv, TypeOK
<1>1. TypeOK' BY <1>h, <1>r DEF IInv, TypeOK
<1>2. DepsExact' BY DEF IInv, TypeOK, DepsExact, Outstanding
<1>3. DeletedOnce' BY DEF IInv, TypeOK, DeletedOnce, RedisInv, Deleting
<1>4. QueueInv' BY DEF IInv, TypeOK, QueueInv
<1>5. ASSUME NEW x \in Keys PROVE UnknownInv(x)' BY <1>5 DEF IInv, TypeOK, UnknownInv, Deleting, QueueInv
<1>6. ASSUME NEW x \in Keys PROVE RedisInv(x)' BY <1>6 DEF IInv, TypeOK, UnknownInv, RedisInv, RemovalInv, Deleting
<1>7. ASSUME NEW x \in Keys PROVE RemoteInv(x)' BY <1>7 DEF IInv, TypeOK, UnknownInv, RemoteInv
<1>8. ASSUME NEW x \in Keys PROVE ReaderInv(x)' BY <1>8 DEF IInv, TypeOK, UnknownInv, ReaderInv
<1>9. ASSUME NEW x \in Keys PROVE RemovalInv(x)' BY <1>9 DEF IInv, TypeOK, UnknownInv, RedisInv, RemovalInv
<1>10. QED BY <1>1, <1>2, <1>3, <1>4, <1>5, <1>6, <1>7, <1>8, <1>9 DEF IInv

(* A stuttering step preserves the invariant.                              *)
LEMMA StutterIInv ==
  ASSUME IInv, UNCHANGED vars
  PROVE  IInv'
BY DEF IInv, TypeOK, DepsExact, DeletedOnce, QueueInv, UnknownInv, RedisInv, RemoteInv, ReaderInv, RemovalInv,
   Deleting, Outstanding, vars, infoVars, queueVars, fileVars

(* Every step of the monitor, its readers and redis preserves the invariant. *)
LEMMA NextIInv == IInv /\ [Next]_vars => IInv'
<1> SUFFICES ASSUME IInv, [Next]_vars PROVE IInv'
  OBVIOUS
<1>1. CASE UNCHANGED vars
  BY <1>1, StutterIInv
<1>2. ASSUME NEW k \in Keys, PutToRedis(k) PROVE IInv'
  BY <1>2, PutToRedisIInv
<1>3. ASSUME NEW k \in Keys, Monitor(k) PROVE IInv'
  BY <1>3, AddRedisKeyIInv, AddDiskKeyIInv, PrefetchIInv, CheckRedisIInv, TransferToDiskIInv,
     RemoveDiskKeyIInv DEF Monitor
<1>4. ASSUME NEW k \in Keys, TransferFails(k) PROVE IInv'
  BY <1>4, TransferFailsIInv
<1>5. ASSUME NEW k \in Keys, NEW r \in Readers, Reading(k, r) PROVE IInv'
  BY <1>5, StartReaderIInv, FetchFromRedisIInv, FetchFromDiskIInv, DecreaseIInv DEF Reading
<1>6. CASE StartDeletion
  BY <1>6, StartDeletionIInv
<1>7. CASE Expire
  BY <1>7, ExpireIInv
<1>8. ASSUME NEW b \in batches, DeleteFromRedis(b) PROVE IInv'
  BY <1>8, DeleteFromRedisIInv
<1>9. QED
  BY <1>1, <1>2, <1>3, <1>4, <1>5, <1>6, <1>7, <1>8 DEF Next

(* The invariant holds in every reachable state. *)
THEOREM Invariance == Spec => []IInv
<1>1. Init => IInv
  BY InitIInv
<1>2. IInv /\ [Next]_vars => IInv'
  BY NextIInv
<1>3. QED
  BY <1>1, <1>2, PTL DEF Spec

(* The types of the variables hold in every reachable state.               *)
THEOREM TypeCorrect == Spec => []TypeOK
<1>1. IInv => TypeOK
  BY DEF IInv
<1>2. QED
  BY <1>1, Invariance, PTL

(* decrease_key_dependencies never counts a reader twice: its assertion holds. *)
THEOREM CountExact == Spec => []DepsExact
<1>1. IInv => DepsExact
  BY DEF IInv
<1>2. QED
  BY <1>1, Invariance, PTL

(* No reader misses its value in redis and on disk (store.py, fetch_from_redis). *)
THEOREM NoValueLost == Spec => []NeverLost
<1>1. IInv => NeverLost
  BY DEF IInv, ReaderInv, NeverLost
<1>2. QED
  BY <1>1, Invariance, PTL

(* transfer_to_disk and remove_disk_key never both remove the file of a key. *)
THEOREM FileRemovedOnce == Spec => []DiskRemovedOnce
<1>1. IInv => DiskRemovedOnce
  <2>1. SUFFICES ASSUME IInv, NEW k \in Keys PROVE removals[k] <= 1
    BY DEF DiskRemovedOnce
  <2>2. diskRemover[k] \in {"none", "spawned", "done"} /\ RemovalInv(k)
    BY <2>1 DEF IInv, TypeOK
  <2>3. QED
    BY <2>2 DEF RemovalInv
<1>2. QED
  BY <1>1, Invariance, PTL

(* regular_expire hands a key to redis.delete once.                        *)
THEOREM KeyDeletedOnce == Spec => []DeletedOnce
<1>1. IInv => DeletedOnce
  BY DEF IInv
<1>2. QED
  BY <1>1, Invariance, PTL

-----------------------------------------------------------------------------
(* The refinement of KeyStore                                              *)

held == {k \in Keys : Held(k)}
unread == [k \in Keys |-> {r \in ReadersOf[k] : reader[k][r] \notin {"fetched", "done"}}]

(* A key whose count is zero has no reader left that has not read. *)
LEMMA ZeroIsRead ==
  ASSUME IInv, NEW k \in Keys, k \in known, deps[k] = 0
  PROVE  unread[k] = {}
<1>1. Outstanding(k) = {}
  BY DepsZero DEF IInv
<1>2. QED
  BY <1>1 DEF Outstanding, unread

(* A step that changes neither what can be read nor who has read it stutters. *)
LEMMA SameStore ==
  ASSUME redis' = redis, disk' = disk, reader' = reader
  PROVE  UNCHANGED <<held, unread>>
BY DEF held, unread, Held

(* Initially nothing is held and nothing has been read.                    *)
LEMMA InitStore == Init => Store!Init
<1>1. ASSUME Init PROVE held = {}
  BY <1>1 DEF Init, held, Held
<1>2. unread \in [Keys -> SUBSET Readers]
  BY ReadersAssumption DEF unread
<1>3. QED
  BY <1>1, <1>2 DEF Store!Init, held, unread

(* A put stores the value.                                                 *)
LEMMA PutToRedisStore ==
  ASSUME IInv, NEW k \in Keys, PutToRedis(k)
  PROVE  Store!Next
<1> USE DEF fileVars, PutToRedis
<1>1. held' = held \cup {k}
  BY DEF held, Held
<1>2. unread' = unread
  BY DEF unread
<1>3. QED
  BY <1>1, <1>2 DEF Store!Next, Store!Store, held, unread

(* A completed prefetch stores the value.                                  *)
LEMMA PrefetchStore ==
  ASSUME IInv, NEW k \in Keys, Prefetch(k)
  PROVE  Store!Next
<1> USE DEF Prefetch
<1>1. held' = held \cup {k}
  BY DEF held, Held, IInv, TypeOK
<1>2. unread' = unread
  BY DEF unread
<1>3. QED
  BY <1>1, <1>2 DEF Store!Next, Store!Store, held, unread

(* While the remover works on it the key is in redis: the file changes nothing. *)
LEMMA TransferStore ==
  ASSUME IInv, NEW k \in Keys, TransferToDisk(k) \/ TransferFails(k)
  PROVE  UNCHANGED <<held, unread>>
<1> USE DEF TransferToDisk, TransferFails, queueVars, infoVars
<1>1. k \in redis
  BY DEF IInv, TypeOK, UnknownInv, RedisInv, RemoteInv, RemovalInv
<1>2. \A x \in Keys : x # k => disk'[x] = disk[x]
  BY DEF IInv, TypeOK
<1>3. held' = held
  BY <1>1, <1>2 DEF held, Held
<1>4. unread' = unread
  BY DEF unread
<1>5. QED
  BY <1>3, <1>4

(* Removing the file gives up a value that every reader has read.          *)
LEMMA RemoveDiskKeyStore ==
  ASSUME IInv, NEW k \in Keys, RemoveDiskKey(k)
  PROVE  Store!Next \/ UNCHANGED <<held, unread>>
<1> USE DEF RemoveDiskKey, queueVars, infoVars
<1>1. unread' = unread
  BY DEF unread
<1>2. k \in known /\ deps[k] = 0
  BY DEF IInv, UnknownInv, RemovalInv
<1>3. unread[k] = {}
  BY <1>2, ZeroIsRead
<1>4. CASE k \in redis
  <2>1. held' = held
    BY <1>4 DEF held, Held, IInv, TypeOK
  <2>2. QED
    BY <1>1, <2>1
<1>5. CASE k \notin redis
  <2>1. held' = held \ {k}
    BY <1>5 DEF held, Held, IInv, TypeOK
  <2>2. Store!Reclaim({k})
    BY <1>1, <1>3, <2>1 DEF Store!Reclaim, held, unread
  <2>3. QED
    BY <2>2 DEF Store!Next
<1>6. QED
  BY <1>4, <1>5

(* A block that comes by its value finds it held, and has not read it yet. *)
LEMMA FetchStore ==
  ASSUME IInv, NEW k \in Keys, NEW r \in Readers, k \in held, reader[k][r] \in {"redis", "disk"},
         reader' = [reader EXCEPT ![k][r] = "fetched"], redis' = redis, disk' = disk
  PROVE  Store!Next
<1>1. r \in ReadersOf[k]
  BY DEF IInv, ReaderInv
<1>2. held' = held
  BY DEF held, Held
<1>3. r \in unread[k]
  BY <1>1 DEF unread
<1>4. unread' = [unread EXCEPT ![k] = @ \ {r}]
  BY ReadersAssumption DEF unread, IInv, TypeOK
<1>5. Store!Read(k, r)
  BY <1>2, <1>3, <1>4 DEF Store!Read, held, unread
<1>6. QED
  BY <1>5 DEF Store!Next

(* A reader that moves without reading, or that reports, changes nothing.  *)
LEMMA MovedStore ==
  ASSUME IInv, NEW k \in Keys, NEW r \in Readers, NEW s, reader' = [reader EXCEPT ![k][r] = s],
         reader[k][r] \in {"fetched", "done"} <=> s \in {"fetched", "done"}, redis' = redis, disk' = disk
  PROVE  UNCHANGED <<held, unread>>
<1>1. held' = held
  BY DEF held, Held
<1>2. \A x \in Keys : {y \in ReadersOf[x] : reader'[x][y] \notin {"fetched", "done"}}
                        = {y \in ReadersOf[x] : reader[x][y] \notin {"fetched", "done"}}
  BY ReadersAssumption DEF IInv, TypeOK
<1>3. unread' = unread
  BY <1>2 DEF unread
<1>4. QED
  BY <1>1, <1>3

(* A reader reads a held value, or changes nothing the store shows.        *)
LEMMA ReadingStore ==
  ASSUME IInv, NEW k \in Keys, NEW r \in Readers, Reading(k, r)
  PROVE  Store!Next \/ UNCHANGED <<held, unread>>
<1> USE DEF fileVars
<1>1. CASE StartReader(k, r)
  BY <1>1, MovedStore DEF StartReader
<1>2. CASE FetchFromRedis(k, r)
  <2>1. CASE k \in redis
    BY <1>2, <2>1, FetchStore DEF FetchFromRedis, held, Held
  <2>2. CASE k \notin redis
    BY <1>2, <2>2, MovedStore DEF FetchFromRedis
  <2>3. QED
    BY <2>1, <2>2
<1>3. CASE FetchFromDisk(k, r)
  <2>1. disk[k] = "full"
    <3>1. IInv' /\ reader'[k][r] # "lost"
      BY <1>3, FetchFromDiskIInv DEF IInv, ReaderInv
    <3>2. QED
      BY <1>3, <3>1 DEF FetchFromDisk, IInv, TypeOK
  <2>2. QED
    BY <1>3, <2>1, FetchStore DEF FetchFromDisk, held, Held
<1>4. CASE DecreaseKeyDependencies(k, r)
  <2>1. reader[k][r] = "fetched"
    BY <1>4 DEF DecreaseKeyDependencies, IInv, ReaderInv
  <2>2. reader' = [reader EXCEPT ![k][r] = "done"] /\ redis' = redis /\ disk' = disk
    BY <1>4 DEF DecreaseKeyDependencies
  <2>3. QED
    BY <2>1, <2>2, MovedStore
<1>5. QED
  BY <1>1, <1>2, <1>3, <1>4 DEF Reading

(* A deletion gives up the keys of the batch that are not on disk.         *)
LEMMA DeleteFromRedisStore ==
  ASSUME IInv, NEW b \in batches, DeleteFromRedis(b)
  PROVE  Store!Next
<1> USE DEF DeleteFromRedis, infoVars, fileVars
<1>1. unread' = unread
  BY DEF unread
<1>2. b \subseteq LocalKeys
  BY DEF IInv, TypeOK
<1> DEFINE S == {k \in b : disk[k] # "full"}
<1>3. ASSUME NEW k \in S PROVE unread[k] = {}
  <2>1. k \in Keys /\ k \in LocalKeys /\ Deleting(k)
    BY <1>2 DEF Deleting
  <2>2. k \in known /\ remover[k] = "done"
    BY <2>1 DEF IInv, UnknownInv, RedisInv
  <2>3. deps[k] = 0
    BY <2>1, <2>2 DEF IInv, TypeOK, RedisInv
  <2>4. QED
    BY <2>1, <2>2, <2>3, ZeroIsRead
<1>4. held' = held \ S
  BY <1>2 DEF held, Held
<1>5. S \in SUBSET Keys /\ Store!Reclaim(S)
  BY <1>1, <1>2, <1>3, <1>4 DEF Store!Reclaim, held, unread
<1>6. QED
  BY <1>5 DEF Store!Next

(* Every step under the invariant is a step of KeyStore, or a stutter. *)
LEMMA StepStore ==
  ASSUME IInv, [Next]_vars
  PROVE  [Store!Next]_<<held, unread>>
<1>1. CASE UNCHANGED vars
  BY <1>1, SameStore DEF vars, fileVars
<1>2. ASSUME NEW k \in Keys, PutToRedis(k) PROVE Store!Next
  BY <1>2, PutToRedisStore
<1>3. ASSUME NEW k \in Keys, Monitor(k) PROVE Store!Next \/ UNCHANGED <<held, unread>>
  <2>1. CASE AddRedisKey(k)
    BY <2>1, SameStore DEF AddRedisKey, fileVars
  <2>2. CASE AddDiskKey(k)
    <3>1. disk[k] = "none"
      BY <2>2 DEF AddDiskKey, IInv, UnknownInv
    <3>2. held' = held /\ unread' = unread
      BY <2>2, <3>1 DEF AddDiskKey, held, unread, Held, IInv, TypeOK
    <3>3. QED
      BY <3>2
  <2>3. CASE Prefetch(k)
    BY <2>3, PrefetchStore
  <2>4. CASE CheckRedis(k)
    BY <2>4, SameStore DEF CheckRedis, fileVars
  <2>5. CASE TransferToDisk(k)
    BY <2>5, TransferStore
  <2>6. CASE RemoveDiskKey(k)
    BY <2>6, RemoveDiskKeyStore
  <2>7. QED
    BY <1>3, <2>1, <2>2, <2>3, <2>4, <2>5, <2>6 DEF Monitor
<1>4. ASSUME NEW k \in Keys, TransferFails(k) PROVE UNCHANGED <<held, unread>>
  BY <1>4, TransferStore
<1>5. ASSUME NEW k \in Keys, NEW r \in Readers, Reading(k, r)
      PROVE  Store!Next \/ UNCHANGED <<held, unread>>
  BY <1>5, ReadingStore
<1>6. CASE StartDeletion
  BY <1>6, SameStore DEF StartDeletion, fileVars
<1>7. CASE Expire
  BY <1>7, SameStore DEF Expire, fileVars
<1>8. ASSUME NEW b \in batches, DeleteFromRedis(b) PROVE Store!Next
  BY <1>8, DeleteFromRedisStore
<1>9. QED
  BY <1>1, <1>2, <1>3, <1>4, <1>5, <1>6, <1>7, <1>8 DEF Next

(* The monitor implements KeyStore: whatever expires, is transferred and is *)
(* deleted in whatever order, no value is given up before its last reader. *)
THEOREM Implementation == Spec => ImplementsKeyStore
<1>1. Init => Store!Init
  BY InitStore
<1>2. IInv /\ [Next]_vars => [Store!Next]_<<held, unread>>
  BY StepStore
<1>3. Spec => Store!Spec
  BY <1>1, <1>2, Invariance, PTL DEF Spec, Store!Spec, held, unread
<1>4. QED
  BY <1>3 DEF ImplementsKeyStore

=============================================================================
