---------------------------- MODULE KafkaBypass ----------------------------
(***************************************************************************)
(* How a large value reaches other hosts: the bypass store of a container  *)
(* writes it in chunks to a partition of one of its own Kafka topics and   *)
(* announces topic, partition, first offset and number of chunks as soon   *)
(* as the first chunk is there; the prefetcher of a remote host reads that *)
(* many messages from that offset into a file.                             *)
(*                                                                         *)
(* The bypass store is one thread and counts offsets on its own.  Kafka    *)
(* keeps the order of a partition; a chunk it cannot deliver is dropped,   *)
(* and flush() returns as if it had been delivered.                        *)
(***************************************************************************)
EXTENDS Integers, FiniteSets, SequencesExt

CONSTANTS
  Values,         \* values posted by the blocks of the container
  Chunks,         \* value -> its number of chunks
  NumTopics, NumPartitions,
  Hosts,          \* remote hosts
  ReadersOf,      \* value -> hosts that prefetch it
  BufferSize,     \* chunks the producer holds before produce() raises
  MaxLosses       \* bound on chunks that Kafka does not deliver

Slots == (0 .. NumTopics - 1) \X (0 .. NumPartitions - 1)

ASSUME SizesAssumption ==
  /\ Chunks \in [Values -> Nat] /\ ReadersOf \in [Values -> SUBSET Hosts]
  /\ {NumTopics, NumPartitions, BufferSize} \subseteq Nat \ {0} /\ MaxLosses \in Nat

VARIABLES
  storeQueue,    \* store_queue
  current,       \* the value in put_to_kafka, with its progress, or <<>>
  slot,          \* <<kafka_topic_idx, kafka_partition_idx>>
  offsets,       \* topics_partitions_offset
  pending,       \* chunks produced, not yet acknowledged
  log,           \* the partitions of the container's topics
  announced,     \* kafka_data_ready messages
  file,          \* host -> value -> its file in the prefetch directory
  posted,        \* values posted so far
  lost           \* chunks that were never delivered

sendVars == <<current, slot, offsets, pending>>
vars == <<storeQueue, sendVars, log, announced, file, posted, lost>>

Absent == [open |-> FALSE, chunks |-> <<>>]

Init ==
  /\ storeQueue = <<>> /\ current = <<>> /\ slot = <<0, 0>>
  /\ offsets = [s \in Slots |-> 0]
  /\ pending = <<>>
  /\ log = [s \in Slots |-> <<>>]
  /\ announced = {}
  /\ file = [h \in Hosts |-> [v \in Values |-> Absent]]
  /\ posted = {} /\ lost = {}

-----------------------------------------------------------------------------
(* put_bigdata hands the value to store_queue.                             *)
PutBigdata(v) ==
  /\ v \notin posted
  /\ posted' = posted \cup {v}
  /\ storeQueue' = Append(storeQueue, v)
  /\ UNCHANGED <<sendVars, log, announced, file, lost>>

GetBlockOutput ==
  /\ current = <<>> /\ storeQueue # <<>>
  /\ current' = <<[val |-> Head(storeQueue), sent |-> 0, told |-> FALSE]>>
  /\ storeQueue' = Tail(storeQueue)
  /\ UNCHANGED <<slot, offsets, pending, log, announced, file, posted, lost>>

\* Mutant of Produce: a chunk that finds the buffer full is not tried again.
MutantNoRetry ==
  /\ current # <<>>
  /\ LET c == current[1] IN
       /\ c.sent < Chunks[c.val]
       /\ c.sent = 0 \/ c.told
       /\ pending' = IF Len(pending) < BufferSize THEN Append(pending, <<c.val, c.sent>>) ELSE pending
       /\ current' = <<[c EXCEPT !.sent = @ + 1]>>
  /\ UNCHANGED <<storeQueue, slot, offsets, log, announced, file, posted, lost>>

(* produce of the next chunk; a full buffer raises and is tried again.     *)
Produce ==
  /\ current # <<>>
  /\ LET c == current[1] IN
       /\ c.sent < Chunks[c.val]
       /\ c.sent = 0 \/ c.told
       /\ pending' = Append(pending, <<c.val, c.sent>>)
       /\ current' = <<[c EXCEPT !.sent = @ + 1]>>
  /\ Len(pending) < BufferSize
  /\ UNCHANGED <<storeQueue, slot, offsets, log, announced, file, posted, lost>>

(* Kafka appends the oldest produced chunk to its partition.               *)
Deliver ==
  /\ pending # <<>>
  /\ log' = [log EXCEPT ![slot] = Append(@, Head(pending))]
  /\ pending' = Tail(pending)
  /\ UNCHANGED <<storeQueue, current, slot, offsets, announced, file, posted, lost>>

\* Mutant of Flushed: flush() is not called.
MutantNoFlush == TRUE

Flushed == pending = <<>>

(* post_kafka_data_ready_to_host, after the first chunk and a flush.       *)
Announce ==
  /\ current # <<>>
  /\ LET c == current[1] IN
       /\ c.sent = 1 /\ ~c.told
       /\ announced' = announced \cup
            {[val |-> c.val, slot |-> slot, start |-> offsets[slot], num |-> Chunks[c.val]]}
       /\ current' = <<[c EXCEPT !.told = TRUE]>>
  /\ Flushed
  /\ UNCHANGED <<storeQueue, slot, offsets, pending, log, file, posted, lost>>

NextSlot ==
  LET topic == (slot[1] + 1) % NumTopics
      partition == IF topic = 0 THEN (slot[2] + 1) % NumPartitions ELSE slot[2]
  IN <<topic, partition>>

\* Mutant of Advanced: the offset counts values, not chunks.
MutantCountValues(v) == offsets[slot] + 1

Advanced(v) == offsets[slot] + Chunks[v]

(* The end of put_to_kafka, and the rotation over topics and partitions.   *)
FinishValue ==
  /\ current # <<>>
  /\ LET c == current[1] IN
       /\ c.sent = Chunks[c.val] /\ (c.sent = 0 \/ c.told)
       /\ offsets' = [offsets EXCEPT ![slot] = Advanced(c.val)]
  /\ Flushed
  /\ slot' = NextSlot
  /\ current' = <<>>
  /\ UNCHANGED <<storeQueue, pending, log, announced, file, posted, lost>>

(* The oldest produced chunk is given up: nobody looks at its report.      *)
Undelivered ==
  /\ pending # <<>> /\ Cardinality(lost) < MaxLosses
  /\ lost' = lost \cup {Head(pending)}
  /\ pending' = Tail(pending)
  /\ UNCHANGED <<storeQueue, current, slot, offsets, log, announced, file, posted>>

-----------------------------------------------------------------------------
(* prefetch_data: a consumer is assigned the announced offset, the file is *)
(* opened, and every message is appended to it.                            *)
StartPrefetch(h, a) ==
  /\ a \in announced /\ h \in ReadersOf[a.val] /\ ~file[h][a.val].open
  /\ file' = [file EXCEPT ![h][a.val].open = TRUE]
  /\ UNCHANGED <<storeQueue, sendVars, log, announced, posted, lost>>

\* Mutant of Consume: the consumer reads on after chunk_num messages.
MutantReadOn(h, a) ==
  /\ a \in announced /\ file[h][a.val].open
  /\ LET at == a.start + Len(file[h][a.val].chunks) + 1
     IN /\ at <= Len(log[a.slot])
        /\ file' = [file EXCEPT ![h][a.val].chunks = Append(@, log[a.slot][at])]
  /\ UNCHANGED <<storeQueue, sendVars, log, announced, posted, lost>>

Consume(h, a) ==
  /\ a \in announced /\ file[h][a.val].open
  /\ LET read == Len(file[h][a.val].chunks)
         at == a.start + read + 1
     IN /\ read < a.num /\ at <= Len(log[a.slot])
        /\ file' = [file EXCEPT ![h][a.val].chunks = Append(@, log[a.slot][at])]
  /\ UNCHANGED <<storeQueue, sendVars, log, announced, posted, lost>>

-----------------------------------------------------------------------------
Bypass == GetBlockOutput \/ Produce \/ Announce \/ FinishValue
Prefetch(h) == \E a \in announced : StartPrefetch(h, a) \/ Consume(h, a)

Next ==
  \/ \E v \in Values : PutBigdata(v)
  \/ Bypass \/ Deliver \/ Undelivered
  \/ \E h \in Hosts : Prefetch(h)

Spec == Init /\ [][Next]_vars

(* The bypass thread runs, Kafka delivers or gives up, and an announcement *)
(* reaches the prefetchers of the hosts it is for.                         *)
FairSpec ==
  Spec /\ WF_vars(Bypass) /\ WF_vars(Deliver \/ Undelivered) /\ \A h \in Hosts : WF_vars(Prefetch(h))

-----------------------------------------------------------------------------
(* Properties                                                              *)

(* The types of the variables.                                             *)
TypeOK ==
  /\ Range(storeQueue) \subseteq Values /\ posted \subseteq Values
  /\ Len(current) <= 1
  /\ \A i \in 1..Len(current) : current[i].sent \in 0 .. Chunks[current[i].val]
  /\ slot \in Slots /\ offsets \in [Slots -> Nat]
  /\ Len(pending) <= BufferSize
  /\ \A a \in announced : a.val \in Values /\ a.slot \in Slots /\ a.start \in Nat
  /\ \A h \in Hosts, v \in Values : Len(file[h][v].chunks) <= Chunks[v]
  /\ Cardinality(lost) <= MaxLosses /\ \A c \in lost : c[1] \in posted /\ c[2] \in 0 .. Chunks[c[1]] - 1

(* A value is damaged by a loss of its own chunks, or of the chunks of a   *)
(* value before it in its partition, whose offsets no longer hold.         *)
Damaged(a) ==
  \E b \in announced :
     /\ b.slot = a.slot /\ b.start <= a.start
     /\ \E c \in lost : c[1] = b.val

(* A prefetcher writes the chunks of its own value, from the first on and  *)
(* in order, although it starts before the value is complete, others share *)
(* the partition, and chunks of later values or other partitions are lost. *)
FileExact ==
  \A a \in announced : \A h \in Hosts :
     ~Damaged(a) => \A i \in 1..Len(file[h][a.val].chunks) :
                       file[h][a.val].chunks[i] = <<a.val, i - 1>>

LostIn(s) == {c \in lost : \E a \in announced : a.val = c[1] /\ a.slot = s}

(* Between two values the offsets counted here are those of the partitions, *)
(* ahead of them by exactly the chunks that were lost there.               *)
OffsetsExact ==
  current = <<>> => \A s \in Slots : offsets[s] = Len(log[s]) + Cardinality(LostIn(s))

(* What is announced can be read at once: its first chunk is in the log.   *)
AnnouncedReadable ==
  \A a \in announced :
     Damaged(a) \/ (Len(log[a.slot]) > a.start /\ log[a.slot][a.start + 1] = <<a.val, 0>>)

(* Every value that is not empty reaches the hosts that wait for it, unless *)
(* a loss in its partition has damaged it: one lost chunk leaves the other *)
(* partitions, and what was sent before it, alone.  An empty value is      *)
(* never announced.                                                        *)
Delivered ==
  \A v \in Values : \A h \in ReadersOf[v] :
     Chunks[v] > 0 =>
       (v \in posted ~> \/ Len(file[h][v].chunks) = Chunks[v]
                       \/ \E a \in announced : a.val = v /\ Damaged(a))
=============================================================================
