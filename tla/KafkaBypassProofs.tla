------------------------- MODULE KafkaBypassProofs -------------------------
(***************************************************************************)
(* KafkaBypass for any values, chunk counts, topics, partitions, readers   *)
(* and losses: the inductive invariant, and the four safety properties     *)
(* that follow from it.                                                    *)
(***************************************************************************)
EXTENDS KafkaBypass, FiniteSetTheorems, TLAPS

-----------------------------------------------------------------------------
(* The inductive invariant                                                 *)

Chunk == Values \X Nat
Progress == [val : Values, sent : Nat, told : BOOLEAN]
Announcement == [val : Values, slot : Slots, start : Nat, num : Nat]
Prefetched == [open : BOOLEAN, chunks : Seq(Chunk)]

Busy == current # <<>>
Val  == current[1].val
Sent == current[1].sent
Told == current[1].told
Gone == Sent - Len(pending)   \* chunks that Kafka has delivered or given up

Current(v)   == Busy /\ v = Val
Announced(v) == \E a \in announced : a.val = v

TypeInv ==
  /\ storeQueue \in Seq(Values) /\ posted \subseteq Values
  /\ Busy => current \in Seq(Progress) /\ Len(current) = 1
  /\ slot \in Slots /\ offsets \in [Slots -> Nat]
  /\ pending \in Seq(Chunk) /\ Len(pending) <= BufferSize
  /\ log \in [Slots -> Seq(Chunk)]
  /\ announced \subseteq Announcement
  /\ file \in [Hosts -> [Values -> Prefetched]]
  /\ lost \subseteq Chunk /\ IsFiniteSet(lost) /\ Cardinality(lost) <= MaxLosses

(* A posted value is in one place: it waits, it is being sent, or it is    *)
(* announced, once.                                                        *)
QueueInv ==
  /\ \A i, j \in 1..Len(storeQueue) : storeQueue[i] = storeQueue[j] => i = j
  /\ \A i \in 1..Len(storeQueue) :
       /\ storeQueue[i] \in posted
       /\ ~Announced(storeQueue[i]) /\ ~Current(storeQueue[i])
  /\ Busy => Val \in posted

AnnouncedInv ==
  \A a \in announced :
     /\ a.val \in posted /\ a.num = Chunks[a.val] /\ a.num > 0
     /\ \A b \in announced : a.val = b.val => a = b

LostInv ==
  \A c \in lost :
     /\ c[1] \in posted /\ c[2] < Chunks[c[1]]
     /\ Announced(c[1]) \/ Current(c[1])

(* What is pending are the last chunks produced of the current value.      *)
SendInv ==
  IF Busy
  THEN /\ Sent <= Chunks[Val] /\ Len(pending) <= Sent
       /\ Told => Gone > 0
       /\ Sent > 1 => Told
       /\ Told <=> Announced(Val)
       /\ \A a \in announced : a.val = Val => a.slot = slot /\ a.start = offsets[slot]
       /\ \A j \in 1..Len(pending) : pending[j] = <<Val, Gone + j - 1>>
       /\ \A c \in lost : c[1] = Val => c[2] < Gone
  ELSE pending = <<>>

(* The offsets count all chunks of the finished values, also lost ones.    *)
LostAt(s) ==
  {c \in lost : \/ \E a \in announced : a.val = c[1] /\ a.slot = s
                \/ Current(c[1]) /\ s = slot}

CountInv ==
  \A s \in Slots :
     Len(log[s]) + Cardinality(LostAt(s)) =
       IF Busy /\ s = slot THEN offsets[s] + Gone ELSE offsets[s]

(* A finished value lies below the offset of its partition, and where it   *)
(* was announced unless it is damaged.                                     *)
PastInv ==
  \A a \in announced : ~Current(a.val) =>
     /\ a.start + a.num <= offsets[a.slot]
     /\ ~Damaged(a) => /\ a.start + a.num <= Len(log[a.slot])
                       /\ \A i \in 1..a.num : log[a.slot][a.start + i] = <<a.val, i - 1>>

(* The current value lies at the offset if its partition lost nothing.     *)
PresentInv ==
  Busy /\ LostAt(slot) = {} =>
    \A i \in 1..Gone : log[slot][offsets[slot] + i] = <<Val, i - 1>>

(* A file is a copy of what the partition has at the announced place.      *)
FileInv ==
  \A h \in Hosts, v \in Values :
     /\ ~Announced(v) => file[h][v].chunks = <<>>
     /\ \A a \in announced : a.val = v =>
          /\ Len(file[h][v].chunks) <= a.num
          /\ \A i \in 1..Len(file[h][v].chunks) :
               /\ a.start + i <= Len(log[a.slot])
               /\ file[h][v].chunks[i] = log[a.slot][a.start + i]

IInv == /\ TypeInv /\ QueueInv /\ AnnouncedInv /\ LostInv /\ SendInv
        /\ CountInv /\ PastInv /\ PresentInv /\ FileInv

-----------------------------------------------------------------------------
(* Lemmas                                                                  *)

LEMMA AppendFacts ==
  ASSUME NEW S, NEW s \in Seq(S), NEW x \in S
  PROVE  /\ Append(s, x) \in Seq(S)
         /\ Len(Append(s, x)) = Len(s) + 1
         /\ \A i \in 1..Len(s) : Append(s, x)[i] = s[i]
         /\ Append(s, x)[Len(s) + 1] = x
<1>1. Append(s, x) \in Seq(S) /\ Len(Append(s, x)) = Len(s) + 1
  OBVIOUS
<1>2. \A i \in 1..Len(s) : Append(s, x)[i] = s[i]
  OBVIOUS
<1>3. Append(s, x)[Len(s) + 1] = x
  OBVIOUS
<1> QED BY <1>1, <1>2, <1>3

LEMMA TailFacts ==
  ASSUME NEW S, NEW s \in Seq(S), s # <<>>
  PROVE  /\ Head(s) = s[1] /\ Head(s) \in S /\ Tail(s) \in Seq(S)
         /\ Len(s) \in Nat /\ Len(s) > 0
         /\ Len(Tail(s)) = Len(s) - 1
         /\ \A i \in 1..Len(Tail(s)) : Tail(s)[i] = s[i + 1]
OBVIOUS

(* The parts of the value that is being sent.                              *)
LEMMA CurrentType ==
  ASSUME TypeInv, Busy
  PROVE  /\ Val \in Values /\ Sent \in Nat /\ Told \in BOOLEAN
         /\ current[1] \in Progress
<1>a. current \in Seq(Progress) /\ Len(current) = 1
  BY DEF TypeInv
<1>1. current[1] \in Progress
  BY <1>a
<1>2. Val \in Values /\ Sent \in Nat
  BY <1>1 DEF Progress, Val, Sent
<1>3. Told \in BOOLEAN
  BY <1>1 DEF Progress, Told
<1> QED BY <1>1, <1>2, <1>3

(* The rotation stays within the topics and partitions.                    *)
LEMMA NextSlotType ==
  ASSUME slot \in Slots
  PROVE  NextSlot \in Slots
BY SizesAssumption DEF Slots, NextSlot

LEMMA LostAtFinite ==
  ASSUME TypeInv, NEW s \in Slots
  PROVE  IsFiniteSet(LostAt(s)) /\ Cardinality(LostAt(s)) \in Nat
<1>1. LostAt(s) \subseteq lost
  BY DEF LostAt
<1>2. QED
  BY <1>1, FS_Subset, FS_CardinalityType DEF TypeInv

(* An undamaged value that is being sent has a partition without losses.   *)
LEMMA UndamagedCurrent ==
  ASSUME IInv, NEW a \in announced, Current(a.val), ~Damaged(a)
  PROVE  LostAt(slot) = {} /\ a.slot = slot /\ a.start = offsets[slot]
<1>1. a.slot = slot /\ a.start = offsets[slot]
  BY DEF IInv, SendInv, Current
<1>2. ASSUME NEW c \in LostAt(slot) PROVE FALSE
  <2>1. PICK b \in announced : b.val = c[1] /\ b.slot = slot
    BY <1>1, <1>2 DEF LostAt, Current
  <2>2. b.start <= a.start
    <3>1. CASE Current(b.val)
      BY <3>1, <1>1, <2>1 DEF IInv, TypeInv, SendInv, Current, Announcement
    <3>2. CASE ~Current(b.val)
      BY <3>2, <1>1, <2>1 DEF IInv, TypeInv, PastInv, Announcement
    <3> QED BY <3>1, <3>2
  <2> QED BY <1>1, <1>2, <2>1, <2>2 DEF LostAt, Damaged
<1> QED BY <1>1, <1>2

-----------------------------------------------------------------------------
(* Initial states                                                          *)

LEMMA InitInvariant == Init => IInv
<1> SUFFICES ASSUME Init PROVE IInv
  OBVIOUS
<1> USE SizesAssumption DEF Init, Busy
<1>1. TypeInv
  <2>1. <<0, 0>> \in Slots
    BY DEF Slots
  <2>2. IsFiniteSet(lost) /\ Cardinality(lost) = 0
    BY FS_EmptySet
  <2> QED BY <2>1, <2>2 DEF TypeInv, Absent, Prefetched
<1>2. QueueInv /\ AnnouncedInv /\ LostInv /\ SendInv
  BY DEF QueueInv, AnnouncedInv, LostInv, SendInv
<1>5. announced = {} /\ ~Busy
  OBVIOUS
<1>6. PastInv
  BY <1>5 DEF PastInv
<1>7. PresentInv
  BY <1>5 DEF PresentInv
<1>3. CountInv
  <2>1. \A s \in Slots : LostAt(s) = {}
    BY DEF LostAt
  <2>2. \A s \in Slots : Len(log[s]) = 0 /\ offsets[s] = 0
    OBVIOUS
  <2>3. Cardinality({}) = 0
    BY FS_EmptySet
  <2>4. \A s \in Slots : Len(log[s]) + Cardinality(LostAt(s)) = offsets[s]
    <3> TAKE s \in Slots
    <3>1. Cardinality(LostAt(s)) = 0
      BY <2>1, <2>3
    <3>2. Len(log[s]) = 0 /\ offsets[s] = 0
      BY <2>2
    <3> HIDE DEF Init
    <3> QED BY <3>1, <3>2
  <2> QED BY <2>4, <1>5 DEF CountInv
<1>4. FileInv
  BY DEF FileInv, Absent, Announced
<1> QED BY <1>1, <1>2, <1>3, <1>4, <1>6, <1>7 DEF IInv

-----------------------------------------------------------------------------
(* The steps                                                               *)

LEMMA PutBigdataPreserves ==
  ASSUME IInv, NEW v \in Values, PutBigdata(v)
  PROVE  IInv'
<1> USE DEF PutBigdata, sendVars
<1>1. UNCHANGED <<Busy, Val, Sent, Told, Gone>> /\ \A w : Current(w)' = Current(w) /\ Announced(w)' = Announced(w)
  BY DEF Busy, Val, Sent, Told, Gone, Current, Announced
<1>2. TypeInv'
  BY <1>1 DEF IInv, TypeInv
<1>3. QueueInv'
  <2> DEFINE s == storeQueue
  <2>1. /\ s \in Seq(Values) /\ Len(storeQueue') = Len(s) + 1
        /\ \A i \in 1..Len(s) : storeQueue'[i] = s[i]
        /\ storeQueue'[Len(s) + 1] = v
    BY AppendFacts DEF IInv, TypeInv
  <2>2. ~Announced(v) /\ ~Current(v)
    BY DEF IInv, QueueInv, AnnouncedInv, Announced, Current
  <2> HIDE DEF s
  <2>3. \A i \in 1..Len(s) : storeQueue'[i] # v
    BY <2>1 DEF IInv, QueueInv, s
  <2> QED BY <1>1, <2>1, <2>2, <2>3 DEF IInv, QueueInv, s
<1>4. AnnouncedInv' /\ LostInv'
  BY <1>1 DEF IInv, AnnouncedInv, LostInv
<1>5. SendInv' /\ PastInv' /\ FileInv'
  BY <1>1 DEF IInv, SendInv, PastInv, FileInv, Damaged
<1>6. CountInv' /\ PresentInv'
  BY <1>1 DEF IInv, CountInv, PresentInv, LostAt
<1> QED BY <1>2, <1>3, <1>4, <1>5, <1>6 DEF IInv

LEMMA GetBlockOutputPreserves ==
  ASSUME IInv, GetBlockOutput
  PROVE  IInv'
<1> USE DEF GetBlockOutput
<1> DEFINE w == Head(storeQueue)
<1>1. /\ storeQueue \in Seq(Values) /\ storeQueue # <<>> /\ w = storeQueue[1] /\ w \in Values
      /\ storeQueue' \in Seq(Values) /\ Len(storeQueue') = Len(storeQueue) - 1
      /\ Len(storeQueue) \in Nat /\ Len(storeQueue) > 0
      /\ \A i \in 1..Len(storeQueue') : storeQueue'[i] = storeQueue[i + 1]
  <2>1. storeQueue \in Seq(Values)
    BY DEF IInv, TypeInv
  <2> QED BY <2>1, TailFacts
<1>2. /\ ~Busy /\ Busy' /\ pending = <<>>
      /\ Val' = w /\ Sent' = 0 /\ Told' = FALSE /\ Gone' = 0
  <2>1. ~Busy /\ pending = <<>>
    BY DEF IInv, SendInv, Busy
  <2>2. Busy' /\ Val' = w /\ Sent' = 0 /\ Told' = FALSE
    BY DEF Busy, Val, Sent, Told
  <2>3. Gone' = Sent' - Len(pending') /\ Len(pending') = 0
    BY <2>1 DEF Gone
  <2> QED BY <2>1, <2>2, <2>3
<1> HIDE DEF w
<1>3. /\ \A v : ~Current(v) /\ (Current(v)' <=> v = w) /\ Announced(v)' = Announced(v)
      /\ \A a : Damaged(a)' = Damaged(a)
  BY <1>2 DEF Current, Announced, Damaged
<1>4. w \in posted /\ ~Announced(w)
  BY <1>1 DEF IInv, QueueInv
<1>5. \A c \in lost : c[1] # w
  BY <1>3, <1>4 DEF IInv, LostInv
<1>6. \A s : LostAt(s)' = LostAt(s)
  BY <1>3, <1>5 DEF LostAt
<1>7. TypeInv'
  <2>1. [val |-> w, sent |-> 0, told |-> FALSE] \in Progress
    BY <1>1 DEF Progress
  <2>2. current' \in Seq(Progress) /\ Len(current') = 1
    BY <2>1 DEF w
  <2> QED BY <1>1, <2>2 DEF IInv, TypeInv
<1>8. QueueInv'
  <2>1. \A i, j \in 1..Len(storeQueue') : storeQueue'[i] = storeQueue'[j] => i = j
    <3> SUFFICES ASSUME NEW i \in 1..Len(storeQueue'), NEW j \in 1..Len(storeQueue'),
                        storeQueue'[i] = storeQueue'[j]
                 PROVE  i = j
      OBVIOUS
    <3>1. i + 1 \in 1..Len(storeQueue) /\ j + 1 \in 1..Len(storeQueue)
      BY <1>1
    <3>2. i + 1 = j + 1
      BY <3>1, <1>1 DEF IInv, QueueInv
    <3> QED BY <3>2
  <2>2. \A i \in 1..Len(storeQueue') :
           storeQueue'[i] \in posted /\ ~Announced(storeQueue'[i]) /\ storeQueue'[i] # w
    <3> SUFFICES ASSUME NEW i \in 1..Len(storeQueue')
                 PROVE  storeQueue'[i] \in posted /\ ~Announced(storeQueue'[i]) /\ storeQueue'[i] # w
      OBVIOUS
    <3>1. i + 1 \in 1..Len(storeQueue) /\ 1 \in 1..Len(storeQueue) /\ i + 1 # 1
      BY <1>1
    <3> QED BY <3>1, <1>1 DEF IInv, QueueInv
  <2> QED BY <2>1, <2>2, <1>2, <1>3, <1>4 DEF QueueInv
<1>9. AnnouncedInv' /\ LostInv'
  BY <1>3 DEF IInv, AnnouncedInv, LostInv
<1>10. SendInv'
  BY <1>2, <1>4, <1>5, <1>1, SizesAssumption DEF IInv, TypeInv, SendInv, Announced
<1>11. CountInv'
  <2>1. \A s \in Slots : offsets[s] \in Nat
    BY DEF IInv, TypeInv
  <2> QED BY <2>1, <1>2, <1>6 DEF IInv, CountInv
<1>12. PastInv'
  BY <1>2, <1>3 DEF IInv, PastInv
<1>13. PresentInv'
  BY <1>2 DEF PresentInv
<1>14. FileInv'
  BY <1>3 DEF IInv, FileInv
<1> QED BY <1>7, <1>8, <1>9, <1>10, <1>11, <1>12, <1>13, <1>14 DEF IInv

LEMMA ProducePreserves ==
  ASSUME IInv, Produce
  PROVE  IInv'
<1> USE DEF Produce
<1>1. Busy /\ Val \in Values /\ Sent \in Nat /\ Told \in BOOLEAN /\ current[1] \in Progress
  BY CurrentType DEF IInv, Busy
<1>2. /\ current' = <<[current[1] EXCEPT !.sent = @ + 1]>> /\ pending' = Append(pending, <<Val, Sent>>)
      /\ Sent < Chunks[Val] /\ (Sent = 0 \/ Told)
  BY DEF Val, Sent, Told
<1>3. Busy' /\ Val' = Val /\ Sent' = Sent + 1 /\ Told' = Told
  BY <1>1, <1>2 DEF Busy, Val, Sent, Told, Progress
<1>4. /\ pending \in Seq(Chunk) /\ Len(pending) \in Nat /\ <<Val, Sent>> \in Chunk
      /\ pending' \in Seq(Chunk) /\ Len(pending') = Len(pending) + 1
      /\ \A i \in 1..Len(pending) : pending'[i] = pending[i]
      /\ pending'[Len(pending) + 1] = <<Val, Sent>>
  <2>1. pending \in Seq(Chunk) /\ <<Val, Sent>> \in Chunk
    BY <1>1 DEF IInv, TypeInv, Chunk
  <2>2. /\ Append(pending, <<Val, Sent>>) \in Seq(Chunk)
        /\ Len(Append(pending, <<Val, Sent>>)) = Len(pending) + 1
        /\ \A i \in 1..Len(pending) : Append(pending, <<Val, Sent>>)[i] = pending[i]
        /\ Append(pending, <<Val, Sent>>)[Len(pending) + 1] = <<Val, Sent>>
    <3> HIDE DEF Produce
    <3> QED BY <2>1, AppendFacts
  <2>3. Len(pending) \in Nat
    BY <2>1
  <2> HIDE DEF Produce
  <2> QED BY <2>1, <2>2, <2>3, <1>2
<1>5. Gone' = Gone
  BY <1>1, <1>3, <1>4 DEF Gone
<1>6. /\ \A v : Current(v)' = Current(v) /\ Announced(v)' = Announced(v)
      /\ \A a : Damaged(a)' = Damaged(a)
      /\ \A s : LostAt(s)' = LostAt(s)
  BY <1>1, <1>3 DEF Current, Announced, Damaged, LostAt
<1>7. TypeInv'
  <2>1. current' \in Seq(Progress) /\ Len(current') = 1
    <3>1. [current[1] EXCEPT !.sent = @ + 1] \in Progress
      BY <1>1 DEF Progress
    <3> QED BY <3>1, <1>2
  <2>2. Len(pending') <= BufferSize
    BY <1>4, SizesAssumption
  <2> QED BY <2>1, <2>2, <1>4 DEF IInv, TypeInv
<1>8. QueueInv' /\ AnnouncedInv' /\ LostInv'
  BY <1>1, <1>3, <1>6 DEF IInv, QueueInv, AnnouncedInv, LostInv
<1>9. SendInv'
  <2>1. Sent + 1 <= Chunks[Val] /\ Len(pending) <= Sent /\ (Told => Gone > 0) /\ (Told <=> Announced(Val))
    BY <1>1, <1>2, SizesAssumption DEF IInv, SendInv
  <2>2. \A j \in 1..Len(pending') : pending'[j] = <<Val, Gone + j - 1>>
    <3>1. \A j \in 1..Len(pending) : pending'[j] = <<Val, Gone + j - 1>>
      BY <1>1, <1>4 DEF IInv, SendInv
    <3>2. pending'[Len(pending) + 1] = <<Val, Gone + (Len(pending) + 1) - 1>>
      BY <1>1, <1>4 DEF Gone
    <3> QED BY <3>1, <3>2, <1>4
  <2>3. /\ \A a \in announced : a.val = Val => a.slot = slot /\ a.start = offsets[slot]
        /\ \A c \in lost : c[1] = Val => c[2] < Gone
    BY <1>1 DEF IInv, SendInv
  <2>4. Sent' <= Chunks[Val'] /\ Len(pending') <= Sent' /\ (Sent' > 1 => Told')
    BY <1>1, <1>2, <1>3, <1>4, <2>1
  <2> QED BY <1>3, <1>5, <1>6, <2>1, <2>2, <2>3, <2>4 DEF SendInv
<1>10. CountInv'
  BY <1>1, <1>3, <1>5, <1>6 DEF IInv, CountInv
<1>11. PastInv'
  BY <1>6 DEF IInv, PastInv
<1>12. PresentInv'
  BY <1>1, <1>3, <1>5, <1>6 DEF IInv, PresentInv
<1>13. FileInv'
  BY <1>6 DEF IInv, FileInv
<1> QED BY <1>7, <1>8, <1>9, <1>10, <1>11, <1>12, <1>13 DEF IInv

LEMMA AnnouncePreserves ==
  ASSUME IInv, Announce
  PROVE  IInv'
<1> USE DEF Announce, Flushed
<1> DEFINE n == [val |-> Val, slot |-> slot, start |-> offsets[slot], num |-> Chunks[Val]]
<1>1. Busy /\ Val \in Values /\ Sent \in Nat /\ Told \in BOOLEAN /\ current[1] \in Progress
  BY CurrentType DEF IInv, Busy
<1>2. /\ announced' = announced \cup {n} /\ current' = <<[current[1] EXCEPT !.told = TRUE]>>
      /\ Sent = 1 /\ ~Told
  BY DEF Val, Sent, Told
<1>3. Busy' /\ Val' = Val /\ Sent' = Sent /\ Told' = TRUE /\ Gone' = Gone /\ Gone = 1
  <2>1. Busy' /\ Val' = Val /\ Sent' = Sent /\ Told' = TRUE
    BY <1>1, <1>2 DEF Busy, Val, Sent, Told, Progress
  <2> QED BY <2>1, <1>2 DEF Gone
<1>4. n \in Announcement /\ n.val = Val /\ n.slot = slot /\ n.start = offsets[slot] /\ n.num = Chunks[Val]
  BY <1>1, SizesAssumption DEF IInv, TypeInv, Announcement
<1> HIDE DEF n
<1>5. /\ ~Announced(Val) /\ Val \in posted /\ Chunks[Val] > 0
      /\ \A a \in announced : a.val # Val
  BY <1>1, <1>2, SizesAssumption DEF IInv, SendInv, QueueInv, Announced
<1>6. /\ \A v : (Current(v)' <=> Current(v)) /\ (Announced(v)' <=> Announced(v) \/ v = Val)
      /\ \A a : Damaged(a) => Damaged(a)'
  BY <1>1, <1>2, <1>3, <1>4 DEF Current, Announced, Damaged
<1>7. \A s : LostAt(s)' = LostAt(s)
  BY <1>1, <1>2, <1>4, <1>6 DEF LostAt, Current
<1>8. TypeInv'
  <2>1. current' \in Seq(Progress) /\ Len(current') = 1
    <3>1. [current[1] EXCEPT !.told = TRUE] \in Progress
      BY <1>1 DEF Progress
    <3> QED BY <3>1, <1>2
  <2> QED BY <2>1, <1>2, <1>4 DEF IInv, TypeInv
<1>9. QueueInv' /\ LostInv'
  BY <1>1, <1>3, <1>6 DEF IInv, QueueInv, LostInv, Current
<1>10. AnnouncedInv'
  BY <1>2, <1>4, <1>5 DEF IInv, AnnouncedInv
<1>11. SendInv'
  <2>1. /\ Sent <= Chunks[Val] /\ Len(pending) <= Sent
        /\ \A j \in 1..Len(pending) : pending[j] = <<Val, Gone + j - 1>>
        /\ \A c \in lost : c[1] = Val => c[2] < Gone
    BY <1>1 DEF IInv, SendInv
  <2>2. \A a \in announced' : a.val = Val => a.slot = slot /\ a.start = offsets[slot]
    BY <1>2, <1>4, <1>5
  <2> QED BY <1>3, <1>6, <2>1, <2>2 DEF SendInv
<1>12. CountInv' /\ PresentInv'
  BY <1>1, <1>3, <1>7 DEF IInv, CountInv, PresentInv
<1>13. PastInv'
  BY <1>1, <1>2, <1>4, <1>6 DEF IInv, PastInv, Current
<1>14. FileInv'
  <2> SUFFICES ASSUME NEW h \in Hosts, NEW v \in Values
               PROVE  /\ ~Announced(v)' => file[h][v].chunks = <<>>
                      /\ \A a \in announced' : a.val = v =>
                          /\ Len(file[h][v].chunks) <= a.num
                          /\ \A i \in 1..Len(file[h][v].chunks) :
                               /\ a.start + i <= Len(log[a.slot])
                               /\ file[h][v].chunks[i] = log[a.slot][a.start + i]
    BY DEF FileInv
  <2>1. CASE v = Val
    <3>1. file[h][v].chunks = <<>> /\ Len(file[h][v].chunks) = 0
      BY <2>1, <1>5 DEF IInv, FileInv
    <3>2. Announced(v)'
      BY <2>1, <1>6
    <3>3. ASSUME NEW a \in announced', a.val = v PROVE a.num \in Nat
      BY <3>3, <1>2, <1>4 DEF IInv, TypeInv, Announcement
    <3> HIDE DEF Announce
    <3> QED BY <3>1, <3>2, <3>3
  <2>2. CASE v # Val
    BY <2>2, <1>2, <1>4, <1>6 DEF IInv, FileInv
  <2> QED BY <2>1, <2>2
<1> QED BY <1>8, <1>9, <1>10, <1>11, <1>12, <1>13, <1>14 DEF IInv

LEMMA FinishValuePreserves ==
  ASSUME IInv, FinishValue
  PROVE  IInv'
<1> USE DEF FinishValue, Flushed, Advanced
<1>1. Busy /\ Val \in Values /\ Sent \in Nat /\ Told \in BOOLEAN
  BY CurrentType DEF IInv, Busy
<1>2. /\ Sent = Chunks[Val] /\ (Sent = 0 \/ Told) /\ pending = <<>> /\ pending' = <<>>
      /\ offsets' = [offsets EXCEPT ![slot] = @ + Chunks[Val]]
      /\ ~Busy' /\ Gone = Sent
  <2>1. Gone = Sent - Len(pending) /\ Len(pending) = 0
    BY DEF Gone
  <2> QED BY <2>1, <1>1 DEF Val, Sent, Told, Busy
<1>3. /\ offsets \in [Slots -> Nat] /\ offsets' \in [Slots -> Nat] /\ slot \in Slots
      /\ slot' \in Slots /\ Chunks[Val] \in Nat
      /\ offsets'[slot] = offsets[slot] + Chunks[Val]
      /\ \A s \in Slots : s # slot => offsets'[s] = offsets[s]
      /\ \A s \in Slots : offsets'[s] >= offsets[s]
  <2>1. offsets \in [Slots -> Nat] /\ slot \in Slots /\ slot' \in Slots
    BY NextSlotType DEF IInv, TypeInv
  <2>2. Chunks[Val] \in Nat
    BY <1>1, SizesAssumption
  <2> HIDE DEF FinishValue
  <2> QED BY <2>1, <2>2, <1>2
<1>4. /\ \A v : ~Current(v)' /\ Announced(v)' = Announced(v)
      /\ \A a : Damaged(a)' = Damaged(a)
  BY <1>2 DEF Current, Announced, Damaged
<1>5. \A c \in lost : c[1] = Val => Announced(Val) /\ \A a \in announced : a.val = Val => a.slot = slot
  <2> SUFFICES ASSUME NEW c \in lost, c[1] = Val
               PROVE  Announced(Val) /\ \A a \in announced : a.val = Val => a.slot = slot
    OBVIOUS
  <2>1. c[2] < Chunks[Val] /\ c[2] \in Nat
    BY DEF IInv, LostInv, TypeInv, Chunk
  <2>2. Told
    BY <2>1, <1>1, <1>2
  <2> QED BY <2>2, <1>1 DEF IInv, SendInv
<1>6. \A s : LostAt(s)' = LostAt(s)
  BY <1>4, <1>5 DEF LostAt, Current, Announced
<1>7. TypeInv'
  BY <1>2, <1>3 DEF IInv, TypeInv, Busy
<1>8. QueueInv' /\ AnnouncedInv' /\ SendInv'
  BY <1>2, <1>4 DEF IInv, QueueInv, AnnouncedInv, SendInv
<1>9. LostInv'
  BY <1>4, <1>5 DEF IInv, LostInv, Current
<1>10. CountInv'
  <2> SUFFICES ASSUME NEW s \in Slots
               PROVE  Len(log[s]) + Cardinality(LostAt(s)) = offsets'[s]
    BY <1>2, <1>6 DEF CountInv
  <2>1. CASE s = slot
    BY <2>1, <1>1, <1>2, <1>3 DEF IInv, CountInv
  <2>2. CASE s # slot
    BY <2>2, <1>3 DEF IInv, CountInv
  <2> QED BY <2>1, <2>2
<1>11. PastInv'
  <2> SUFFICES ASSUME NEW a \in announced
               PROVE  /\ a.start + a.num <= offsets'[a.slot]
                      /\ ~Damaged(a) => /\ a.start + a.num <= Len(log[a.slot])
                                        /\ \A i \in 1..a.num : log[a.slot][a.start + i] = <<a.val, i - 1>>
    BY <1>4 DEF PastInv
  <2>0. a.slot \in Slots /\ a.start \in Nat /\ a.num \in Nat /\ a.num = Chunks[a.val]
    BY DEF IInv, TypeInv, AnnouncedInv, Announcement
  <2>1. CASE ~Current(a.val)
    <3>1. offsets[a.slot] <= offsets'[a.slot] /\ offsets[a.slot] \in Nat /\ offsets'[a.slot] \in Nat
      BY <2>0, <1>3
    <3>2. /\ a.start + a.num <= offsets[a.slot]
          /\ ~Damaged(a) => /\ a.start + a.num <= Len(log[a.slot])
                            /\ \A i \in 1..a.num : log[a.slot][a.start + i] = <<a.val, i - 1>>
      BY <2>1 DEF IInv, PastInv
    <3> HIDE DEF FinishValue
    <3> QED BY <2>0, <3>1, <3>2
  <2>2. CASE Current(a.val)
    <3>1. a.val = Val /\ a.slot = slot /\ a.start = offsets[slot] /\ a.num = Chunks[Val]
      BY <2>0, <2>2 DEF IInv, SendInv, Current
    <3>2. a.start + a.num <= offsets'[a.slot]
      <4> HIDE DEF FinishValue
      <4> QED BY <3>1, <1>3
    <3>3. ASSUME ~Damaged(a)
          PROVE  /\ a.start + a.num <= Len(log[a.slot])
                 /\ \A i \in 1..a.num : log[a.slot][a.start + i] = <<a.val, i - 1>>
      <4>1. LostAt(slot) = {}
        BY <2>2, <3>3, UndamagedCurrent
      <4>2. Cardinality(LostAt(slot)) = 0
        BY <4>1, FS_EmptySet
      <4>3. Len(log[slot]) + Cardinality(LostAt(slot)) = offsets[slot] + Gone
        BY <1>1, <1>3 DEF IInv, CountInv
      <4>4. Len(log[slot]) \in Nat
        BY DEF IInv, TypeInv
      <4>5. \A i \in 1..Gone : log[slot][offsets[slot] + i] = <<Val, i - 1>>
        BY <1>1, <4>1 DEF IInv, PresentInv
      <4>6. Gone = a.num
        BY <1>2, <3>1
      <4>7. Len(log[slot]) = offsets[slot] + a.num
        BY <4>2, <4>3, <4>4, <4>6
      <4> HIDE DEF FinishValue
      <4> QED BY <3>1, <4>4, <4>5, <4>6, <4>7, <2>0
    <3> QED BY <3>2, <3>3
  <2> QED BY <2>1, <2>2
<1>12. PresentInv'
  BY <1>2 DEF PresentInv
<1>13. FileInv'
  BY <1>4 DEF IInv, FileInv
<1> QED BY <1>7, <1>8, <1>9, <1>10, <1>11, <1>12, <1>13 DEF IInv

(* What is first in line, and what removing it leaves.                     *)
LEMMA TakePending ==
  ASSUME IInv, pending # <<>>, pending' = Tail(pending), UNCHANGED <<current, slot, offsets, announced>>
  PROVE  /\ Busy /\ Busy' /\ Val' = Val /\ Sent' = Sent /\ Told' = Told
         /\ Val \in Values /\ Sent \in Nat /\ Gone \in Nat /\ Gone' = Gone + 1
         /\ Gone < Chunks[Val] /\ Head(pending) = <<Val, Gone>>
         /\ pending' \in Seq(Chunk) /\ Len(pending') <= BufferSize /\ Len(pending') <= Sent
         /\ \A j \in 1..Len(pending') : pending'[j] = <<Val, Gone' + j - 1>>
         /\ \A v : Current(v)' = Current(v) /\ Announced(v)' = Announced(v)
<1>1. Busy
  BY DEF IInv, SendInv
<1>2. Val \in Values /\ Sent \in Nat
  BY <1>1, CurrentType DEF IInv
<1>3. Busy' /\ Val' = Val /\ Sent' = Sent /\ Told' = Told
  BY <1>1 DEF Busy, Val, Sent, Told
<1>4. /\ Head(pending) = pending[1] /\ pending' \in Seq(Chunk)
      /\ Len(pending) \in Nat /\ Len(pending) > 0 /\ Len(pending') = Len(pending) - 1
      /\ \A i \in 1..Len(pending') : pending'[i] = pending[i + 1]
  <2>1. pending \in Seq(Chunk)
    BY DEF IInv, TypeInv
  <2> QED BY <2>1, TailFacts
<1>5. /\ Sent <= Chunks[Val] /\ Len(pending) <= Sent /\ Len(pending) <= BufferSize
      /\ \A j \in 1..Len(pending) : pending[j] = <<Val, Gone + j - 1>>
  BY <1>1 DEF IInv, SendInv, TypeInv
<1>6. /\ Chunks[Val] \in Nat /\ BufferSize \in Nat
  BY <1>2, SizesAssumption
<1>7. Gone \in Nat /\ Gone' = Gone + 1 /\ Gone < Chunks[Val]
  BY <1>2, <1>3, <1>4, <1>5, <1>6 DEF Gone
<1>8. Head(pending) = <<Val, Gone>>
  BY <1>4, <1>5, <1>7
<1>9. \A j \in 1..Len(pending') : pending'[j] = <<Val, Gone' + j - 1>>
  <2> TAKE j \in 1..Len(pending')
  <2>1. j + 1 \in 1..Len(pending) /\ pending'[j] = pending[j + 1]
    BY <1>4
  <2>2. pending[j + 1] = <<Val, Gone + (j + 1) - 1>>
    BY <2>1, <1>5
  <2> QED BY <2>1, <2>2, <1>7
<1>10. \A v : Current(v)' = Current(v) /\ Announced(v)' = Announced(v)
  BY <1>1, <1>3 DEF Current, Announced
<1> QED BY <1>1, <1>2, <1>3, <1>4, <1>5, <1>6, <1>7, <1>8, <1>9, <1>10

LEMMA DeliverPreserves ==
  ASSUME IInv, Deliver
  PROVE  IInv'
<1> USE DEF Deliver
<1>1. /\ Busy /\ Busy' /\ Val' = Val /\ Sent' = Sent /\ Told' = Told
      /\ Val \in Values /\ Sent \in Nat /\ Gone \in Nat /\ Gone' = Gone + 1
      /\ Gone < Chunks[Val] /\ Head(pending) = <<Val, Gone>>
      /\ pending' \in Seq(Chunk) /\ Len(pending') <= BufferSize /\ Len(pending') <= Sent
      /\ \A j \in 1..Len(pending') : pending'[j] = <<Val, Gone' + j - 1>>
      /\ \A v : Current(v)' = Current(v) /\ Announced(v)' = Announced(v)
  BY TakePending
<1>2. /\ slot \in Slots /\ log \in [Slots -> Seq(Chunk)] /\ log' \in [Slots -> Seq(Chunk)]
      /\ log[slot] \in Seq(Chunk)
      /\ log'[slot] = Append(log[slot], <<Val, Gone>>)
      /\ \A s \in Slots : s # slot => log'[s] = log[s]
  <2>1. slot \in Slots /\ log \in [Slots -> Seq(Chunk)] /\ <<Val, Gone>> \in Chunk
    BY <1>1 DEF IInv, TypeInv, Chunk
  <2>2. log[slot] \in Seq(Chunk) /\ log' = [log EXCEPT ![slot] = Append(log[slot], <<Val, Gone>>)]
    BY <1>1, <2>1
  <2>3. Append(log[slot], <<Val, Gone>>) \in Seq(Chunk)
    BY <2>1, <2>2, AppendFacts
  <2> HIDE DEF Deliver
  <2> QED BY <2>1, <2>2, <2>3
<1>3. /\ Len(log[slot]) \in Nat /\ Len(log'[slot]) = Len(log[slot]) + 1
      /\ log'[slot][Len(log[slot]) + 1] = <<Val, Gone>>
      /\ \A i \in 1..Len(log[slot]) : log'[slot][i] = log[slot][i]
  <2>1. <<Val, Gone>> \in Chunk /\ Len(log[slot]) \in Nat
    BY <1>1, <1>2 DEF Chunk
  <2> HIDE DEF Deliver
  <2> QED BY <2>1, <1>2, AppendFacts
<1>4. \A s \in Slots : /\ Len(log[s]) \in Nat /\ Len(log'[s]) \in Nat /\ Len(log'[s]) >= Len(log[s])
                       /\ \A i \in 1..Len(log[s]) : log'[s][i] = log[s][i]
  <2> TAKE s \in Slots
  <2> HIDE DEF Deliver
  <2>1. CASE s = slot
    BY <2>1, <1>3
  <2>2. CASE s # slot
    BY <2>2, <1>2
  <2> QED BY <2>1, <2>2
<1>5. /\ \A a : Damaged(a)' = Damaged(a)
      /\ \A s : LostAt(s)' = LostAt(s)
  BY <1>1 DEF Damaged, LostAt
<1>6. TypeInv'
  BY <1>1, <1>2 DEF IInv, TypeInv
<1>7. QueueInv' /\ AnnouncedInv' /\ LostInv'
  BY <1>1 DEF IInv, QueueInv, AnnouncedInv, LostInv
<1>8. SendInv'
  <2>1. /\ Sent <= Chunks[Val] /\ (Told => Gone > 0) /\ (Sent > 1 => Told) /\ (Told <=> Announced(Val))
        /\ \A a \in announced : a.val = Val => a.slot = slot /\ a.start = offsets[slot]
        /\ \A c \in lost : c[1] = Val => c[2] < Gone
    BY <1>1 DEF IInv, SendInv
  <2>2. \A c \in lost : c[2] \in Nat
    BY DEF IInv, TypeInv, Chunk
  <2>3. \A c \in lost : c[1] = Val => c[2] < Gone + 1
    BY <2>1, <2>2, <1>1
  <2>4. Told => Gone + 1 > 0
    BY <1>1
  <2> QED BY <1>1, <2>1, <2>3, <2>4 DEF SendInv
<1>9. CountInv'
  <2> SUFFICES ASSUME NEW s \in Slots
               PROVE  Len(log'[s]) + Cardinality(LostAt(s)) = IF s = slot THEN offsets[s] + (Gone + 1) ELSE offsets[s]
    BY <1>1, <1>5 DEF CountInv
  <2>0. Cardinality(LostAt(s)) \in Nat /\ offsets[s] \in Nat
    BY LostAtFinite DEF IInv, TypeInv
  <2>1. CASE s = slot
    <3>1. Len(log[slot]) + Cardinality(LostAt(slot)) = offsets[slot] + Gone
      BY <1>1, <1>2 DEF IInv, CountInv
    <3>2. Gone \in Nat /\ Len(log[slot]) \in Nat
      BY <1>1, <1>3
    <3>3. Cardinality(LostAt(slot)) \in Nat /\ offsets[slot] \in Nat
      BY <2>0, <2>1
    <3>4. (Len(log[slot]) + 1) + Cardinality(LostAt(slot)) = offsets[slot] + (Gone + 1)
      <4> HIDE DEF Deliver
      <4> QED BY <3>1, <3>2, <3>3
    <3>5. Len(log'[slot]) = Len(log[slot]) + 1
      BY <1>3
    <3> HIDE DEF Deliver
    <3> QED BY <3>4, <3>5, <2>1
  <2>2. CASE s # slot
    BY <2>2, <1>2 DEF IInv, CountInv
  <2> QED BY <2>1, <2>2
<1>10. PastInv'
  <2> SUFFICES ASSUME NEW a \in announced, ~Current(a.val)
               PROVE  /\ a.start + a.num <= offsets[a.slot]
                      /\ ~Damaged(a) => /\ a.start + a.num <= Len(log'[a.slot])
                                        /\ \A i \in 1..a.num : log'[a.slot][a.start + i] = <<a.val, i - 1>>
    BY <1>1, <1>5 DEF PastInv
  <2>1. a.slot \in Slots /\ a.start \in Nat /\ a.num \in Nat
    BY DEF IInv, TypeInv, Announcement
  <2>2. /\ a.start + a.num <= offsets[a.slot]
        /\ ~Damaged(a) => /\ a.start + a.num <= Len(log[a.slot])
                          /\ \A i \in 1..a.num : log[a.slot][a.start + i] = <<a.val, i - 1>>
    BY DEF IInv, PastInv
  <2> HIDE DEF Deliver
  <2>3. ASSUME ~Damaged(a), NEW i \in 1..a.num
        PROVE  log'[a.slot][a.start + i] = <<a.val, i - 1>>
    <3>1. a.start + i \in 1..Len(log[a.slot])
      BY <2>1, <2>2, <2>3, <1>4
    <3> QED BY <3>1, <2>1, <2>2, <2>3, <1>4
  <2> QED BY <2>1, <2>2, <2>3, <1>4
<1>11. PresentInv'
  <2> SUFFICES ASSUME LostAt(slot) = {}, NEW i \in 1..(Gone + 1)
               PROVE  log'[slot][offsets[slot] + i] = <<Val, i - 1>>
    BY <1>1, <1>5 DEF PresentInv
  <2>1. Cardinality(LostAt(slot)) = 0 /\ offsets[slot] \in Nat
    BY FS_EmptySet, <1>2 DEF IInv, TypeInv
  <2>2. Len(log[slot]) + Cardinality(LostAt(slot)) = offsets[slot] + Gone
    BY <1>1, <1>2 DEF IInv, CountInv
  <2>3. Len(log[slot]) = offsets[slot] + Gone
    BY <2>1, <2>2, <1>3
  <2>4. \A j \in 1..Gone : log[slot][offsets[slot] + j] = <<Val, j - 1>>
    BY <1>1 DEF IInv, PresentInv
  <2> HIDE DEF Deliver
  <2>5. CASE i \in 1..Gone
    <3>1. offsets[slot] + i \in 1..Len(log[slot])
      BY <2>1, <2>3, <2>5, <1>1
    <3> QED BY <3>1, <2>4, <2>5, <1>3
  <2>6. CASE i = Gone + 1
    <3>1. offsets[slot] + i = Len(log[slot]) + 1 /\ i - 1 = Gone
      <4>1. Gone \in Nat /\ offsets[slot] \in Nat
        BY <1>1, <2>1
      <4> QED BY <4>1, <2>3, <2>6
    <3> QED BY <3>1, <1>3
  <2> QED BY <2>5, <2>6, <1>1
<1>12. FileInv'
  <2> SUFFICES ASSUME NEW h \in Hosts, NEW v \in Values, NEW a \in announced, a.val = v,
                      NEW i \in 1..Len(file[h][v].chunks)
               PROVE  /\ a.start + i <= Len(log'[a.slot])
                      /\ file[h][v].chunks[i] = log'[a.slot][a.start + i]
    <3>1. \A h \in Hosts, v \in Values :
             /\ ~Announced(v) => file[h][v].chunks = <<>>
             /\ \A a \in announced : a.val = v => Len(file[h][v].chunks) <= a.num
      BY DEF IInv, FileInv
    <3> QED BY <3>1, <1>1 DEF FileInv
  <2>1. a.slot \in Slots /\ a.start \in Nat
    BY DEF IInv, TypeInv, Announcement
  <2>2. a.start + i <= Len(log[a.slot]) /\ file[h][v].chunks[i] = log[a.slot][a.start + i]
    BY DEF IInv, FileInv
  <2>3. i \in Nat /\ i > 0
    OBVIOUS
  <2> HIDE DEF Deliver
  <2>4. a.start + i \in 1..Len(log[a.slot])
    BY <2>1, <2>2, <2>3, <1>4
  <2> QED BY <2>1, <2>2, <2>4, <1>4
<1> QED BY <1>6, <1>7, <1>8, <1>9, <1>10, <1>11, <1>12 DEF IInv

LEMMA UndeliveredPreserves ==
  ASSUME IInv, Undelivered
  PROVE  IInv'
<1> USE DEF Undelivered
<1>1. /\ Busy /\ Busy' /\ Val' = Val /\ Sent' = Sent /\ Told' = Told
      /\ Val \in Values /\ Sent \in Nat /\ Gone \in Nat /\ Gone' = Gone + 1
      /\ Gone < Chunks[Val] /\ Head(pending) = <<Val, Gone>>
      /\ pending' \in Seq(Chunk) /\ Len(pending') <= BufferSize /\ Len(pending') <= Sent
      /\ \A j \in 1..Len(pending') : pending'[j] = <<Val, Gone' + j - 1>>
      /\ \A v : Current(v)' = Current(v) /\ Announced(v)' = Announced(v)
  BY TakePending
<1> DEFINE c0 == <<Val, Gone>>
<1>2. lost' = lost \cup {c0} /\ c0 \in Chunk /\ c0[1] = Val /\ c0[2] = Gone
  BY <1>1 DEF Chunk
<1> HIDE DEF c0
<1>3. /\ \A c \in lost : c[1] = Val => c[2] < Gone
      /\ \A a \in announced : a.val = Val => a.slot = slot
  BY <1>1 DEF IInv, SendInv
<1>4. c0 \notin lost
  BY <1>1, <1>2, <1>3
<1>5. \A a : Damaged(a) => Damaged(a)'
  BY <1>2 DEF Damaged
<1>6. LostAt(slot)' = LostAt(slot) \cup {c0}
  BY <1>1, <1>2 DEF LostAt, Current
<1>7. \A s : s # slot => LostAt(s)' = LostAt(s)
  BY <1>1, <1>2, <1>3 DEF LostAt, Current
<1>8. TypeInv'
  <2>0. IsFiniteSet(lost)
    BY DEF IInv, TypeInv
  <2>1. IsFiniteSet(lost') /\ Cardinality(lost') = Cardinality(lost) + 1
    <3> HIDE DEF Undelivered
    <3> QED BY <2>0, <1>2, <1>4, FS_AddElement
  <2>2. Cardinality(lost) \in Nat
    BY FS_CardinalityType DEF IInv, TypeInv
  <2>3. Cardinality(lost') <= MaxLosses
    BY <2>1, <2>2, SizesAssumption
  <2>4. lost' \subseteq Chunk
    BY <1>2 DEF IInv, TypeInv
  <2> QED BY <2>1, <2>3, <2>4, <1>1 DEF IInv, TypeInv
<1>9. QueueInv' /\ AnnouncedInv'
  BY <1>1 DEF IInv, QueueInv, AnnouncedInv
<1>10. LostInv'
  <2>1. Val \in posted /\ Current(Val)
    BY <1>1 DEF IInv, QueueInv, Current
  <2> QED BY <2>1, <1>1, <1>2 DEF IInv, LostInv
<1>11. SendInv'
  <2>1. /\ Sent <= Chunks[Val] /\ (Told => Gone > 0) /\ (Sent > 1 => Told) /\ (Told <=> Announced(Val))
        /\ \A a \in announced : a.val = Val => a.slot = slot /\ a.start = offsets[slot]
    BY <1>1 DEF IInv, SendInv
  <2>2. \A c \in lost : c[2] \in Nat
    BY DEF IInv, TypeInv, Chunk
  <2>3. \A c \in lost' : c[1] = Val => c[2] < Gone + 1
    BY <2>2, <1>1, <1>2, <1>3
  <2>4. Told => Gone + 1 > 0
    BY <1>1
  <2> QED BY <1>1, <2>1, <2>3, <2>4 DEF SendInv
<1>12. CountInv'
  <2> SUFFICES ASSUME NEW s \in Slots
               PROVE  Len(log[s]) + Cardinality(LostAt(s)') = IF s = slot THEN offsets[s] + (Gone + 1) ELSE offsets[s]
    BY <1>1 DEF CountInv
  <2>0. /\ IsFiniteSet(LostAt(s)) /\ Cardinality(LostAt(s)) \in Nat
        /\ offsets[s] \in Nat /\ Len(log[s]) \in Nat
    BY LostAtFinite DEF IInv, TypeInv
  <2>1. CASE s = slot
    <3>1. Len(log[s]) + Cardinality(LostAt(s)) = offsets[s] + Gone
      BY <1>1, <2>1 DEF IInv, CountInv
    <3>2. Cardinality(LostAt(s)') = Cardinality(LostAt(s)) + 1
      <4>1. c0 \notin LostAt(s)
        BY <1>4 DEF LostAt
      <4> QED BY <4>1, <2>0, <2>1, <1>6, FS_AddElement
    <3>3. Gone \in Nat
      BY <1>1
    <3>4. Len(log[s]) + Cardinality(LostAt(s)') = offsets[s] + (Gone + 1)
      <4> HIDE DEF Undelivered
      <4> QED BY <3>1, <3>2, <3>3, <2>0
    <3> QED BY <3>4, <2>1
  <2>2. CASE s # slot
    BY <2>2, <1>7 DEF IInv, CountInv
  <2> QED BY <2>1, <2>2
<1>13. PastInv'
  BY <1>1, <1>5 DEF IInv, PastInv
<1>14. PresentInv'
  BY <1>6 DEF PresentInv
<1>15. FileInv'
  BY <1>1 DEF IInv, FileInv
<1> QED BY <1>8, <1>9, <1>10, <1>11, <1>12, <1>13, <1>14, <1>15 DEF IInv

(* A step of a prefetcher touches only its file.                           *)
LEMMA PrefetchPreserves ==
  ASSUME IInv, UNCHANGED <<storeQueue, sendVars, log, announced, posted, lost>>,
         file' \in [Hosts -> [Values -> Prefetched]], FileInv'
  PROVE  IInv'
<1> USE DEF sendVars
<1>1. /\ Busy' = Busy /\ Val' = Val /\ Sent' = Sent /\ Told' = Told /\ Gone' = Gone
      /\ \A v : Current(v)' = Current(v) /\ Announced(v)' = Announced(v)
      /\ \A a : Damaged(a)' = Damaged(a)
      /\ \A s : LostAt(s)' = LostAt(s)
  BY DEF Busy, Val, Sent, Told, Gone, Current, Announced, Damaged, LostAt
<1>2. TypeInv'
  BY <1>1 DEF IInv, TypeInv
<1>3. QueueInv' /\ AnnouncedInv' /\ LostInv'
  BY <1>1 DEF IInv, QueueInv, AnnouncedInv, LostInv
<1>4. SendInv'
  BY <1>1 DEF IInv, SendInv
<1>5. CountInv' /\ PresentInv'
  BY <1>1 DEF IInv, CountInv, PresentInv
<1>6. PastInv'
  BY <1>1 DEF IInv, PastInv
<1> QED BY <1>2, <1>3, <1>4, <1>5, <1>6 DEF IInv

LEMMA StartPrefetchPreserves ==
  ASSUME IInv, NEW h \in Hosts, NEW a \in announced, StartPrefetch(h, a)
  PROVE  IInv'
<1>1. a.val \in Values /\ file \in [Hosts -> [Values -> Prefetched]]
  BY DEF IInv, TypeInv, Announcement
<1>2. /\ file' = [file EXCEPT ![h][a.val].open = TRUE]
      /\ UNCHANGED <<storeQueue, sendVars, log, announced, posted, lost>>
  BY DEF StartPrefetch
<1>3. file' \in [Hosts -> [Values -> Prefetched]]
  <2>1. file[h] \in [Values -> Prefetched]
    BY <1>1
  <2>2. [file[h][a.val] EXCEPT !.open = TRUE] \in Prefetched
    BY <2>1, <1>1 DEF Prefetched
  <2>3. [file[h] EXCEPT ![a.val] = [@ EXCEPT !.open = TRUE]] \in [Values -> Prefetched]
    BY <2>1, <2>2
  <2> QED BY <2>3, <1>1, <1>2
<1>4. \A k \in Hosts, v \in Values : file'[k][v].chunks = file[k][v].chunks
  BY <1>1, <1>2 DEF Prefetched
<1>5. FileInv'
  BY <1>2, <1>4 DEF IInv, FileInv, Announced
<1> QED BY <1>2, <1>3, <1>5, PrefetchPreserves

LEMMA ConsumePreserves ==
  ASSUME IInv, NEW h \in Hosts, NEW a \in announced, Consume(h, a)
  PROVE  IInv'
<1> DEFINE old == file[h][a.val].chunks
           next == log[a.slot][a.start + Len(old) + 1]
<1>1. /\ a.val \in Values /\ a.slot \in Slots /\ a.start \in Nat /\ a.num \in Nat
      /\ file \in [Hosts -> [Values -> Prefetched]]
      /\ log[a.slot] \in Seq(Chunk)
  BY DEF IInv, TypeInv, Announcement
<1>2. /\ file' = [file EXCEPT ![h][a.val].chunks = Append(old, next)]
      /\ Len(old) < a.num /\ a.start + Len(old) + 1 <= Len(log[a.slot])
      /\ UNCHANGED <<storeQueue, sendVars, log, announced, posted, lost>>
  BY <1>1 DEF Consume, Prefetched
<1>3. old \in Seq(Chunk) /\ Len(old) \in Nat /\ next \in Chunk
  <2>1. old \in Seq(Chunk)
    BY <1>1 DEF Prefetched
  <2>2. Len(old) \in Nat
    BY <2>1
  <2>3. a.start + Len(old) + 1 \in 1..Len(log[a.slot])
    BY <1>1, <1>2, <2>2
  <2> QED BY <1>1, <2>1, <2>2, <2>3
<1>4. /\ Append(old, next) \in Seq(Chunk) /\ Len(Append(old, next)) = Len(old) + 1
      /\ \A i \in 1..Len(old) : Append(old, next)[i] = old[i]
      /\ Append(old, next)[Len(old) + 1] = next
  <2> HIDE DEF old, next
  <2> QED BY <1>3, AppendFacts
<1>5. file' \in [Hosts -> [Values -> Prefetched]]
  <2> HIDE DEF old, next
  <2>1. file[h] \in [Values -> Prefetched] /\ file[h][a.val] \in Prefetched
    BY <1>1
  <2>2. [file[h][a.val] EXCEPT !.chunks = Append(old, next)] \in Prefetched
    BY <2>1, <1>4 DEF Prefetched
  <2>3. [file[h] EXCEPT ![a.val] = [@ EXCEPT !.chunks = Append(old, next)]] \in [Values -> Prefetched]
    BY <2>1, <2>2
  <2> QED BY <2>3, <1>1, <1>2
<1>6. /\ file'[h][a.val].chunks = Append(old, next)
      /\ \A k \in Hosts, v \in Values : k # h \/ v # a.val => file'[k][v].chunks = file[k][v].chunks
  BY <1>1, <1>2 DEF Prefetched
<1>7. \A b \in announced : b.val = a.val => b = a
  BY DEF IInv, AnnouncedInv
<1>8. Announced(a.val)
  BY DEF Announced
<1>9. \A i \in 1..Len(old) : a.start + i <= Len(log[a.slot]) /\ old[i] = log[a.slot][a.start + i]
  BY <1>1 DEF IInv, FileInv
<1> HIDE DEF old
<1>10. FileInv'
  <2> SUFFICES ASSUME NEW k \in Hosts, NEW v \in Values
               PROVE  /\ ~Announced(v) => file'[k][v].chunks = <<>>
                      /\ \A b \in announced : b.val = v =>
                          /\ Len(file'[k][v].chunks) <= b.num
                          /\ \A i \in 1..Len(file'[k][v].chunks) :
                               /\ b.start + i <= Len(log[b.slot])
                               /\ file'[k][v].chunks[i] = log[b.slot][b.start + i]
    BY <1>2 DEF FileInv, Announced
  <2>1. CASE k = h /\ v = a.val
    <3>1. Len(Append(old, next)) <= a.num
      BY <1>1, <1>2, <1>3, <1>4
    <3>2. ASSUME NEW i \in 1..Len(Append(old, next))
          PROVE  a.start + i <= Len(log[a.slot]) /\ Append(old, next)[i] = log[a.slot][a.start + i]
      <4>1. CASE i \in 1..Len(old)
        BY <4>1, <1>4, <1>9
      <4>2. CASE i = Len(old) + 1
        <5>1. a.start + i = a.start + Len(old) + 1
          <6>1. a.start \in Nat /\ Len(old) \in Nat
            BY <1>1, <1>3
          <6> QED BY <6>1, <4>2
        <5> QED BY <5>1, <4>2, <1>2, <1>4
      <4> QED BY <4>1, <4>2, <3>2, <1>3, <1>4
    <3> HIDE DEF next
    <3> QED BY <3>1, <3>2, <2>1, <1>6, <1>7, <1>8
  <2>2. CASE k # h \/ v # a.val
    BY <2>2, <1>6 DEF IInv, FileInv
  <2> QED BY <2>1, <2>2
<1> QED BY <1>2, <1>5, <1>10, PrefetchPreserves

LEMMA StutterPreserves ==
  ASSUME IInv, UNCHANGED vars
  PROVE  IInv'
<1>1. file' \in [Hosts -> [Values -> Prefetched]]
  BY DEF IInv, TypeInv, vars
<1>2. FileInv'
  BY DEF IInv, FileInv, Announced, vars
<1> QED BY <1>1, <1>2, PrefetchPreserves DEF vars

LEMMA NextInvariant == IInv /\ [Next]_vars => IInv'
<1> SUFFICES ASSUME IInv, [Next]_vars PROVE IInv'
  OBVIOUS
<1>1. ASSUME NEW v \in Values, PutBigdata(v) PROVE IInv'
  BY <1>1, PutBigdataPreserves
<1>2. CASE Bypass
  BY <1>2, GetBlockOutputPreserves, ProducePreserves, AnnouncePreserves, FinishValuePreserves DEF Bypass
<1>3. CASE Deliver
  BY <1>3, DeliverPreserves
<1>4. CASE Undelivered
  BY <1>4, UndeliveredPreserves
<1>5. ASSUME NEW h \in Hosts, Prefetch(h) PROVE IInv'
  BY <1>5, StartPrefetchPreserves, ConsumePreserves DEF Prefetch
<1>6. CASE UNCHANGED vars
  BY <1>6, StutterPreserves
<1> QED BY <1>1, <1>2, <1>3, <1>4, <1>5, <1>6 DEF Next

-----------------------------------------------------------------------------
(* Theorems                                                                *)

(* Every reachable state has the inductive invariant: put_to_kafka keeps   *)
(* its queue, its offsets and its announcements in step with partitions.   *)
THEOREM Invariance == Spec => []IInv
<1> QED BY InitInvariant, NextInvariant, PTL DEF Spec

(* The types, and that no counter of put_to_kafka and no file runs past    *)
(* the chunks of its value.                                                *)
THEOREM TypeCorrect == Spec => []TypeOK
<1>1. IInv => TypeOK
  <2> SUFFICES ASSUME IInv PROVE TypeOK
    OBVIOUS
  <2>1. Range(storeQueue) \subseteq Values /\ posted \subseteq Values
    <3>1. storeQueue \in Seq(Values) /\ posted \subseteq Values
      BY DEF IInv, TypeInv
    <3> QED BY <3>1 DEF Range
  <2>2. Len(current) <= 1 /\ \A i \in 1..Len(current) : current[i].sent \in 0 .. Chunks[current[i].val]
    <3>1. CASE Busy
      <4>1. Sent \in 0 .. Chunks[Val]
        BY <3>1, CurrentType, SizesAssumption DEF IInv, SendInv
      <4>2. Len(current) = 1
        BY <3>1 DEF IInv, TypeInv
      <4> QED BY <4>1, <4>2 DEF Sent, Val
    <3>2. CASE ~Busy
      BY <3>2 DEF Busy
    <3> QED BY <3>1, <3>2
  <2>3. slot \in Slots /\ offsets \in [Slots -> Nat] /\ Len(pending) <= BufferSize
    BY DEF IInv, TypeInv
  <2>4. \A a \in announced : a.val \in Values /\ a.slot \in Slots /\ a.start \in Nat
    BY DEF IInv, TypeInv, Announcement
  <2>5. \A h \in Hosts, v \in Values : Len(file[h][v].chunks) <= Chunks[v]
    <3> TAKE h \in Hosts, v \in Values
    <3>1. CASE Announced(v)
      BY <3>1 DEF IInv, FileInv, AnnouncedInv, Announced
    <3>2. CASE ~Announced(v)
      <4>1. Len(file[h][v].chunks) = 0
        BY <3>2 DEF IInv, FileInv
      <4> QED BY <4>1, SizesAssumption
    <3> QED BY <3>1, <3>2
  <2>6. \A c \in lost : c[1] \in posted /\ c[2] \in 0 .. Chunks[c[1]] - 1
    <3> TAKE c \in lost
    <3>1. c[1] \in posted /\ c[2] < Chunks[c[1]] /\ c[1] \in Values /\ c[2] \in Nat
      BY DEF IInv, LostInv, TypeInv, Chunk
    <3> QED BY <3>1, SizesAssumption
  <2>7. Cardinality(lost) <= MaxLosses
    BY DEF IInv, TypeInv
  <2> QED BY <2>1, <2>2, <2>3, <2>4, <2>5, <2>6, <2>7 DEF TypeOK
<1> QED BY <1>1, Invariance, PTL

LEMMA LostAtRest ==
  ASSUME ~Busy, NEW s \in Slots
  PROVE  LostAt(s) = LostIn(s)
BY DEF LostAt, LostIn, Current

(* Between two values the counted offsets of put_to_kafka are those of the *)
(* partitions plus the chunks lost there, whatever the sizes, the rotation *)
(* and the losses.                                                         *)
THEOREM OffsetsCorrect == Spec => []OffsetsExact
<1>1. IInv => OffsetsExact
  <2> SUFFICES ASSUME IInv, current = <<>>, NEW s \in Slots
               PROVE  offsets[s] = Len(log[s]) + Cardinality(LostIn(s))
    BY DEF OffsetsExact
  <2>1. ~Busy
    BY DEF Busy
  <2> QED BY <2>1, LostAtRest DEF IInv, CountInv
<1> QED BY <1>1, Invariance, PTL

(* What kafka_data_ready announces can be read at once, unless the value   *)
(* is damaged: the flush before the announcement is enough.                *)
THEOREM AnnouncementsReadable == Spec => []AnnouncedReadable
<1>1. IInv => AnnouncedReadable
  <2> SUFFICES ASSUME IInv, NEW a \in announced, ~Damaged(a)
               PROVE  Len(log[a.slot]) > a.start /\ log[a.slot][a.start + 1] = <<a.val, 0>>
    BY DEF AnnouncedReadable
  <2>0. /\ a.slot \in Slots /\ a.start \in Nat /\ a.num \in Nat /\ a.num > 0
        /\ Len(log[a.slot]) \in Nat
    BY DEF IInv, TypeInv, AnnouncedInv, Announcement
  <2>1. CASE ~Current(a.val)
    <3>1. /\ a.start + a.num <= Len(log[a.slot])
          /\ \A i \in 1..a.num : log[a.slot][a.start + i] = <<a.val, i - 1>>
      BY <2>1 DEF IInv, PastInv
    <3>2. 1 \in 1..a.num
      BY <2>0
    <3>3. log[a.slot][a.start + 1] = <<a.val, 1 - 1>>
      BY <3>1, <3>2
    <3> QED BY <2>0, <3>1, <3>3
  <2>2. CASE Current(a.val)
    <3>1. Busy /\ a.val = Val /\ Announced(Val)
      BY <2>2 DEF Current, Announced
    <3>2. LostAt(slot) = {} /\ a.slot = slot /\ a.start = offsets[slot]
      BY <2>2, UndamagedCurrent
    <3>3. Gone > 0 /\ Gone \in Int
      <4>1. Sent \in Nat /\ Len(pending) \in Nat
        BY <3>1, CurrentType DEF IInv, TypeInv
      <4> QED BY <4>1, <3>1 DEF IInv, SendInv, Gone
    <3>4. Len(log[slot]) + Cardinality(LostAt(slot)) = offsets[slot] + Gone
      BY <2>0, <3>1, <3>2 DEF IInv, CountInv
    <3>5. Cardinality(LostAt(slot)) = 0
      BY <3>2, FS_EmptySet
    <3>6. \A i \in 1..Gone : log[slot][offsets[slot] + i] = <<Val, i - 1>>
      BY <3>1, <3>2 DEF IInv, PresentInv
    <3>7. log[slot][offsets[slot] + 1] = <<Val, 1 - 1>>
      <4>1. 1 \in 1..Gone
        BY <3>3
      <4> QED BY <4>1, <3>6
    <3>8. Len(log[a.slot]) > a.start
      BY <2>0, <3>2, <3>3, <3>4, <3>5
    <3> QED BY <3>1, <3>2, <3>7, <3>8
  <2> QED BY <2>1, <2>2
<1> QED BY <1>1, Invariance, PTL

(* What prefetch_data writes is a prefix of its own value: it never reads  *)
(* chunks of another one, whatever shares the partition and whatever is    *)
(* lost elsewhere.                                                         *)
THEOREM FilesExact == Spec => []FileExact
<1>1. IInv => FileExact
  <2> SUFFICES ASSUME IInv, NEW a \in announced, NEW h \in Hosts, ~Damaged(a),
                      NEW i \in 1..Len(file[h][a.val].chunks)
               PROVE  file[h][a.val].chunks[i] = <<a.val, i - 1>>
    BY DEF FileExact
  <2>0. /\ a.val \in Values /\ a.slot \in Slots /\ a.start \in Nat /\ a.num \in Nat
        /\ log[a.slot] \in Seq(Chunk) /\ Len(log[a.slot]) \in Nat
        /\ file[h][a.val].chunks \in Seq(Chunk)
    BY DEF IInv, TypeInv, Announcement, Prefetched
  <2>1. /\ Len(file[h][a.val].chunks) <= a.num
        /\ a.start + i <= Len(log[a.slot])
        /\ file[h][a.val].chunks[i] = log[a.slot][a.start + i]
    BY <2>0 DEF IInv, FileInv
  <2>2. i \in 1..a.num
    BY <2>0, <2>1
  <2>3. CASE ~Current(a.val)
    BY <2>1, <2>2, <2>3 DEF IInv, PastInv
  <2>4. CASE Current(a.val)
    <3>1. Busy /\ a.val = Val
      BY <2>4 DEF Current
    <3>2. LostAt(slot) = {} /\ a.slot = slot /\ a.start = offsets[slot]
      BY <2>4, UndamagedCurrent
    <3>3. Len(log[slot]) + Cardinality(LostAt(slot)) = offsets[slot] + Gone
      BY <2>0, <3>1, <3>2 DEF IInv, CountInv
    <3>4. Cardinality(LostAt(slot)) = 0
      BY <3>2, FS_EmptySet
    <3>5. Gone \in Int
      BY <3>1, CurrentType DEF IInv, TypeInv, Gone
    <3>6. i \in 1..Gone
      BY <2>0, <2>1, <2>2, <3>2, <3>3, <3>4, <3>5
    <3> QED BY <2>1, <3>1, <3>2, <3>6 DEF IInv, PresentInv
  <2> QED BY <2>3, <2>4
<1> QED BY <1>1, Invariance, PTL
=============================================================================
