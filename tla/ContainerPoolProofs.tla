------------------------- MODULE ContainerPoolProofs -------------------------
(***************************************************************************)
(* ContainerPool for any requests, templates, limits, ports and failures:  *)
(* the inductive invariant, the five invariants that follow from it, and   *)
(* the refinement of BlockService.                                         *)
(***************************************************************************)
EXTENDS ContainerPool, FiniteSetTheorems, SequenceTheorems, TLAPS

-----------------------------------------------------------------------------
(* The inductive invariant                                                 *)

Stages  == {"new", "queued", "creating", "starting", "running", "delayed", "done", "failed"}
Inside  == {"running", "delayed", "failed"}
Made    == {r \in Requests : stage[r] # "new"}
Outside == Leaving \cup abandoned   \* containers that regular_clean has taken
Limit(c) == ParallelLimit[TemplateOf[c]]
Counted(t) == {c \in Containers(t) \ Outside : docker[c] \in {"creating", "up"}}

TypeInv ==
  /\ queue \in [Templates -> Seq(Requests)] /\ idle \in [Templates -> Seq(Requests)]
  /\ stage \in [Requests -> Stages] /\ IsFiniteSet(Made)
  /\ on \in [Requests -> Requests \cup {None}]
  /\ numExec \in [Templates -> Int] /\ cnt \in [Requests -> Int]
  /\ docker \in [Requests -> {"none", "creating", "up", "gone"}]
  /\ port \in [Requests -> Range(Ports) \cup {NoPort}]
  /\ portList \in Seq(Range(Ports)) /\ fresh \in Seq(Requests)
  /\ lockHeld \subseteq Templates /\ removing \subseteq Seq(Requests)
  /\ abandoned \subseteq Requests /\ failures \in 0 .. MaxFailures

(* The queue of a template holds its queued requests, each once.           *)
QueueInv ==
  \A t \in Templates :
     /\ IsInjective(queue[t])
     /\ \A r \in Range(queue[t]) : stage[r] = "queued" /\ TemplateOf[r] = t

(* The request a container is named after, and a request that has a slot,  *)
(* fix the state of the container.                                         *)
StageInv ==
  \A r \in Requests :
     /\ stage[r] \in {"new", "queued"} => docker[r] = "none"
     /\ stage[r] = "creating" <=> docker[r] = "creating"
     /\ stage[r] = "starting" => docker[r] = "up" /\ r \notin Outside
     /\ stage[r] \in Inside =>
          /\ on[r] \in Requests /\ TemplateOf[on[r]] = TemplateOf[r]
          /\ docker[on[r]] = "up" /\ on[r] \notin Outside /\ stage[on[r]] # "starting"

SlotInv == SlotAccounting /\ \A c \in Requests : cnt[c] \in 0 .. Limit(c)

IdleInv == IdleExact /\ \A t \in Templates : Range(idle[t]) \subseteq Containers(t)

(* What regular_clean has taken is up and wholly idle, and is in one list  *)
(* of one greenlet, once.                                                  *)
LeavingInv ==
  /\ \A c \in Outside : docker[c] = "up" /\ cnt[c] = Limit(c) /\ stage[c] # "starting"
  /\ \A s \in removing : s # <<>> /\ IsInjective(s)
  /\ \A s, u \in removing : s # u => Range(s) \cap Range(u) = {}
  /\ Leaving \cap abandoned = {}

NumInv == NumExecExact /\ \A t \in Templates : numExec[t] <= MaxContainers[t] + 1

PortInv ==
  /\ PortsDistinct
  /\ \A c \in Requests : port[c] # NoPort <=> docker[c] \in {"creating", "up"}

IInv == /\ TypeInv /\ QueueInv /\ StageInv /\ SlotInv /\ IdleInv /\ LeavingInv
        /\ NumInv /\ PortInv

-----------------------------------------------------------------------------
(* Sequences and what they list                                            *)

LEMMA AppendLists ==
  ASSUME NEW S, NEW s \in Seq(S), NEW x \in S
  PROVE  /\ Append(s, x) \in Seq(S)
         /\ Range(Append(s, x)) = Range(s) \cup {x}
         /\ IsInjective(s) /\ x \notin Range(s) => IsInjective(Append(s, x))
<1> DEFINE a == Append(s, x)
<1>1. a \in Seq(S) /\ Len(a) = Len(s) + 1 /\ DOMAIN a = 1..Len(a)
  OBVIOUS
<1>2. \A i \in 1..Len(s) : a[i] = s[i]
  OBVIOUS
<1>3. a[Len(s) + 1] = x
  OBVIOUS
<1>4. DOMAIN s = 1..Len(s) /\ Len(s) \in Nat
  OBVIOUS
<1> HIDE DEF a
<1>5. DOMAIN a = DOMAIN s \cup {Len(s) + 1}
  BY <1>1, <1>4
<1>6. Range(a) = Range(s) \cup {x}
  BY <1>2, <1>3, <1>4, <1>5 DEF Range
<1>7. ASSUME IsInjective(s), x \notin Range(s) PROVE IsInjective(a)
  BY <1>2, <1>3, <1>4, <1>5, <1>7 DEF Range, IsInjective
<1> QED BY <1>1, <1>6, <1>7 DEF a

LEMMA TailLists ==
  ASSUME NEW S, NEW s \in Seq(S), s # <<>>
  PROVE  /\ Head(s) \in S /\ Tail(s) \in Seq(S)
         /\ Range(s) = Range(Tail(s)) \cup {Head(s)}
         /\ IsInjective(s) => IsInjective(Tail(s)) /\ Head(s) \notin Range(Tail(s))
<1> DEFINE a == Tail(s)
<1>1. a \in Seq(S) /\ Len(a) = Len(s) - 1 /\ Head(s) = s[1] /\ Head(s) \in S
  OBVIOUS
<1>2. \A i \in 1..Len(a) : a[i] = s[i + 1]
  OBVIOUS
<1>3. DOMAIN s = 1..Len(s) /\ Len(s) \in Nat /\ Len(s) > 0 /\ DOMAIN a = 1..Len(a)
  OBVIOUS
<1> HIDE DEF a
<1>4. \A i \in DOMAIN a : i + 1 \in DOMAIN s /\ i + 1 # 1
  BY <1>1, <1>3
<1>5. \A i \in DOMAIN s : i = 1 \/ (i - 1 \in DOMAIN a /\ (i - 1) + 1 = i)
  BY <1>1, <1>3
<1>6. 1 \in DOMAIN s
  BY <1>3
<1>7. Range(s) = Range(a) \cup {Head(s)}
  <2>1. Range(s) \subseteq Range(a) \cup {Head(s)}
    BY <1>1, <1>2, <1>3, <1>5 DEF Range
  <2>2. Range(a) \cup {Head(s)} \subseteq Range(s)
    BY <1>1, <1>2, <1>3, <1>4, <1>6 DEF Range
  <2> QED BY <2>1, <2>2
<1>8. ASSUME IsInjective(s) PROVE IsInjective(a) /\ Head(s) \notin Range(a)
  <2>1. ASSUME NEW i \in DOMAIN a, NEW j \in DOMAIN a, a[i] = a[j] PROVE i = j
    <3>1. s[i + 1] = s[j + 1]
      BY <1>2, <1>3, <2>1
    <3>2. i + 1 = j + 1
      BY <1>4, <1>8, <3>1 DEF IsInjective
    <3> QED BY <1>3, <3>2
  <2>2. ASSUME NEW i \in DOMAIN a PROVE a[i] # s[1]
    BY <1>2, <1>3, <1>4, <1>6, <1>8 DEF IsInjective
  <2> QED BY <1>1, <2>1, <2>2 DEF IsInjective, Range
<1> QED BY <1>1, <1>7, <1>8 DEF a

(* A list cut after its first n elements.                                  *)
LEMMA CutLists ==
  ASSUME NEW S, NEW s \in Seq(S), NEW n \in 0..Len(s)
  PROVE  LET a == SubSeq(s, 1, n)
             b == SubSeq(s, n + 1, Len(s))
         IN /\ a \in Seq(S) /\ b \in Seq(S)
            /\ Range(s) = Range(a) \cup Range(b)
            /\ Range(a) = {s[i] : i \in 1..n}
            /\ n > 0 => a # <<>>
            /\ IsInjective(s) =>
                 /\ IsInjective(a) /\ IsInjective(b) /\ Range(a) \cap Range(b) = {}
                 /\ IsFiniteSet(Range(a)) /\ Cardinality(Range(a)) = n
<1> DEFINE a == SubSeq(s, 1, n)
           b == SubSeq(s, n + 1, Len(s))
<1>1. Len(s) \in Nat /\ n \in Nat /\ n <= Len(s) /\ DOMAIN s = 1..Len(s)
  OBVIOUS
<1>2. \A i \in DOMAIN s : s[i] \in S
  OBVIOUS
<1>3. a \in Seq(S) /\ Len(a) = n /\ \A i \in 1..n : a[i] = s[i]
  <2>1. \A i \in 1..n : s[i] \in S
    BY <1>1, <1>2
  <2>2. a \in Seq(S) /\ Len(a) = (IF 1 <= n THEN n - 1 + 1 ELSE 0)
    BY <1>1, <2>1, SubSeqProperties
  <2>3. \A i \in 1..(n - 1 + 1) : a[i] = s[1 + i - 1]
    BY <1>1, <2>1, SubSeqProperties
  <2>4. \A i \in 1..n : a[i] = s[i]
    <3> TAKE i \in 1..n
    <3>1. i \in 1..(n - 1 + 1) /\ 1 + i - 1 = i
      BY <1>1
    <3>2. a[i] = s[1 + i - 1]
      BY <3>1, <2>3
    <3> QED BY <3>1, <3>2
  <2>5. Len(a) = n
    BY <1>1, <2>2
  <2> QED BY <2>2, <2>4, <2>5
<1>4. b \in Seq(S) /\ Len(b) = Len(s) - n /\ \A i \in 1..(Len(s) - n) : b[i] = s[n + i]
  <2>1. \A i \in (n + 1)..Len(s) : s[i] \in S
    BY <1>1, <1>2
  <2>2. /\ b \in Seq(S)
        /\ Len(b) = IF n + 1 <= Len(s) THEN Len(s) - (n + 1) + 1 ELSE 0
    BY <1>1, <2>1, SubSeqProperties
  <2>3. \A i \in 1..(Len(s) - (n + 1) + 1) : b[i] = s[n + 1 + i - 1]
    BY <1>1, <2>1, SubSeqProperties
  <2>4. \A i \in 1..(Len(s) - n) : b[i] = s[n + i]
    <3> TAKE i \in 1..(Len(s) - n)
    <3>1. i \in 1..(Len(s) - (n + 1) + 1) /\ n + 1 + i - 1 = n + i
      BY <1>1
    <3>2. b[i] = s[n + 1 + i - 1]
      BY <3>1, <2>3
    <3> QED BY <3>1, <3>2
  <2> DEFINE m == Len(s)
             k == Len(b)
  <2>5. k = m - n
    <3>1. m \in Nat /\ n \in Nat /\ n <= m
      BY <1>1
    <3>2. k = IF n + 1 <= m THEN m - (n + 1) + 1 ELSE 0
      BY <2>2
    <3> HIDE DEF m, k
    <3> QED BY <3>1, <3>2
  <2> QED BY <2>2, <2>4, <2>5
<1>5. DOMAIN a = 1..n /\ DOMAIN b = 1..(Len(s) - n)
  BY <1>3, <1>4
<1> HIDE DEF a, b
<1>6. \A i \in DOMAIN b : n + i \in DOMAIN s /\ n + i > n
  BY <1>1, <1>5
<1>7. \A i \in DOMAIN s : i \in DOMAIN a \/ (i - n \in DOMAIN b /\ n + (i - n) = i)
  BY <1>1, <1>5
<1>8. \A i \in DOMAIN a : i \in DOMAIN s /\ i <= n
  BY <1>1, <1>5
<1>9. Range(a) = {s[i] : i \in 1..n}
  BY <1>3, <1>5 DEF Range
<1>10. Range(s) = Range(a) \cup Range(b)
  <2>1. \A x \in Range(s) : x \in Range(a) \cup Range(b)
    <3> TAKE x \in Range(s)
    <3>1. PICK i \in DOMAIN s : x = s[i]
      BY DEF Range
    <3>2. CASE i \in DOMAIN a
      BY <1>3, <1>5, <3>1, <3>2 DEF Range
    <3>3. CASE i - n \in DOMAIN b /\ n + (i - n) = i
      BY <1>4, <1>5, <3>1, <3>3 DEF Range
    <3> QED BY <1>7, <3>2, <3>3
  <2>2. Range(a) \subseteq Range(s) /\ Range(b) \subseteq Range(s)
    BY <1>3, <1>4, <1>5, <1>6, <1>8 DEF Range
  <2> QED BY <2>1, <2>2
<1>11. n > 0 => a # <<>>
  BY <1>3, <1>1
<1>12. ASSUME IsInjective(s)
       PROVE  /\ IsInjective(a) /\ IsInjective(b) /\ Range(a) \cap Range(b) = {}
              /\ IsFiniteSet(Range(a)) /\ Cardinality(Range(a)) = n
  <2>1. IsInjective(a)
    BY <1>3, <1>5, <1>8, <1>12 DEF IsInjective
  <2>2. ASSUME NEW i \in DOMAIN b, NEW j \in DOMAIN b, b[i] = b[j] PROVE i = j
    <3>1. s[n + i] = s[n + j]
      BY <1>4, <1>5, <2>2
    <3>2. n + i = n + j
      BY <1>6, <1>12, <3>1 DEF IsInjective
    <3> QED BY <1>1, <1>5, <3>2
  <2>3. ASSUME NEW i \in DOMAIN a, NEW j \in DOMAIN b, a[i] = b[j] PROVE FALSE
    <3>1. s[i] = s[n + j]
      BY <1>3, <1>4, <1>5, <2>3
    <3>2. i = n + j
      BY <1>6, <1>8, <1>12, <3>1 DEF IsInjective
    <3> QED BY <1>1, <1>5, <1>6, <1>8, <3>2
  <2>4. Range(a) \cap Range(b) = {}
    BY <2>3 DEF Range
  <2>5. IsFiniteSet(1..n) /\ Cardinality(1..n) = n
    BY <1>1, FS_Interval
  <2>6. a \in [1..n -> Range(a)]
    BY <1>3, <1>5 DEF Range
  <2>7. a \in Bijection(1..n, Range(a))
    BY <1>5, <2>1, <2>6 DEF Bijection, Injection, Surjection, IsInjective, Range
  <2>8. ExistsBijection(1..n, Range(a))
    BY <2>7 DEF ExistsBijection
  <2>9. IsFiniteSet(Range(a)) /\ Cardinality(Range(a)) = n
    BY <2>5, <2>8, FS_Bijection
  <2> QED BY <2>1, <2>2, <2>4, <2>9 DEF IsInjective
<1> QED BY <1>3, <1>4, <1>9, <1>10, <1>11, <1>12 DEF a, b

(* Front and Last are the cut before the last element.                     *)
LEMMA FrontLists ==
  ASSUME NEW S, NEW s \in Seq(S), s # <<>>, IsInjective(s)
  PROVE  /\ Last(s) \in S /\ Front(s) \in Seq(S) /\ IsInjective(Front(s))
         /\ Range(s) = Range(Front(s)) \cup {Last(s)} /\ Last(s) \notin Range(Front(s))
<1> DEFINE n == Len(s) - 1
           b == SubSeq(s, n + 1, Len(s))
<1>1. Len(s) \in Nat /\ Len(s) > 0 /\ n \in 0..Len(s) /\ n + 1 = Len(s)
  OBVIOUS
<1>2. s[Len(s)] \in S
  BY <1>1
<1>3. b \in Seq(S) /\ Len(b) = 1 /\ b[1] = s[Len(s)]
  BY <1>1, <1>2
<1>4. Range(b) = {Last(s)}
  <2>1. DOMAIN b = {1}
    BY <1>3
  <2> QED BY <1>3, <2>1 DEF Range, Last
<1>5. Front(s) = SubSeq(s, 1, n)
  BY DEF Front
<1>6. /\ SubSeq(s, 1, n) \in Seq(S)
      /\ Range(s) = Range(SubSeq(s, 1, n)) \cup Range(b)
      /\ IsInjective(SubSeq(s, 1, n))
      /\ Range(SubSeq(s, 1, n)) \cap Range(b) = {}
  BY <1>1, CutLists
<1> QED BY <1>2, <1>4, <1>5, <1>6 DEF Last

LEMMA RangeInSet ==
  ASSUME NEW S, NEW s \in Seq(S)
  PROVE  Range(s) \subseteq S
BY DEF Range

LEMMA EmptyLists == Range(<<>>) = {} /\ IsInjective(<<>>)
BY DEF Range, IsInjective

(* A set of positions up to n that has all positions below each of its     *)
(* members is 1 .. its size.                                               *)
LEMMA Downset ==
  ASSUME NEW n \in Nat, NEW P \in SUBSET (1..n),
         \A i \in P : 1..i \subseteq P
  PROVE  P = 1..Cardinality(P) /\ Cardinality(P) \in 0..n
<1>1. IsFiniteSet(1..n) /\ Cardinality(1..n) = n
  BY FS_Interval
<1>2. IsFiniteSet(P) /\ Cardinality(P) <= n
  BY <1>1, FS_Subset
<1>3. Cardinality(P) \in Nat
  BY <1>2, FS_CardinalityType
<1> DEFINE k == Cardinality(P)
<1> HIDE DEF k
<1>4. ASSUME NEW i \in P PROVE i \in 1..k
  <2>1. i \in Nat /\ i >= 1
    OBVIOUS
  <2>2. Cardinality(1..i) = i
    BY <2>1, FS_Interval
  <2>3. Cardinality(1..i) <= k
    BY <1>2, FS_Subset DEF k
  <2> QED BY <1>3, <2>1, <2>2, <2>3 DEF k
<1>5. IsFiniteSet(1..k) /\ Cardinality(1..k) = k
  BY <1>3, FS_Interval DEF k
<1>6. P = 1..k
  <2>1. P \in SUBSET (1..k)
    BY <1>4
  <2>2. Cardinality(1..k) = Cardinality(P)
    BY <1>5 DEF k
  <2> QED BY <1>5, <2>1, <2>2, FS_Subset
<1> QED BY <1>2, <1>3, <1>6 DEF k

-----------------------------------------------------------------------------
(* What a step leaves alone                                                *)

(* A step that gives request r another stage.                              *)
LEMMA StageStep ==
  ASSUME TypeInv, NEW r \in Requests, NEW s \in Stages,
         stage' = [stage EXCEPT ![r] = s]
  PROVE  /\ stage' \in [Requests -> Stages] /\ stage'[r] = s
         /\ \A x \in Requests \ {r} : stage'[x] = stage[x]
         /\ IsFiniteSet(Made')
<1>1. stage' \in [Requests -> Stages] /\ stage'[r] = s
  BY DEF TypeInv
<1>2. \A x \in Requests \ {r} : stage'[x] = stage[x]
  BY DEF TypeInv
<1>3. Made' \subseteq Made \cup {r}
  BY <1>2 DEF Made
<1>4. IsFiniteSet(Made \cup {r})
  BY FS_AddElement DEF TypeInv
<1>5. IsFiniteSet(Made')
  BY <1>3, <1>4, FS_Subset
<1> QED BY <1>1, <1>2, <1>5

LEMMA HoldersFinite ==
  ASSUME TypeInv, NEW c \in Requests
  PROVE  IsFiniteSet(Holders(c)) /\ Cardinality(Holders(c)) \in Nat
<1>1. Holders(c) \subseteq Made
  BY DEF Holders, Made
<1> QED BY <1>1, FS_Subset, FS_CardinalityType DEF TypeInv

LEMMA CountedFinite ==
  ASSUME TypeInv, StageInv, NEW t \in Templates
  PROVE  IsFiniteSet(Counted(t)) /\ Cardinality(Counted(t)) \in Nat
<1>1. Counted(t) \subseteq Made
  BY DEF Counted, Containers, Made, StageInv
<1> QED BY <1>1, FS_Subset, FS_CardinalityType DEF TypeInv

LEMMA TemplateType == ASSUME NEW r \in Requests PROVE TemplateOf[r] \in Templates
BY DEF Templates

LEMMA LimitType == ASSUME NEW c \in Requests PROVE Limit(c) \in Nat /\ Limit(c) > 0
BY LimitsAssumption, TemplateType DEF Limit

LEMMA OutsideSame ==
  ASSUME UNCHANGED <<removing, abandoned>>
  PROVE  Leaving' = Leaving /\ Outside' = Outside
BY DEF Leaving, Outside

(* Nobody has a slot of a container that is not up.                        *)
LEMMA NotUpEmpty ==
  ASSUME StageInv, NEW c \in Requests, docker[c] # "up"
  PROVE  Holders(c) = {}
BY DEF StageInv, Holders, Inside

(* Nobody has a slot of one that starts, or that regular_clean took.       *)
LEMMA StartingEmpty ==
  ASSUME StageInv, NEW c \in Requests, stage[c] = "starting" \/ c \in Outside
  PROVE  Holders(c) = {}
BY DEF StageInv, Holders, Inside

LEMMA QueueSame ==
  ASSUME QueueInv, TypeInv, queue' = queue,
         \A x \in Requests : stage[x] = "queued" => stage'[x] = "queued"
  PROVE  QueueInv'
<1>1. \A t \in Templates : Range(queue[t]) \subseteq Requests
  BY RangeInSet DEF TypeInv
<1> QED BY <1>1 DEF QueueInv

LEMMA SlotSame ==
  ASSUME SlotInv, UNCHANGED <<cnt, docker>>,
         \A c \in Requests : Holders(c)' = Holders(c)
  PROVE  SlotInv'
BY DEF SlotInv, SlotAccounting, Limit

LEMMA IdleSame ==
  ASSUME IdleInv, UNCHANGED <<idle, docker, cnt, removing, abandoned>>,
         \A c \in Requests : stage'[c] = "starting" <=> stage[c] = "starting"
  PROVE  IdleInv'
<1>1. Leaving' = Leaving
  BY OutsideSame
<1>2. \A t \in Templates : Range(idle'[t]) = Range(idle[t]) /\ idle'[t] = idle[t]
  OBVIOUS
<1> QED BY <1>1, <1>2 DEF IdleInv, IdleExact, Containers

LEMMA LeavingSame ==
  ASSUME LeavingInv, TypeInv, UNCHANGED <<docker, cnt, removing, abandoned>>,
         \A c \in Requests : stage'[c] = "starting" => stage[c] = "starting"
  PROVE  LeavingInv'
<1>1. Leaving' = Leaving /\ Outside' = Outside
  BY OutsideSame
<1>2. Outside \subseteq Requests
  BY RangeInSet DEF Outside, Leaving, TypeInv
<1> QED BY <1>1, <1>2 DEF LeavingInv, Limit

LEMMA NumSame ==
  ASSUME NumInv, UNCHANGED <<numExec, docker, removing, abandoned>>
  PROVE  NumInv'
<1>1. Leaving' = Leaving
  BY OutsideSame
<1> QED BY <1>1 DEF NumInv, NumExecExact, Containers

LEMMA PortSame ==
  ASSUME PortInv, UNCHANGED <<port, portList, docker>>
  PROVE  PortInv'
BY DEF PortInv, PortsDistinct

LEMMA OutsideType ==
  ASSUME TypeInv PROVE Leaving \subseteq Requests /\ Outside \subseteq Requests
BY RangeInSet DEF Outside, Leaving, TypeInv

LEMMA StutterPreserves ==
  ASSUME IInv, UNCHANGED vars PROVE IInv'
<1> USE DEF IInv
<1>1. UNCHANGED <<queue, stage, on, numExec, idle, cnt, docker, port, fresh, portList,
                  lockHeld, removing, abandoned, failures>>
  BY DEF vars, requestVars, containerVars, cleanVars
<1>2. TypeInv'
  BY <1>1 DEF TypeInv, Made
<1>3. StageInv' /\ QueueInv'
  BY <1>1, OutsideSame, QueueSame DEF StageInv
<1>4. SlotInv'
  BY <1>1, SlotSame DEF Holders
<1> QED BY <1>1, <1>2, <1>3, <1>4, IdleSame, LeavingSame, NumSame, PortSame

-----------------------------------------------------------------------------
(* Initial states                                                          *)

LEMMA InitInvariant == Init => IInv
<1> SUFFICES ASSUME Init PROVE IInv
  OBVIOUS
<1> USE DEF Init
<1>1. Leaving = {} /\ Outside = {}
  BY DEF Leaving, Outside
<1>2. TypeInv
  <2>1. Made = {}
    BY DEF Made
  <2>2. IsFiniteSet(Made)
    BY <2>1, FS_EmptySet
  <2>3. failures \in 0 .. MaxFailures
    BY LimitsAssumption
  <2>4. portList \in Seq(Range(Ports))
    BY PortsAssumption
  <2>5. <<>> \in Seq(Requests)
    OBVIOUS
  <2> QED BY <2>2, <2>3, <2>4, <2>5 DEF TypeInv, Stages
<1>3. QueueInv
  BY EmptyLists DEF QueueInv
<1>4. StageInv
  BY DEF StageInv, Inside
<1>5. SlotInv
  BY LimitType DEF SlotInv, SlotAccounting
<1>6. IdleInv
  BY EmptyLists DEF IdleInv, IdleExact, Containers
<1>7. LeavingInv
  BY <1>1 DEF LeavingInv
<1>8. NumInv
  <2>1. \A t \in Templates :
          {c \in Containers(t) \ (Leaving \cup abandoned) :
             docker[c] \in {"creating", "up"}} = {}
    BY DEF Containers
  <2>2. \A t \in Templates : numExec[t] <= MaxContainers[t] + 1
    BY LimitsAssumption
  <2> QED BY <2>1, <2>2, FS_EmptySet DEF NumInv, NumExecExact
<1>9. PortInv
  BY PortsAssumption DEF PortInv, PortsDistinct
<1> QED BY <1>2, <1>3, <1>4, <1>5, <1>6, <1>7, <1>8, <1>9 DEF IInv

-----------------------------------------------------------------------------
(* allocate_block, dispatch_request and the life of a container            *)

LEMMA AllocateBlockPreserves ==
  ASSUME IInv, NEW r \in Requests, AllocateBlock(r)
  PROVE  IInv'
<1> USE DEF IInv
<1> DEFINE u == TemplateOf[r]
<1>1. /\ stage[r] = "new" /\ stage' = [stage EXCEPT ![r] = "queued"]
      /\ queue' = [queue EXCEPT ![u] = Append(@, r)]
      /\ UNCHANGED <<on, numExec, idle, cnt, docker, port, fresh, portList,
                     lockHeld, removing, abandoned, failures>>
  BY DEF AllocateBlock, containerVars, cleanVars
<1>2. u \in Templates
  BY TemplateType
<1> HIDE DEF u
<1>3. /\ stage' \in [Requests -> Stages] /\ stage'[r] = "queued"
      /\ \A x \in Requests \ {r} : stage'[x] = stage[x]
      /\ IsFiniteSet(Made')
  BY <1>1, StageStep DEF Stages
<1>4. queue[u] \in Seq(Requests) /\ IsInjective(queue[u]) /\ r \notin Range(queue[u])
  BY <1>1, <1>2 DEF TypeInv, QueueInv
<1>5. /\ Append(queue[u], r) \in Seq(Requests)
      /\ Range(Append(queue[u], r)) = Range(queue[u]) \cup {r}
      /\ IsInjective(Append(queue[u], r))
  BY <1>4, AppendLists
<1>6. queue' \in [Templates -> Seq(Requests)]
  BY <1>1, <1>2, <1>5 DEF TypeInv
<1>7. TypeInv'
  BY <1>1, <1>3, <1>6 DEF TypeInv
<1>8. QueueInv'
  <2> SUFFICES ASSUME NEW t \in Templates
               PROVE  /\ IsInjective(queue'[t])
                      /\ \A x \in Range(queue'[t]) : stage'[x] = "queued" /\ TemplateOf[x] = t
    BY DEF QueueInv
  <2>1. Range(queue[t]) \subseteq Requests
    BY RangeInSet DEF TypeInv
  <2>2. CASE t = u
    BY <1>1, <1>2, <1>3, <1>5, <2>1, <2>2 DEF QueueInv, TypeInv, u
  <2>3. CASE t # u
    BY <1>1, <1>2, <1>3, <2>1, <2>3 DEF QueueInv, TypeInv
  <2> QED BY <2>2, <2>3
<1>9. StageInv'
  BY <1>1, <1>3, OutsideSame DEF StageInv, Inside
<1>10. \A c \in Requests : Holders(c)' = Holders(c)
  BY <1>1, <1>3 DEF Holders
<1>11. \A c \in Requests : stage'[c] = "starting" <=> stage[c] = "starting"
  BY <1>1, <1>3
<1> QED BY <1>1, <1>7, <1>8, <1>9, <1>10, <1>11,
           SlotSame, IdleSame, LeavingSame, NumSame, PortSame

LEMMA DispatchFailedPreserves ==
  ASSUME IInv, NEW u \in Templates, DispatchFailed(u)
  PROVE  IInv'
<1> USE DEF IInv
<1>1. /\ queue[u] # <<>>
      /\ queue' = [queue EXCEPT ![u] = Append(Tail(@), Head(@))]
      /\ UNCHANGED <<stage, on, numExec, idle, cnt, docker, port, fresh, portList,
                     lockHeld, removing, abandoned, failures>>
  BY DEF DispatchFailed, containerVars, cleanVars
<1>2. queue[u] \in Seq(Requests) /\ IsInjective(queue[u])
  BY DEF TypeInv, QueueInv
<1> DEFINE h == Head(queue[u])
           q == Tail(queue[u])
<1>3. /\ h \in Requests /\ q \in Seq(Requests) /\ IsInjective(q)
      /\ Range(queue[u]) = Range(q) \cup {h} /\ h \notin Range(q)
  BY <1>1, <1>2, TailLists
<1> HIDE DEF h, q
<1>4. /\ Append(q, h) \in Seq(Requests) /\ IsInjective(Append(q, h))
      /\ Range(Append(q, h)) = Range(queue[u])
  BY <1>3, AppendLists
<1>5. queue' \in [Templates -> Seq(Requests)]
  BY <1>1, <1>4 DEF TypeInv, h, q
<1>6. TypeInv'
  BY <1>1, <1>5 DEF TypeInv, Made
<1>7. QueueInv'
  <2> SUFFICES ASSUME NEW t \in Templates
               PROVE  /\ IsInjective(queue'[t])
                      /\ \A x \in Range(queue'[t]) : stage'[x] = "queued" /\ TemplateOf[x] = t
    BY DEF QueueInv
  <2>1. CASE t = u
    <3>1. queue'[u] = Append(q, h)
      BY <1>1 DEF TypeInv, h, q
    <3> QED BY <1>1, <1>4, <2>1, <3>1 DEF QueueInv
  <2>2. CASE t # u
    BY <1>1, <2>2 DEF QueueInv, TypeInv
  <2> QED BY <2>1, <2>2
<1>8. StageInv'
  BY <1>1, OutsideSame DEF StageInv
<1>9. \A c \in Requests : Holders(c)' = Holders(c)
  BY <1>1 DEF Holders
<1> QED BY <1>1, <1>6, <1>7, <1>8, <1>9,
           SlotSame, IdleSame, LeavingSame, NumSame, PortSame

(* What a dispatch takes from the head of a queue.                         *)
LEMMA QueueTaken ==
  ASSUME TypeInv, QueueInv, NEW u \in Templates, queue[u] # <<>>, NEW s \in Stages,
         stage' = [stage EXCEPT ![Head(queue[u])] = s],
         queue' = [queue EXCEPT ![u] = Tail(@)]
  PROVE  /\ Head(queue[u]) \in Requests /\ TemplateOf[Head(queue[u])] = u
         /\ stage[Head(queue[u])] = "queued"
         /\ queue' \in [Templates -> Seq(Requests)] /\ QueueInv'
<1> DEFINE h == Head(queue[u])
           q == Tail(queue[u])
<1>1. queue[u] \in Seq(Requests) /\ IsInjective(queue[u])
  BY DEF TypeInv, QueueInv
<1>2. /\ h \in Requests /\ q \in Seq(Requests) /\ IsInjective(q)
      /\ Range(queue[u]) = Range(q) \cup {h} /\ h \notin Range(q)
  BY <1>1, TailLists
<1> HIDE DEF h, q
<1>3. stage[h] = "queued" /\ TemplateOf[h] = u
  BY <1>2 DEF QueueInv
<1>4. queue' \in [Templates -> Seq(Requests)] /\ queue'[u] = q
  BY <1>2 DEF TypeInv, q
<1>5. QueueInv'
  <2> SUFFICES ASSUME NEW t \in Templates
               PROVE  /\ IsInjective(queue'[t])
                      /\ \A x \in Range(queue'[t]) : stage'[x] = "queued" /\ TemplateOf[x] = t
    BY DEF QueueInv
  <2>1. Range(queue[t]) \subseteq Requests
    BY RangeInSet DEF TypeInv
  <2>2. \A x \in Requests \ {h} : stage'[x] = stage[x]
    BY DEF TypeInv, h
  <2>3. CASE t = u
    BY <1>2, <1>4, <2>1, <2>2, <2>3 DEF QueueInv
  <2>4. CASE t # u
    <3>1. queue'[t] = queue[t]
      BY <2>4 DEF TypeInv
    <3>2. h \notin Range(queue[t])
      BY <1>3, <2>4 DEF QueueInv
    <3> QED BY <2>1, <2>2, <3>1, <3>2 DEF QueueInv
  <2> QED BY <2>3, <2>4
<1> QED BY <1>2, <1>3, <1>4, <1>5 DEF h

LEMMA StartCreatePreserves ==
  ASSUME IInv, NEW u \in Templates, StartCreate(u)
  PROVE  IInv'
<1> USE DEF IInv
<1> DEFINE r == Head(queue[u])
           p == Head(portList)
<1>1. /\ queue[u] # <<>> /\ numExec[u] <= MaxContainers[u] /\ portList # <<>>
      /\ stage' = [stage EXCEPT ![r] = "creating"]
      /\ docker' = [docker EXCEPT ![r] = "creating"]
      /\ port' = [port EXCEPT ![r] = p]
      /\ numExec' = [numExec EXCEPT ![u] = @ + 1]
      /\ portList' = Tail(portList)
      /\ queue' = [queue EXCEPT ![u] = Tail(@)]
      /\ UNCHANGED <<on, idle, cnt, fresh, lockHeld, removing, abandoned, failures>>
  BY DEF StartCreate, MayCreate, cleanVars
<1>2. /\ r \in Requests /\ TemplateOf[r] = u /\ stage[r] = "queued"
      /\ queue' \in [Templates -> Seq(Requests)] /\ QueueInv'
  BY <1>1, QueueTaken DEF Stages
<1>3. /\ stage' \in [Requests -> Stages] /\ stage'[r] = "creating"
      /\ \A x \in Requests \ {r} : stage'[x] = stage[x]
      /\ IsFiniteSet(Made')
  BY <1>1, <1>2, StageStep DEF Stages
<1>4. portList \in Seq(Range(Ports)) /\ IsInjective(portList)
  BY DEF TypeInv, PortInv, PortsDistinct
<1>5. /\ p \in Range(Ports) /\ Tail(portList) \in Seq(Range(Ports))
      /\ IsInjective(Tail(portList)) /\ p \notin Range(Tail(portList))
      /\ Range(portList) = Range(Tail(portList)) \cup {p}
  BY <1>1, <1>4, TailLists
<1>6. p # NoPort
  BY <1>5, PortsAssumption
<1> HIDE DEF r, p
<1>7. /\ docker[r] = "none" /\ docker'[r] = "creating"
      /\ \A x \in Requests \ {r} : docker'[x] = docker[x]
      /\ docker' \in [Requests -> {"none", "creating", "up", "gone"}]
  BY <1>1, <1>2 DEF StageInv, TypeInv
<1>8. r \notin Outside
  BY <1>7 DEF LeavingInv
<1>9. Leaving' = Leaving /\ Outside' = Outside /\ Outside \subseteq Requests
  BY <1>1, OutsideSame, OutsideType
<1>10. TypeInv'
  <2>1. numExec' \in [Templates -> Int]
    BY <1>1 DEF TypeInv
  <2>2. port' \in [Requests -> Range(Ports) \cup {NoPort}]
    BY <1>1, <1>2, <1>5 DEF TypeInv
  <2> QED BY <1>1, <1>2, <1>3, <1>5, <1>7, <2>1, <2>2 DEF TypeInv
<1>11. StageInv'
  <2>1. ASSUME NEW x \in Requests, stage'[x] \in Inside
        PROVE  /\ on[x] \in Requests /\ TemplateOf[on[x]] = TemplateOf[x]
               /\ docker'[on[x]] = "up" /\ on[x] \notin Outside /\ stage'[on[x]] # "starting"
    BY <1>3, <1>7, <2>1 DEF StageInv, Inside
  <2>2. ASSUME NEW x \in Requests
        PROVE  /\ stage'[x] \in {"new", "queued"} => docker'[x] = "none"
               /\ stage'[x] = "creating" <=> docker'[x] = "creating"
               /\ stage'[x] = "starting" => docker'[x] = "up" /\ x \notin Outside
    BY <1>3, <1>7 DEF StageInv
  <2> QED BY <1>1, <1>9, <2>1, <2>2 DEF StageInv
<1>12. SlotInv'
  <2>1. \A c \in Requests : Holders(c)' = Holders(c)
    BY <1>1, <1>2, <1>3 DEF Holders
  <2> QED BY <1>1, <1>7, <2>1 DEF SlotInv, SlotAccounting, Limit
<1>13. IdleInv'
  <2>1. \A t \in Templates : idle'[t] = idle[t]
    BY <1>1
  <2> QED BY <1>1, <1>2, <1>3, <1>7, <1>9, <2>1 DEF IdleInv, IdleExact, Containers
<1>14. LeavingInv'
  BY <1>1, <1>3, <1>7, <1>8, <1>9 DEF LeavingInv, Limit
<1>15. NumInv'
  <2>1. \A t \in Templates : Counted(t)' = IF t = u THEN Counted(t) \cup {r} ELSE Counted(t)
    BY <1>2, <1>7, <1>8, <1>9 DEF Counted, Containers
  <2>2. r \notin Counted(u)
    BY <1>7 DEF Counted
  <2>3. Cardinality(Counted(u)') = Cardinality(Counted(u)) + 1
    BY <2>1, <2>2, CountedFinite, FS_AddElement
  <2>4. \A t \in Templates : numExec[t] = Cardinality(Counted(t)) /\ numExec[t] <= MaxContainers[t] + 1
    BY DEF NumInv, NumExecExact, Counted, Outside
  <2>5. numExec'[u] = numExec[u] + 1 /\ \A t \in Templates \ {u} : numExec'[t] = numExec[t]
    BY <1>1 DEF TypeInv
  <2>6. ASSUME NEW t \in Templates
        PROVE  numExec'[t] = Cardinality(Counted(t)') /\ numExec'[t] <= MaxContainers[t] + 1
    <3>1. CASE t = u
      <4>1. numExec[u] \in Int /\ MaxContainers[u] \in Int
        BY LimitsAssumption DEF TypeInv
      <4>2. numExec[u] + 1 <= MaxContainers[u] + 1
        BY <1>1, <4>1
      <4> QED BY <2>3, <2>4, <2>5, <3>1, <4>2
    <3>2. CASE t # u
      BY <2>1, <2>4, <2>5, <3>2
    <3> QED BY <3>1, <3>2
  <2> QED BY <2>6 DEF NumInv, NumExecExact, Counted, Outside
<1>16. PortInv'
  <2>1. port'[r] = p /\ \A x \in Requests \ {r} : port'[x] = port[x]
    BY <1>1, <1>2 DEF TypeInv
  <2>2. \A x \in Requests : port[x] # p
    BY <1>5 DEF PortInv, PortsDistinct
  <2>3. \A c, d \in Requests : c # d /\ port'[c] = port'[d] => port'[c] = NoPort
    BY <2>1, <2>2 DEF PortInv, PortsDistinct
  <2>4. \A c \in Requests : port'[c] \notin Range(portList')
    BY <1>1, <1>5, <2>1 DEF PortInv, PortsDistinct
  <2>5. \A c \in Requests : port'[c] # NoPort <=> docker'[c] \in {"creating", "up"}
    BY <1>6, <1>7, <2>1 DEF PortInv
  <2> QED BY <1>1, <1>5, <2>3, <2>4, <2>5 DEF PortInv, PortsDistinct
<1> QED BY <1>2, <1>10, <1>11, <1>12, <1>13, <1>14, <1>15, <1>16

LEMMA ContainerRunPreserves ==
  ASSUME IInv, NEW r \in Requests, ContainerRun(r)
  PROVE  IInv'
<1> USE DEF IInv
<1>1. /\ stage[r] = "creating" /\ stage' = [stage EXCEPT ![r] = "starting"]
      /\ docker' = [docker EXCEPT ![r] = "up"]
      /\ cnt' = [cnt EXCEPT ![r] = Limit(r)]
      /\ fresh' = Append(fresh, r)
      /\ UNCHANGED <<queue, on, numExec, idle, port, portList, lockHeld, removing,
                     abandoned, failures>>
  BY DEF ContainerRun, cleanVars, Limit
<1>2. /\ stage' \in [Requests -> Stages] /\ stage'[r] = "starting"
      /\ \A x \in Requests \ {r} : stage'[x] = stage[x]
      /\ IsFiniteSet(Made')
  BY <1>1, StageStep DEF Stages
<1>3. /\ docker[r] = "creating" /\ docker'[r] = "up"
      /\ \A x \in Requests \ {r} : docker'[x] = docker[x]
      /\ docker' \in [Requests -> {"none", "creating", "up", "gone"}]
  BY <1>1 DEF StageInv, TypeInv
<1>4. Limit(r) \in Nat /\ Limit(r) > 0
  BY LimitType
<1>5. /\ cnt' \in [Requests -> Int] /\ cnt'[r] = Limit(r)
      /\ \A x \in Requests \ {r} : cnt'[x] = cnt[x]
  BY <1>1, <1>4 DEF TypeInv
<1>6. r \notin Outside
  BY <1>3 DEF LeavingInv
<1>7. Leaving' = Leaving /\ Outside' = Outside
  BY <1>1, OutsideSame
<1>8. TypeInv'
  <2>1. fresh' \in Seq(Requests)
    BY <1>1, AppendLists DEF TypeInv
  <2> QED BY <1>1, <1>2, <1>3, <1>5, <2>1 DEF TypeInv
<1>9. QueueInv'
  BY <1>1, <1>2, QueueSame
<1>10. StageInv'
  <2>1. ASSUME NEW x \in Requests, stage'[x] \in Inside
        PROVE  /\ on[x] \in Requests /\ TemplateOf[on[x]] = TemplateOf[x]
               /\ docker'[on[x]] = "up" /\ on[x] \notin Outside /\ stage'[on[x]] # "starting"
    BY <1>2, <1>3, <2>1 DEF StageInv, Inside
  <2>2. ASSUME NEW x \in Requests
        PROVE  /\ stage'[x] \in {"new", "queued"} => docker'[x] = "none"
               /\ stage'[x] = "creating" <=> docker'[x] = "creating"
               /\ stage'[x] = "starting" => docker'[x] = "up" /\ x \notin Outside
    BY <1>2, <1>3, <1>6 DEF StageInv
  <2> QED BY <1>1, <1>7, <2>1, <2>2 DEF StageInv
<1>11. SlotInv'
  <2>1. \A c \in Requests : Holders(c)' = Holders(c)
    BY <1>1, <1>2 DEF Holders
  <2>2. Cardinality(Holders(r)) = 0
    BY <1>3, NotUpEmpty, FS_EmptySet
  <2>3. ASSUME NEW c \in Requests
        PROVE  /\ cnt'[c] \in 0 .. Limit(c)
               /\ docker'[c] = "up" => cnt'[c] + Cardinality(Holders(c)) = Limit(c)
    <3>1. CASE c = r
      BY <1>4, <1>5, <2>2, <3>1
    <3>2. CASE c # r
      BY <1>3, <1>5, <3>2 DEF SlotInv, SlotAccounting, Limit
    <3> QED BY <3>1, <3>2
  <2> QED BY <2>1, <2>3 DEF SlotInv, SlotAccounting, Limit
<1>12. IdleInv'
  <2>1. \A t \in Templates : idle'[t] = idle[t]
    BY <1>1
  <2> QED BY <1>1, <1>2, <1>3, <1>5, <1>7, <2>1 DEF IdleInv, IdleExact, Containers
<1>13. LeavingInv'
  <2>1. Outside \subseteq Requests
    BY OutsideType
  <2> QED BY <1>1, <1>2, <1>3, <1>5, <1>6, <1>7, <2>1 DEF LeavingInv, Limit
<1>14. NumInv'
  <2>1. \A t \in Templates : Counted(t)' = Counted(t)
    BY <1>3, <1>7 DEF Counted, Containers
  <2> QED BY <1>1, <2>1 DEF NumInv, NumExecExact, Counted, Outside
<1>15. PortInv'
  BY <1>1, <1>3 DEF PortInv, PortsDistinct
<1> QED BY <1>8, <1>9, <1>10, <1>11, <1>12, <1>13, <1>14, <1>15

LEMMA CreateFailsPreserves ==
  ASSUME IInv, NEW r \in Requests, CreateFails(r)
  PROVE  IInv'
<1> USE DEF IInv
<1> DEFINE u == TemplateOf[r]
<1>1. /\ failures < MaxFailures /\ failures' = failures + 1
      /\ stage[r] = "creating" /\ stage' = [stage EXCEPT ![r] = "queued"]
      /\ docker' = [docker EXCEPT ![r] = "none"]
      /\ port' = [port EXCEPT ![r] = NoPort]
      /\ numExec' = [numExec EXCEPT ![u] = @ - 1]
      /\ queue' = [queue EXCEPT ![u] = Append(@, r)]
      /\ UNCHANGED <<on, idle, cnt, fresh, portList, lockHeld, removing, abandoned>>
  BY DEF CreateFails, cleanVars
<1>2. u \in Templates
  BY TemplateType
<1>3. /\ stage' \in [Requests -> Stages] /\ stage'[r] = "queued"
      /\ \A x \in Requests \ {r} : stage'[x] = stage[x]
      /\ IsFiniteSet(Made')
  BY <1>1, StageStep DEF Stages
<1>4. queue[u] \in Seq(Requests) /\ IsInjective(queue[u]) /\ r \notin Range(queue[u])
  BY <1>1, <1>2 DEF TypeInv, QueueInv
<1>5. /\ Append(queue[u], r) \in Seq(Requests)
      /\ Range(Append(queue[u], r)) = Range(queue[u]) \cup {r}
      /\ IsInjective(Append(queue[u], r))
  BY <1>4, AppendLists
<1>6. /\ docker[r] = "creating" /\ docker'[r] = "none"
      /\ \A x \in Requests \ {r} : docker'[x] = docker[x]
      /\ docker' \in [Requests -> {"none", "creating", "up", "gone"}]
  BY <1>1 DEF StageInv, TypeInv
<1>7. r \notin Outside
  BY <1>6 DEF LeavingInv
<1>8. Leaving' = Leaving /\ Outside' = Outside /\ Outside \subseteq Requests
  BY <1>1, OutsideSame, OutsideType
<1>9. TypeInv'
  <2>1. queue' \in [Templates -> Seq(Requests)]
    BY <1>1, <1>2, <1>5 DEF TypeInv
  <2>2. numExec' \in [Templates -> Int] /\ port' \in [Requests -> Range(Ports) \cup {NoPort}]
    BY <1>1, <1>2 DEF TypeInv
  <2>3. failures' \in 0 .. MaxFailures
    <3>1. failures \in 0 .. MaxFailures /\ MaxFailures \in Nat
      BY LimitsAssumption DEF TypeInv
    <3> QED BY <1>1, <3>1
  <2> QED BY <1>1, <1>3, <1>6, <2>1, <2>2, <2>3 DEF TypeInv
<1>10. QueueInv'
  <2> SUFFICES ASSUME NEW t \in Templates
               PROVE  /\ IsInjective(queue'[t])
                      /\ \A x \in Range(queue'[t]) : stage'[x] = "queued" /\ TemplateOf[x] = t
    BY DEF QueueInv
  <2>1. Range(queue[t]) \subseteq Requests
    BY RangeInSet DEF TypeInv
  <2>2. CASE t = u
    BY <1>1, <1>2, <1>3, <1>5, <2>1, <2>2 DEF QueueInv, TypeInv
  <2>3. CASE t # u
    BY <1>1, <1>2, <1>3, <2>1, <2>3 DEF QueueInv, TypeInv
  <2> QED BY <2>2, <2>3
<1> HIDE DEF u
<1>11. StageInv'
  BY <1>1, <1>3, <1>6, <1>8 DEF StageInv, Inside
<1>12. SlotInv'
  <2>1. \A c \in Requests : Holders(c)' = Holders(c)
    BY <1>1, <1>3 DEF Holders
  <2> QED BY <1>1, <1>6, <2>1 DEF SlotInv, SlotAccounting, Limit
<1>13. IdleInv'
  <2>1. \A t \in Templates : idle'[t] = idle[t]
    BY <1>1
  <2> QED BY <1>1, <1>3, <1>6, <1>8, <2>1 DEF IdleInv, IdleExact, Containers
<1>14. LeavingInv'
  BY <1>1, <1>3, <1>6, <1>7, <1>8 DEF LeavingInv, Limit
<1>15. NumInv'
  <2>1. \A t \in Templates : Counted(t)' = IF t = u THEN Counted(t) \ {r} ELSE Counted(t)
    BY <1>6, <1>8 DEF Counted, Containers, u
  <2>2. r \in Counted(u)
    BY <1>6, <1>7 DEF Counted, Containers, u
  <2>3. Cardinality(Counted(u)') = Cardinality(Counted(u)) - 1
    BY <1>2, <2>1, <2>2, CountedFinite, FS_RemoveElement
  <2>4. \A t \in Templates : numExec[t] = Cardinality(Counted(t)) /\ numExec[t] <= MaxContainers[t] + 1
    BY DEF NumInv, NumExecExact, Counted, Outside
  <2>5. numExec'[u] = numExec[u] - 1 /\ \A t \in Templates \ {u} : numExec'[t] = numExec[t]
    BY <1>1, <1>2 DEF TypeInv
  <2>6. ASSUME NEW t \in Templates
        PROVE  numExec'[t] = Cardinality(Counted(t)') /\ numExec'[t] <= MaxContainers[t] + 1
    <3>1. CASE t = u
      <4>1. numExec[u] \in Int /\ MaxContainers[u] \in Int
        BY <1>2, LimitsAssumption DEF TypeInv
      <4>2. numExec[u] <= MaxContainers[u] + 1
        BY <1>2, <2>4
      <4>3. numExec[u] - 1 <= MaxContainers[u] + 1
        BY <4>1, <4>2
      <4> QED BY <1>2, <2>3, <2>4, <2>5, <3>1, <4>3
    <3>2. CASE t # u
      BY <2>1, <2>4, <2>5, <3>2
    <3> QED BY <3>1, <3>2
  <2> QED BY <2>6 DEF NumInv, NumExecExact, Counted, Outside
<1>16. PortInv'
  <2>1. port'[r] = NoPort /\ \A x \in Requests \ {r} : port'[x] = port[x]
    BY <1>1 DEF TypeInv
  <2>2. NoPort \notin Range(portList)
    BY RangeInSet, PortsAssumption DEF TypeInv
  <2>3. \A c, d \in Requests : c # d /\ port'[c] = port'[d] => port'[c] = NoPort
    BY <2>1 DEF PortInv, PortsDistinct
  <2>4. \A c \in Requests : port'[c] \notin Range(portList')
    BY <1>1, <2>1, <2>2 DEF PortInv, PortsDistinct
  <2>5. \A c \in Requests : port'[c] # NoPort <=> docker'[c] \in {"creating", "up"}
    BY <1>6, <2>1 DEF PortInv
  <2> QED BY <1>1, <2>3, <2>4, <2>5 DEF PortInv, PortsDistinct
<1> QED BY <1>9, <1>10, <1>11, <1>12, <1>13, <1>14, <1>15, <1>16

-----------------------------------------------------------------------------
(* A slot is taken                                                         *)

LEMMA HoldersEnter ==
  ASSUME TypeInv, NEW r \in Requests, NEW c \in Requests, NEW s \in Inside,
         stage[r] \notin Inside,
         stage' = [stage EXCEPT ![r] = s], on' = [on EXCEPT ![r] = c]
  PROVE  /\ Cardinality(Holders(c)') = Cardinality(Holders(c)) + 1
         /\ \A d \in Requests \ {c} : Holders(d)' = Holders(d)
<1>1. /\ stage'[r] = s /\ on'[r] = c
      /\ \A x \in Requests \ {r} : stage'[x] = stage[x] /\ on'[x] = on[x]
  BY DEF TypeInv
<1>2. Holders(c)' = Holders(c) \cup {r} /\ r \notin Holders(c)
  BY <1>1 DEF Holders, Inside
<1>3. \A d \in Requests \ {c} : Holders(d)' = Holders(d)
  BY <1>1 DEF Holders, Inside
<1>4. Cardinality(Holders(c) \cup {r}) = Cardinality(Holders(c)) + 1
  BY <1>2, HoldersFinite, FS_AddElement
<1> QED BY <1>2, <1>3, <1>4

(* What is common to GetIdle and WaitStart.                                *)
LEMMA EnterPreserves ==
  ASSUME IInv, NEW r \in Requests, NEW c \in Requests, NEW s \in {"running", "failed"},
         stage[r] = "queued" \/ (stage[r] = "starting" /\ c = r),
         TemplateOf[c] = TemplateOf[r], docker[c] = "up", c \notin Outside, cnt[c] > 0,
         c # r => stage[c] # "starting",
         stage' = [stage EXCEPT ![r] = s], on' = [on EXCEPT ![r] = c],
         cnt' = [cnt EXCEPT ![c] = @ - 1],
         UNCHANGED <<numExec, docker, port, portList, removing, abandoned>>
  PROVE  /\ StageInv' /\ SlotInv' /\ LeavingInv' /\ NumInv' /\ PortInv'
         /\ stage' \in [Requests -> Stages] /\ IsFiniteSet(Made')
         /\ on' \in [Requests -> Requests \cup {None}] /\ cnt' \in [Requests -> Int]
         /\ stage'[r] = s /\ \A x \in Requests \ {r} : stage'[x] = stage[x]
         /\ cnt'[c] = cnt[c] - 1 /\ \A d \in Requests \ {c} : cnt'[d] = cnt[d]
<1> USE DEF IInv
<1>1. /\ stage' \in [Requests -> Stages] /\ stage'[r] = s
      /\ \A x \in Requests \ {r} : stage'[x] = stage[x]
      /\ IsFiniteSet(Made')
  BY StageStep DEF Stages
<1>2. /\ on'[r] = c /\ \A x \in Requests \ {r} : on'[x] = on[x]
      /\ on' \in [Requests -> Requests \cup {None}]
  BY DEF TypeInv
<1>3. /\ cnt'[c] = cnt[c] - 1 /\ \A d \in Requests \ {c} : cnt'[d] = cnt[d]
      /\ cnt' \in [Requests -> Int]
  BY DEF TypeInv
<1>4. Leaving' = Leaving /\ Outside' = Outside /\ Outside \subseteq Requests
  BY OutsideSame, OutsideType
<1>5. StageInv'
  <2>1. ASSUME NEW x \in Requests, stage'[x] \in Inside
        PROVE  /\ on'[x] \in Requests /\ TemplateOf[on'[x]] = TemplateOf[x]
               /\ docker[on'[x]] = "up" /\ on'[x] \notin Outside /\ stage'[on'[x]] # "starting"
    BY <1>1, <1>2, <2>1 DEF StageInv, Inside
  <2>2. ASSUME NEW x \in Requests
        PROVE  /\ stage'[x] \in {"new", "queued"} => docker[x] = "none"
               /\ stage'[x] = "creating" <=> docker[x] = "creating"
               /\ stage'[x] = "starting" => docker[x] = "up" /\ x \notin Outside
    <3>1. CASE x = r
      <4>1. docker[r] # "creating"
        BY DEF StageInv
      <4> QED BY <1>1, <3>1, <4>1
    <3>2. CASE x # r
      BY <1>1, <3>2 DEF StageInv
    <3> QED BY <3>1, <3>2
  <2> QED BY <1>4, <2>1, <2>2 DEF StageInv
<1>6. SlotInv'
  <2>1. /\ Cardinality(Holders(c)') = Cardinality(Holders(c)) + 1
        /\ \A d \in Requests \ {c} : Holders(d)' = Holders(d)
    BY HoldersEnter DEF Inside
  <2>2. Cardinality(Holders(c)) \in Nat
    BY HoldersFinite
  <2>3. /\ cnt[c] \in 0 .. Limit(c) /\ Limit(c) \in Nat
        /\ cnt[c] + Cardinality(Holders(c)) = Limit(c)
    BY LimitType DEF SlotInv, SlotAccounting, Limit
  <2>4. /\ cnt[c] - 1 \in 0 .. Limit(c)
        /\ (cnt[c] - 1) + (Cardinality(Holders(c)) + 1) = Limit(c)
    BY <2>2, <2>3
  <2>5. ASSUME NEW d \in Requests
        PROVE  /\ cnt'[d] \in 0 .. Limit(d)
               /\ docker[d] = "up" => cnt'[d] + Cardinality(Holders(d)') = Limit(d)
    <3>1. CASE d = c
      BY <1>3, <2>1, <2>4, <3>1
    <3>2. CASE d # c
      BY <1>3, <2>1, <3>2 DEF SlotInv, SlotAccounting, Limit
    <3> QED BY <3>1, <3>2
  <2> QED BY <2>5 DEF SlotInv, SlotAccounting, Limit
<1>7. LeavingInv'
  BY <1>1, <1>3, <1>4 DEF LeavingInv, Limit
<1> QED BY <1>1, <1>2, <1>3, <1>5, <1>6, <1>7, NumSame, PortSame

LEMMA GetIdlePreserves ==
  ASSUME IInv, NEW u \in Templates, GetIdle(u)
  PROVE  IInv'
<1> USE DEF IInv
<1> DEFINE r == Head(queue[u])
           c == Last(idle[u])
<1>1. /\ queue[u] # <<>> /\ idle[u] # <<>>
      /\ StartRun(r, c)
      /\ on' = [on EXCEPT ![r] = c] /\ cnt' = [cnt EXCEPT ![c] = @ - 1]
      /\ idle' = [idle EXCEPT ![u] = IF cnt[c] = 1 THEN Front(idle[u]) ELSE idle[u]]
      /\ queue' = [queue EXCEPT ![u] = Tail(@)]
      /\ UNCHANGED <<numExec, docker, port, fresh, portList, lockHeld, removing, abandoned,
                     failures>>
  BY DEF GetIdle, ListAfterGet, cleanVars
<1>2. PICK s \in {"running", "failed"} : stage' = [stage EXCEPT ![r] = s]
  BY <1>1 DEF StartRun
<1>3. /\ r \in Requests /\ TemplateOf[r] = u /\ stage[r] = "queued"
      /\ queue' \in [Templates -> Seq(Requests)] /\ QueueInv'
  BY <1>1, <1>2, QueueTaken DEF Stages
<1>4. idle[u] \in Seq(Requests) /\ IsInjective(idle[u])
  BY DEF TypeInv, IdleInv, IdleExact
<1> DEFINE f == Front(idle[u])
<1>5. /\ c \in Requests /\ f \in Seq(Requests) /\ IsInjective(f)
      /\ Range(idle[u]) = Range(f) \cup {c} /\ c \notin Range(f)
  BY <1>1, <1>4, FrontLists
<1> HIDE DEF r, c, f
<1>6. /\ TemplateOf[c] = u /\ docker[c] = "up" /\ cnt[c] > 0 /\ stage[c] # "starting"
      /\ c \notin Outside
  BY <1>5 DEF IdleInv, IdleExact, Containers, Outside
<1>7. c # r
  BY <1>3, <1>6 DEF StageInv
<1>8. /\ StageInv' /\ SlotInv' /\ LeavingInv' /\ NumInv' /\ PortInv'
      /\ stage' \in [Requests -> Stages] /\ IsFiniteSet(Made')
      /\ on' \in [Requests -> Requests \cup {None}] /\ cnt' \in [Requests -> Int]
      /\ stage'[r] = s /\ \A x \in Requests \ {r} : stage'[x] = stage[x]
      /\ cnt'[c] = cnt[c] - 1 /\ \A d \in Requests \ {c} : cnt'[d] = cnt[d]
  BY <1>1, <1>2, <1>3, <1>5, <1>6, <1>7, EnterPreserves
<1>9. /\ idle' \in [Templates -> Seq(Requests)]
      /\ idle'[u] = IF cnt[c] = 1 THEN f ELSE idle[u]
      /\ \A t \in Templates \ {u} : idle'[t] = idle[t]
  BY <1>1, <1>5 DEF TypeInv, f
<1>10. TypeInv'
  BY <1>1, <1>3, <1>8, <1>9 DEF TypeInv
<1>11. cnt[c] \in Int
  BY <1>5 DEF TypeInv
<1>12. Leaving' = Leaving
  BY <1>1, OutsideSame
<1>13. IdleInv'
  <2> DEFINE Free(d) == docker[d] = "up" /\ cnt[d] > 0 /\ stage[d] # "starting"
                          /\ d \notin Leaving \cup abandoned
             Then(d) == docker'[d] = "up" /\ cnt'[d] > 0 /\ stage'[d] # "starting"
                          /\ d \notin Leaving' \cup abandoned'
  <2>1. \A d \in Requests \ {c} : Then(d) <=> Free(d)
    BY <1>1, <1>3, <1>8, <1>12
  <2>2. Free(c) /\ (Then(c) <=> cnt[c] # 1)
    BY <1>1, <1>6, <1>7, <1>8, <1>11, <1>12, <1>5 DEF Outside
  <2>3. \A t \in Templates :
           /\ IsInjective(idle[t]) /\ Range(idle[t]) \subseteq Containers(t)
           /\ \A d \in Containers(t) : d \in Range(idle[t]) <=> Free(d)
    BY DEF IdleInv, IdleExact
  <2> HIDE DEF Free, Then
  <2>4. ASSUME NEW t \in Templates
        PROVE  /\ IsInjective(idle'[t]) /\ Range(idle'[t]) \subseteq Containers(t)
               /\ \A d \in Containers(t) : d \in Range(idle'[t]) <=> Then(d)
    <3>1. CASE t # u
      <4>1. c \notin Containers(t)
        BY <1>6, <3>1 DEF Containers
      <4> QED BY <1>9, <2>1, <2>3, <3>1, <4>1 DEF Containers
    <3>2. CASE t = u /\ cnt[c] = 1
      <4>1. idle'[t] = f
        BY <1>9, <3>2
      <4>2. \A d \in Containers(t) \ {c} : d \in Range(f) <=> Free(d)
        BY <1>5, <2>3, <3>2
      <4> QED BY <1>5, <2>1, <2>2, <2>3, <3>2, <4>1, <4>2 DEF Containers
    <3>3. CASE t = u /\ cnt[c] # 1
      BY <1>9, <2>1, <2>2, <2>3, <3>3 DEF Containers
    <3> QED BY <3>1, <3>2, <3>3
  <2> QED BY <2>4 DEF IdleInv, IdleExact, Then, Containers
<1> QED BY <1>3, <1>8, <1>10, <1>13

LEMMA WaitStartPreserves ==
  ASSUME IInv, NEW r \in Requests, WaitStart(r)
  PROVE  IInv'
<1> USE DEF IInv
<1> DEFINE u == TemplateOf[r]
<1>1. /\ stage[r] = "starting" /\ StartRun(r, r)
      /\ on' = [on EXCEPT ![r] = r] /\ cnt' = [cnt EXCEPT ![r] = @ - 1]
      /\ idle' = IF cnt[r] > 1 THEN [idle EXCEPT ![u] = Append(@, r)] ELSE idle
      /\ UNCHANGED <<queue, numExec, docker, port, fresh, portList, lockHeld, removing,
                     abandoned, failures>>
  BY DEF WaitStart, cleanVars
<1>2. PICK s \in {"running", "failed"} : stage' = [stage EXCEPT ![r] = s]
  BY <1>1 DEF StartRun
<1>3. docker[r] = "up" /\ r \notin Outside
  BY <1>1 DEF StageInv
<1>4. cnt[r] \in Int /\ cnt[r] > 0
  <2>1. Cardinality(Holders(r)) = 0
    BY <1>1, StartingEmpty, FS_EmptySet
  <2>2. cnt[r] + 0 = Limit(r)
    BY <1>3, <2>1 DEF SlotInv, SlotAccounting, Limit
  <2>3. cnt[r] \in Int
    BY DEF TypeInv
  <2> QED BY <2>2, <2>3, LimitType
<1>5. /\ StageInv' /\ SlotInv' /\ LeavingInv' /\ NumInv' /\ PortInv'
      /\ stage' \in [Requests -> Stages] /\ IsFiniteSet(Made')
      /\ on' \in [Requests -> Requests \cup {None}] /\ cnt' \in [Requests -> Int]
      /\ stage'[r] = s /\ \A x \in Requests \ {r} : stage'[x] = stage[x]
      /\ cnt'[r] = cnt[r] - 1 /\ \A d \in Requests \ {r} : cnt'[d] = cnt[d]
  BY <1>1, <1>2, <1>3, <1>4, EnterPreserves
<1>6. u \in Templates
  BY TemplateType
<1>7. /\ idle[u] \in Seq(Requests) /\ IsInjective(idle[u]) /\ r \notin Range(idle[u])
      /\ r \in Containers(u)
  BY <1>1, <1>6 DEF TypeInv, IdleInv, IdleExact, Containers
<1> DEFINE a == Append(idle[u], r)
<1>8. a \in Seq(Requests) /\ IsInjective(a) /\ Range(a) = Range(idle[u]) \cup {r}
  BY <1>7, AppendLists
<1> HIDE DEF a
<1>9. /\ idle' \in [Templates -> Seq(Requests)]
      /\ idle'[u] = IF cnt[r] > 1 THEN a ELSE idle[u]
      /\ \A t \in Templates \ {u} : idle'[t] = idle[t]
  BY <1>1, <1>6, <1>8 DEF TypeInv, a
<1>10. TypeInv'
  BY <1>1, <1>5, <1>9 DEF TypeInv
<1>11. QueueInv'
  BY <1>1, <1>5, QueueSame
<1>12. Leaving' = Leaving
  BY <1>1, OutsideSame
<1>13. IdleInv'
  <2> DEFINE Free(d) == docker[d] = "up" /\ cnt[d] > 0 /\ stage[d] # "starting"
                          /\ d \notin Leaving \cup abandoned
  <2>1. \A d \in Requests \ {r} : Free(d)' <=> Free(d)
    BY <1>1, <1>5, <1>12
  <2>2. Free(r)' <=> cnt[r] > 1
    BY <1>1, <1>3, <1>4, <1>5, <1>12 DEF Outside
  <2>3. \A t \in Templates :
           /\ IsInjective(idle[t]) /\ Range(idle[t]) \subseteq Containers(t)
           /\ \A d \in Containers(t) : d \in Range(idle[t]) <=> Free(d)
    BY DEF IdleInv, IdleExact
  <2> HIDE DEF Free
  <2>4. ASSUME NEW t \in Templates
        PROVE  /\ IsInjective(idle'[t]) /\ Range(idle'[t]) \subseteq Containers(t)
               /\ \A d \in Containers(t) : d \in Range(idle'[t]) <=> Free(d)'
    <3>1. CASE t # u
      <4>1. r \notin Containers(t)
        BY <3>1 DEF Containers
      <4> QED BY <1>9, <2>1, <2>3, <3>1, <4>1 DEF Containers
    <3>2. CASE t = u /\ cnt[r] > 1
      BY <1>7, <1>8, <1>9, <2>1, <2>2, <2>3, <3>2 DEF Containers
    <3>3. CASE t = u /\ ~(cnt[r] > 1)
      BY <1>7, <1>9, <2>1, <2>2, <2>3, <3>3 DEF Containers
    <3> QED BY <3>1, <3>2, <3>3
  <2> QED BY <2>4 DEF IdleInv, IdleExact, Free, Containers
<1> QED BY <1>5, <1>10, <1>11, <1>13

-----------------------------------------------------------------------------
(* A slot is put back, or lost                                             *)

LEMMA UsedType ==
  ASSUME TypeInv, NEW c \in Requests
  PROVE  Used(c) \in Seq(Requests)
<1> DEFINE k == CHOOSE i \in DOMAIN fresh : fresh[i] = c
           a == SubSeq(fresh, 1, k - 1)
           b == SubSeq(fresh, k + 1, Len(fresh))
<1>1. fresh \in Seq(Requests)
  BY DEF TypeInv
<1>2. ASSUME c \in Range(fresh) PROVE a \o b \in Seq(Requests)
  <2>1. \E i \in DOMAIN fresh : fresh[i] = c
    BY <1>2 DEF Range
  <2>2. k \in DOMAIN fresh
    BY <2>1
  <2>3. Len(fresh) \in Nat /\ DOMAIN fresh = 1..Len(fresh)
    BY <1>1
  <2> HIDE DEF k
  <2>4. k \in 1..Len(fresh) /\ k - 1 \in 0..Len(fresh) /\ k \in 0..Len(fresh)
    BY <2>2, <2>3
  <2>5. a \in Seq(Requests)
    BY <1>1, <2>4, CutLists
  <2>6. b \in Seq(Requests)
    BY <1>1, <2>4, CutLists
  <2> HIDE DEF a, b
  <2> QED BY <2>5, <2>6
<1>3. CASE c \in Range(fresh)
  <2>1. Used(c) = Append(a \o b, c)
    BY <1>3 DEF Used, RemoveAt
  <2>2. a \o b \in Seq(Requests)
    BY <1>2, <1>3
  <2> HIDE DEF a, b
  <2> QED BY <2>1, <2>2, AppendLists
<1>4. CASE c \notin Range(fresh)
  BY <1>1, <1>4, AppendLists DEF Used
<1> QED BY <1>3, <1>4

LEMMA HoldersLeave ==
  ASSUME TypeInv, NEW r \in Requests, stage[r] \in Inside, on[r] \in Requests,
         stage' = [stage EXCEPT ![r] = "done"], on' = on
  PROVE  /\ Cardinality(Holders(on[r])) > 0
         /\ Cardinality({x \in Requests : on'[x] = on[r] /\ stage'[x] \in Inside})
              = Cardinality(Holders(on[r])) - 1
         /\ \A d \in Requests \ {on[r]} : Holders(d)' = Holders(d)
<1>1. /\ stage'[r] = "done" /\ \A x \in Requests \ {r} : stage'[x] = stage[x]
  BY DEF TypeInv
<1> DEFINE H == Holders(on[r])
<1>2. r \in H
  BY DEF Holders, Inside
<1>3. IsFiniteSet(H) /\ Cardinality(H) \in Nat
  BY HoldersFinite
<1>4. {x \in Requests : on'[x] = on[r] /\ stage'[x] \in Inside} = H \ {r}
  BY <1>1 DEF Holders, Inside
<1>5. \A d \in Requests \ {on[r]} : Holders(d)' = Holders(d)
  BY <1>1 DEF Holders, Inside
<1> HIDE DEF H
<1>6. Cardinality(H \ {r}) = Cardinality(H) - 1
  BY <1>2, <1>3, FS_RemoveElement
<1>7. Cardinality(H) # 0
  BY <1>2, <1>3, FS_EmptySet
<1>8. Cardinality(H) > 0
  BY <1>3, <1>7
<1> QED BY <1>4, <1>5, <1>6, <1>8 DEF H

(* What is common to a run that answers and to a delayed put.              *)
LEMMA PutPreserves ==
  ASSUME IInv, NEW r \in Requests, stage[r] \in {"running", "delayed"},
         stage' = [stage EXCEPT ![r] = "done"], PutContainer(on[r]),
         fresh' \in Seq(Requests),
         UNCHANGED <<queue, on, numExec, docker, port, portList, lockHeld, removing,
                     abandoned, failures>>
  PROVE  IInv'
<1> USE DEF IInv
<1>1. PICK c \in Requests :
        /\ c = on[r] /\ TemplateOf[c] = TemplateOf[r]
        /\ docker[c] = "up" /\ c \notin Outside /\ stage[c] # "starting"
  BY DEF StageInv, Inside
<1> DEFINE u == TemplateOf[c]
<1>2. u \in Templates
  BY TemplateType
<1>3. /\ cnt' = [cnt EXCEPT ![c] = @ + 1]
      /\ idle' = IF cnt[c] = 0 THEN [idle EXCEPT ![u] = Append(@, c)] ELSE idle
  BY <1>1 DEF PutContainer, ListAfterPut
<1>4. /\ stage' \in [Requests -> Stages] /\ stage'[r] = "done"
      /\ \A x \in Requests \ {r} : stage'[x] = stage[x]
      /\ IsFiniteSet(Made')
  BY StageStep DEF Stages
<1>5. /\ cnt'[c] = cnt[c] + 1 /\ \A d \in Requests \ {c} : cnt'[d] = cnt[d]
      /\ cnt' \in [Requests -> Int] /\ cnt[c] \in Int
  BY <1>3 DEF TypeInv
<1>6. Leaving' = Leaving /\ Outside' = Outside /\ Outside \subseteq Requests
  BY OutsideSame, OutsideType
<1>7. \A d \in Requests : stage'[d] = "starting" <=> stage[d] = "starting"
  BY <1>4
<1>8. StageInv'
  <2>1. ASSUME NEW x \in Requests, stage'[x] \in Inside
        PROVE  /\ on[x] \in Requests /\ TemplateOf[on[x]] = TemplateOf[x]
               /\ docker[on[x]] = "up" /\ on[x] \notin Outside /\ stage'[on[x]] # "starting"
    BY <1>4, <1>7, <2>1 DEF StageInv, Inside
  <2>2. ASSUME NEW x \in Requests
        PROVE  /\ stage'[x] \in {"new", "queued"} => docker[x] = "none"
               /\ stage'[x] = "creating" <=> docker[x] = "creating"
               /\ stage'[x] = "starting" => docker[x] = "up" /\ x \notin Outside
    BY <1>4 DEF StageInv
  <2> QED BY <1>6, <2>1, <2>2 DEF StageInv
<1>9. QueueInv'
  BY <1>4, QueueSame
<1>10. /\ Cardinality(Holders(c)) > 0
       /\ Cardinality(Holders(c)') = Cardinality(Holders(c)) - 1
       /\ \A d \in Requests \ {c} : Holders(d)' = Holders(d)
  <2>1. {x \in Requests : on'[x] = on[r] /\ stage'[x] \in Inside} = Holders(c)'
    BY <1>1 DEF Holders, Inside
  <2> QED BY <1>1, <2>1, HoldersLeave DEF Inside
<1>11. /\ cnt[c] \in 0 .. Limit(c) /\ cnt[c] + 1 \in 0 .. Limit(c) /\ cnt[c] + 1 > 0
       /\ (cnt[c] + 1) + (Cardinality(Holders(c)) - 1) = Limit(c)
  <2>1. Cardinality(Holders(c)) \in Nat /\ Limit(c) \in Nat
    BY HoldersFinite, LimitType
  <2>2. cnt[c] \in 0 .. Limit(c) /\ cnt[c] + Cardinality(Holders(c)) = Limit(c)
    BY <1>1 DEF SlotInv, SlotAccounting, Limit
  <2> QED BY <1>10, <2>1, <2>2
<1>12. SlotInv'
  <2>1. ASSUME NEW d \in Requests
        PROVE  /\ cnt'[d] \in 0 .. Limit(d)
               /\ docker[d] = "up" => cnt'[d] + Cardinality(Holders(d)') = Limit(d)
    <3>1. CASE d = c
      BY <1>5, <1>10, <1>11, <3>1
    <3>2. CASE d # c
      BY <1>5, <1>10, <3>2 DEF SlotInv, SlotAccounting, Limit
    <3> QED BY <3>1, <3>2
  <2> QED BY <2>1 DEF SlotInv, SlotAccounting, Limit
<1>13. LeavingInv'
  BY <1>1, <1>5, <1>6, <1>7 DEF LeavingInv, Limit
<1>14. /\ idle[u] \in Seq(Requests) /\ IsInjective(idle[u]) /\ c \in Containers(u)
       /\ c \in Range(idle[u]) <=> cnt[c] > 0
  BY <1>1, <1>2 DEF TypeInv, IdleInv, IdleExact, Containers, Outside
<1>15. c \in Range(idle[u]) <=> cnt[c] # 0
  BY <1>11, <1>14
<1> DEFINE a == Append(idle[u], c)
<1>16. a \in Seq(Requests) /\ Range(a) = Range(idle[u]) \cup {c}
       /\ (cnt[c] = 0 => IsInjective(a))
  BY <1>14, <1>15, AppendLists
<1> HIDE DEF a
<1>17. /\ idle' \in [Templates -> Seq(Requests)]
       /\ idle'[u] = IF cnt[c] = 0 THEN a ELSE idle[u]
       /\ \A t \in Templates \ {u} : idle'[t] = idle[t]
  BY <1>2, <1>3, <1>16 DEF TypeInv, a
<1>18. IdleInv'
  <2> DEFINE Free(d) == docker[d] = "up" /\ cnt[d] > 0 /\ stage[d] # "starting"
                          /\ d \notin Leaving \cup abandoned
  <2>1. \A d \in Requests \ {c} : Free(d)' <=> Free(d)
    BY <1>5, <1>6, <1>7
  <2>2. Free(c)'
    BY <1>1, <1>5, <1>6, <1>7, <1>11 DEF Outside
  <2>3. \A t \in Templates :
           /\ IsInjective(idle[t]) /\ Range(idle[t]) \subseteq Containers(t)
           /\ \A d \in Containers(t) : d \in Range(idle[t]) <=> Free(d)
    BY DEF IdleInv, IdleExact
  <2> HIDE DEF Free
  <2>4. ASSUME NEW t \in Templates
        PROVE  /\ IsInjective(idle'[t]) /\ Range(idle'[t]) \subseteq Containers(t)
               /\ \A d \in Containers(t) : d \in Range(idle'[t]) <=> Free(d)'
    <3>1. CASE t # u
      <4>1. c \notin Containers(t)
        BY <3>1 DEF Containers
      <4> QED BY <1>17, <2>1, <2>3, <3>1, <4>1 DEF Containers
    <3>2. CASE t = u /\ cnt[c] = 0
      BY <1>14, <1>16, <1>17, <2>1, <2>2, <2>3, <3>2 DEF Containers
    <3>3. CASE t = u /\ cnt[c] # 0
      BY <1>15, <1>17, <2>1, <2>2, <2>3, <3>3 DEF Containers
    <3> QED BY <3>1, <3>2, <3>3
  <2> QED BY <2>4 DEF IdleInv, IdleExact, Free, Containers
<1>19. TypeInv'
  BY <1>4, <1>5, <1>17 DEF TypeInv
<1> QED BY <1>8, <1>9, <1>12, <1>13, <1>18, <1>19, NumSame, PortSame

LEMMA DelayedPutPreserves ==
  ASSUME IInv, NEW r \in Requests, DelayedPut(r)
  PROVE  IInv'
<1>1. fresh \in Seq(Requests)
  BY DEF IInv, TypeInv
<1> QED BY <1>1, PutPreserves DEF DelayedPut, cleanVars

(* A request that stays where it is, in another stage.                     *)
LEMMA StaysInside ==
  ASSUME IInv, NEW r \in Requests, NEW s \in {"delayed", "failed"}, stage[r] = "running",
         stage' = [stage EXCEPT ![r] = s],
         fresh' \in Seq(Requests), failures' \in 0 .. MaxFailures,
         UNCHANGED <<queue, on, numExec, idle, cnt, docker, port, portList, lockHeld,
                     removing, abandoned>>
  PROVE  IInv'
<1> USE DEF IInv
<1>1. /\ stage' \in [Requests -> Stages] /\ stage'[r] = s
      /\ \A x \in Requests \ {r} : stage'[x] = stage[x]
      /\ IsFiniteSet(Made')
  BY StageStep DEF Stages
<1>2. TypeInv'
  BY <1>1 DEF TypeInv
<1>3. \A d \in Requests : stage'[d] = "starting" <=> stage[d] = "starting"
  BY <1>1
<1>4. QueueInv'
  BY <1>1, QueueSame
<1>5. Outside' = Outside
  BY OutsideSame
<1>6. StageInv'
  <2>1. ASSUME NEW x \in Requests, stage'[x] \in Inside
        PROVE  /\ on[x] \in Requests /\ TemplateOf[on[x]] = TemplateOf[x]
               /\ docker[on[x]] = "up" /\ on[x] \notin Outside /\ stage'[on[x]] # "starting"
    BY <1>1, <1>3, <2>1 DEF StageInv, Inside
  <2>2. ASSUME NEW x \in Requests
        PROVE  /\ stage'[x] \in {"new", "queued"} => docker[x] = "none"
               /\ stage'[x] = "creating" <=> docker[x] = "creating"
               /\ stage'[x] = "starting" => docker[x] = "up" /\ x \notin Outside
    BY <1>1 DEF StageInv
  <2> QED BY <1>5, <2>1, <2>2 DEF StageInv
<1>7. \A c \in Requests : Holders(c)' = Holders(c)
  BY <1>1 DEF Holders
<1> QED BY <1>2, <1>3, <1>4, <1>6, <1>7, SlotSame, IdleSame, LeavingSame, NumSame, PortSame

LEMMA RunReturnsPreserves ==
  ASSUME IInv, NEW r \in Requests, RunReturns(r)
  PROVE  IInv'
<1>1. /\ stage[r] = "running" /\ fresh' = Used(on[r])
      /\ UNCHANGED <<queue, on, numExec, docker, port, portList, lockHeld, removing,
                     abandoned, failures>>
  BY DEF RunReturns, cleanVars
<1>2. TypeInv /\ on[r] \in Requests /\ failures \in 0 .. MaxFailures
  BY <1>1 DEF IInv, TypeInv, StageInv, Inside
<1>3. fresh' \in Seq(Requests)
  BY <1>1, <1>2, UsedType
<1>4. CASE stage' = [stage EXCEPT ![r] = "delayed"] /\ UNCHANGED <<cnt, idle>>
  BY <1>1, <1>2, <1>3, <1>4, StaysInside
<1>5. CASE stage' = [stage EXCEPT ![r] = "done"] /\ PutContainer(on[r])
  BY <1>1, <1>3, <1>5, PutPreserves
<1> QED BY <1>4, <1>5 DEF RunReturns

LEMMA RunFailsPreserves ==
  ASSUME IInv, NEW r \in Requests, RunFails(r)
  PROVE  IInv'
<1>1. /\ stage[r] = "running" /\ stage' = [stage EXCEPT ![r] = "failed"]
      /\ failures < MaxFailures /\ failures' = failures + 1
      /\ UNCHANGED <<queue, on, numExec, idle, cnt, docker, port, fresh, portList, lockHeld,
                     removing, abandoned>>
  BY DEF RunFails, cleanVars, containerVars
<1>2. failures \in 0 .. MaxFailures /\ MaxFailures \in Nat /\ fresh \in Seq(Requests)
  BY LimitsAssumption DEF IInv, TypeInv
<1>3. failures' \in 0 .. MaxFailures
  BY <1>1, <1>2
<1> QED BY <1>1, <1>2, <1>3, StaysInside

LEMMA AgePreserves ==
  ASSUME IInv, Age
  PROVE  IInv'
<1> USE DEF IInv
<1>1. /\ fresh # <<>> /\ fresh' = Tail(fresh)
      /\ UNCHANGED <<queue, stage, on, numExec, idle, cnt, docker, port, portList, lockHeld,
                     removing, abandoned, failures>>
  BY DEF Age, requestVars, cleanVars
<1>2. fresh' \in Seq(Requests)
  BY <1>1, TailLists DEF TypeInv
<1>3. TypeInv'
  BY <1>1, <1>2 DEF TypeInv, Made
<1>4. StageInv' /\ QueueInv'
  BY <1>1, OutsideSame, QueueSame DEF StageInv
<1>5. SlotInv'
  BY <1>1, SlotSame DEF Holders
<1> QED BY <1>1, <1>3, <1>4, <1>5, IdleSame, LeavingSame, NumSame, PortSame

-----------------------------------------------------------------------------
(* regular_clean and the removals                                          *)

(* What a scan finds is a prefix of the list of started containers with no *)
(* slot in use.                                                            *)
LEMMA CleanTakes ==
  ASSUME IInv, NEW t \in Templates, Outdated(t) # {}, AssertionHolds(t)
  PROVE  LET pos == Cardinality(Outdated(t))
             a   == SubSeq(idle[t], 1, pos)
             b   == SubSeq(idle[t], pos + 1, Len(idle[t]))
         IN /\ pos \in Nat /\ a \in Seq(Requests) /\ b \in Seq(Requests) /\ a # <<>>
            /\ IsInjective(a) /\ IsInjective(b)
            /\ Range(idle[t]) = Range(a) \cup Range(b) /\ Range(a) \cap Range(b) = {}
            /\ IsFiniteSet(Range(a)) /\ Cardinality(Range(a)) = pos
            /\ \A c \in Range(a) :
                 /\ TemplateOf[c] = t /\ docker[c] = "up" /\ cnt[c] = Limit(c)
                 /\ stage[c] # "starting" /\ c \notin Outside
<1> DEFINE P == Outdated(t)
           pos == Cardinality(P)
           a   == SubSeq(idle[t], 1, pos)
           b   == SubSeq(idle[t], pos + 1, Len(idle[t]))
           n == Len(idle[t])
<1>1. idle[t] \in Seq(Requests) /\ IsInjective(idle[t])
  BY DEF IInv, TypeInv, IdleInv, IdleExact
<1>2. n \in Nat
  BY <1>1
<1>3. P \in SUBSET (1..n)
  BY DEF Outdated
<1>4. \A i \in P : 1..i \subseteq P
  <2> TAKE i \in P
  <2>1. i \in 1..n /\ \A j \in 1..i : Stale(idle[t][j])
    BY DEF Outdated
  <2>2. ASSUME NEW k \in 1..i PROVE k \in P
    <3>1. k \in 1..n /\ 1..k \subseteq 1..i
      BY <1>2, <2>1
    <3> QED BY <2>1, <3>1 DEF Outdated
  <2> QED BY <2>2
<1> HIDE DEF P
<1>5. P = 1..pos /\ pos \in 0..n
  BY <1>2, <1>3, <1>4, Downset
<1>6. pos \in 0..n /\ pos > 0
  <2>1. pos # 0
    <3> SUFFICES ASSUME pos = 0 PROVE FALSE
      OBVIOUS
    <3>1. P = 1..0
      BY <1>5
    <3> QED BY <3>1 DEF P
  <2> HIDE DEF pos, n
  <2> QED BY <1>2, <1>5, <2>1
<1> HIDE DEF pos
<1>7. /\ a \in Seq(Requests) /\ b \in Seq(Requests)
      /\ Range(idle[t]) = Range(a) \cup Range(b)
      /\ Range(a) = {idle[t][i] : i \in 1..pos}
      /\ a # <<>>
      /\ IsInjective(a) /\ IsInjective(b) /\ Range(a) \cap Range(b) = {}
      /\ IsFiniteSet(Range(a)) /\ Cardinality(Range(a)) = pos
  <2>a. PICK s \in Seq(Requests) : s = idle[t]
    BY <1>1
  <2>b. PICK k \in 0..Len(s) : k = pos
    BY <1>6, <2>a
  <2>1. s = idle[t] /\ k = pos
    BY <2>a, <2>b
  <2> DEFINE d == SubSeq(s, 1, k)
             e == SubSeq(s, k + 1, Len(s))
  <2>2. /\ d \in Seq(Requests) /\ e \in Seq(Requests)
        /\ Range(s) = Range(d) \cup Range(e)
        /\ Range(d) = {s[i] : i \in 1..k}
        /\ k > 0 => d # <<>>
        /\ IsInjective(s) =>
             /\ IsInjective(d) /\ IsInjective(e) /\ Range(d) \cap Range(e) = {}
             /\ IsFiniteSet(Range(d)) /\ Cardinality(Range(d)) = k
    BY CutLists
  <2>3. a = d /\ b = e
    BY <2>1
  <2> HIDE DEF a, b, d, e
  <2> QED BY <1>1, <1>6, <2>1, <2>2, <2>3
<1>8. ASSUME NEW c \in Range(a)
      PROVE  /\ TemplateOf[c] = t /\ docker[c] = "up" /\ cnt[c] = Limit(c)
             /\ stage[c] # "starting" /\ c \notin Outside
  <2>1. PICK i \in P : c = idle[t][i]
    BY <1>5, <1>7
  <2>2. cnt[c] = ParallelLimit[t]
    BY <2>1 DEF AssertionHolds, P
  <2>3. c \in Range(idle[t]) /\ TemplateOf[c] = t /\ c \in Containers(t)
    BY <1>7 DEF IInv, IdleInv, Containers
  <2>4. docker[c] = "up" /\ stage[c] # "starting" /\ c \notin Outside
    BY <2>3 DEF IInv, IdleInv, IdleExact, Outside
  <2> QED BY <2>2, <2>3, <2>4 DEF Limit
<1>9. pos \in Nat
  BY <1>6, <1>2
<1> QED BY <1>7, <1>8, <1>9 DEF pos, P

(* Nobody has a slot of a container whose slots are all free.              *)
LEMMA AllFreeEmpty ==
  ASSUME IInv, NEW c \in Requests, docker[c] = "up", cnt[c] = Limit(c)
  PROVE  Holders(c) = {}
<1>1. IsFiniteSet(Holders(c)) /\ Cardinality(Holders(c)) \in Nat
  BY HoldersFinite DEF IInv
<1>2. Limit(c) + Cardinality(Holders(c)) = Limit(c)
  BY DEF IInv, SlotInv, SlotAccounting, Limit
<1>3. Cardinality(Holders(c)) = 0
  BY <1>1, <1>2, LimitType
<1> QED BY <1>1, <1>3, FS_EmptySet

LEMMA RegularCleanPreserves ==
  ASSUME IInv, NEW t \in Templates, RegularClean(t)
  PROVE  IInv'
<1> USE DEF IInv
<1>1. /\ Outdated(t) # {}
      /\ UNCHANGED <<queue, stage, on, cnt, docker, port, fresh, portList, abandoned, failures>>
  BY DEF RegularClean, requestVars, containerVars
<1>2. \A c \in Requests : Holders(c)' = Holders(c)
  BY <1>1 DEF Holders
<1>3. SlotInv' /\ QueueInv' /\ PortInv'
  BY <1>1, <1>2, SlotSame, QueueSame, PortSame
<1>4. CASE ~AssertionHolds(t)
  <2>1. lockHeld' = lockHeld \cup {t} /\ UNCHANGED <<numExec, idle, removing>>
    BY <1>4 DEF RegularClean
  <2>2. TypeInv'
    BY <1>1, <2>1 DEF TypeInv, Made
  <2>3. StageInv'
    BY <1>1, <2>1, OutsideSame DEF StageInv
  <2> QED BY <1>1, <1>3, <2>1, <2>2, <2>3, IdleSame, LeavingSame, NumSame
<1>5. CASE AssertionHolds(t)
  <2> DEFINE pos == Cardinality(Outdated(t))
             a   == SubSeq(idle[t], 1, pos)
             b   == SubSeq(idle[t], pos + 1, Len(idle[t]))
             A   == Range(a)
  <2>1. /\ numExec' = [numExec EXCEPT ![t] = @ - pos]
        /\ idle' = [idle EXCEPT ![t] = b]
        /\ removing' = removing \cup {a}
        /\ lockHeld' = lockHeld
    BY <1>5 DEF RegularClean
  <2>2. /\ pos \in Nat /\ a \in Seq(Requests) /\ b \in Seq(Requests) /\ a # <<>>
        /\ IsInjective(a) /\ IsInjective(b)
        /\ Range(idle[t]) = A \cup Range(b) /\ A \cap Range(b) = {}
        /\ IsFiniteSet(A) /\ Cardinality(A) = pos
        /\ \A c \in A :
             /\ TemplateOf[c] = t /\ docker[c] = "up" /\ cnt[c] = Limit(c)
             /\ stage[c] # "starting" /\ c \notin Outside
    BY <1>1, <1>5, CleanTakes
  <2>3. A \subseteq Requests
    BY <2>2, RangeInSet
  <2> HIDE DEF pos, a, b
  <2>4. Leaving' = Leaving \cup A
    BY <2>1 DEF Leaving
  <2> HIDE DEF A
  <2>5. Outside' = Outside \cup A
    BY <1>1, <2>4 DEF Outside
  <2>6. /\ idle' \in [Templates -> Seq(Requests)] /\ idle'[t] = b
        /\ \A u \in Templates \ {t} : idle'[u] = idle[u]
    BY <2>1, <2>2 DEF TypeInv
  <2>7. /\ numExec' \in [Templates -> Int] /\ numExec'[t] = numExec[t] - pos
        /\ \A u \in Templates \ {t} : numExec'[u] = numExec[u]
    BY <2>1, <2>2 DEF TypeInv
  <2>8. TypeInv'
    BY <1>1, <2>1, <2>2, <2>6, <2>7 DEF TypeInv, Made
  <2>9. StageInv'
    <3>1. ASSUME NEW x \in Requests, stage[x] \in Inside PROVE on[x] \notin A
      <4>1. SUFFICES ASSUME on[x] \in A PROVE FALSE
        OBVIOUS
      <4>2. on[x] \in Requests /\ docker[on[x]] = "up" /\ cnt[on[x]] = Limit(on[x])
        BY <2>2, <2>3, <4>1
      <4>3. x \in Holders(on[x])
        BY <3>1 DEF Holders, Inside
      <4> QED BY <4>2, <4>3, AllFreeEmpty
    <3>2. \A x \in Requests : stage[x] = "starting" => x \notin A
      BY <2>2
    <3> QED BY <1>1, <2>5, <3>1, <3>2 DEF StageInv
  <2>10. IdleInv'
    <3>1. \A u \in Templates :
             /\ IsInjective(idle[u]) /\ Range(idle[u]) \subseteq Containers(u)
             /\ \A c \in Containers(u) : c \in Range(idle[u]) <=>
                  docker[c] = "up" /\ cnt[c] > 0 /\ stage[c] # "starting"
                    /\ c \notin Leaving \cup abandoned
      BY DEF IdleInv, IdleExact
    <3>2. ASSUME NEW u \in Templates
          PROVE  /\ IsInjective(idle'[u]) /\ Range(idle'[u]) \subseteq Containers(u)
                 /\ \A c \in Containers(u) : c \in Range(idle'[u]) <=>
                      docker[c] = "up" /\ cnt[c] > 0 /\ stage[c] # "starting"
                        /\ c \notin (Leaving \cup A) \cup abandoned
      <4>1. CASE u = t
        BY <2>2, <2>6, <3>1, <4>1
      <4>2. CASE u # t
        <5>1. \A c \in Containers(u) : c \notin A
          BY <2>2, <4>2 DEF Containers
        <5> QED BY <2>6, <3>1, <4>2, <5>1
      <4> QED BY <4>1, <4>2
    <3> QED BY <1>1, <2>4, <3>2 DEF IdleInv, IdleExact, Containers
  <2>11. LeavingInv'
    <3>1. \A c \in Outside \cup A :
             docker[c] = "up" /\ cnt[c] = Limit(c) /\ stage[c] # "starting"
      BY <2>2 DEF LeavingInv
    <3>2. \A s \in removing : Range(s) \cap A = {}
      BY <2>2 DEF Outside, Leaving
    <3>3. \A s, u \in removing' : s # u => Range(s) \cap Range(u) = {}
      BY <2>1, <3>2 DEF LeavingInv, A
    <3>4. \A s \in removing' : s # <<>> /\ IsInjective(s)
      BY <2>1, <2>2 DEF LeavingInv
    <3>5. (Leaving \cup A) \cap abandoned = {}
      BY <2>2 DEF LeavingInv, Outside
    <3> QED BY <1>1, <2>4, <2>5, <3>1, <3>3, <3>4, <3>5 DEF LeavingInv, Limit
  <2>12. NumInv'
    <3>1. \A u \in Templates : Counted(u)' = IF u = t THEN Counted(u) \ A ELSE Counted(u)
      BY <1>1, <2>2, <2>5 DEF Counted, Containers
    <3>2. A \subseteq Counted(t)
      BY <2>2, <2>3 DEF Counted, Containers
    <3>3. Counted(t) \cap A = A
      BY <3>2
    <3>4. Cardinality(Counted(t) \ A) = Cardinality(Counted(t)) - pos
      BY <2>2, <3>3, CountedFinite, FS_Difference
    <3>5. \A u \in Templates : numExec[u] = Cardinality(Counted(u)) /\ numExec[u] <= MaxContainers[u] + 1
      BY DEF NumInv, NumExecExact, Counted, Outside
    <3>6. ASSUME NEW u \in Templates
          PROVE  numExec'[u] = Cardinality(Counted(u)') /\ numExec'[u] <= MaxContainers[u] + 1
      <4>1. CASE u = t
        <5>1. numExec[t] \in Int /\ MaxContainers[t] \in Int /\ numExec[t] <= MaxContainers[t] + 1
          BY <3>5, LimitsAssumption DEF TypeInv
        <5>2. numExec[t] - pos <= MaxContainers[t] + 1
          BY <2>2, <5>1
        <5> QED BY <2>7, <3>1, <3>4, <3>5, <4>1, <5>2
      <4>2. CASE u # t
        BY <2>7, <3>1, <3>5, <4>2
      <4> QED BY <4>1, <4>2
    <3> QED BY <3>6 DEF NumInv, NumExecExact, Counted, Outside
  <2> QED BY <1>3, <2>8, <2>9, <2>10, <2>11, <2>12
<1> QED BY <1>4, <1>5

(* Without one of the lists of regular_clean its containers are not there. *)
LEMMA WithoutList ==
  ASSUME LeavingInv, NEW s \in removing
  PROVE  UNION {Range(u) : u \in removing \ {s}} = Leaving \ Range(s)
BY DEF LeavingInv, Leaving

(* One removal takes one container from what is to be removed.             *)
LEMMA ListShrinks ==
  ASSUME IInv, NEW s \in removing, RemoveContainer(s)
  PROVE  Leaving' = Leaving \ {Head(s)}
<1> USE DEF IInv
<1> DEFINE h == Head(s)
           q == Tail(s)
           K == UNION {Range(u) : u \in removing \ {s}}
           Q == Range(q)
           R == Range(s)
<1>1. removing' = (removing \ {s}) \cup (IF q = <<>> THEN {} ELSE {q})
  BY DEF RemoveContainer
<1>2. R = Q \cup {h} /\ h \notin Q
  BY TailLists DEF TypeInv, LeavingInv
<1> HIDE DEF h, q
<1>3. K = Leaving \ R
  BY WithoutList
<1>4. Leaving' = K \cup Q
  <2>1. CASE q = <<>>
    <3>1. Q = {}
      BY <2>1, EmptyLists
    <3> QED BY <1>1, <2>1, <3>1 DEF Leaving
  <2>2. CASE q # <<>>
    <3>1. removing' = (removing \ {s}) \cup {q}
      BY <1>1, <2>2
    <3>2. Leaving' = UNION {Range(u) : u \in (removing \ {s}) \cup {q}}
      BY <3>1 DEF Leaving
    <3> QED BY <3>2, Zenon
  <2> QED BY <2>1, <2>2
<1>5. R \subseteq Leaving
  BY DEF Leaving
<1> HIDE DEF K, Q, R
<1>6. Leaving' = Leaving \ {h}
  BY <1>2, <1>3, <1>4, <1>5
<1> QED BY <1>6 DEF h

LEMMA RemoveContainerPreserves ==
  ASSUME IInv, NEW s \in removing, RemoveContainer(s)
  PROVE  IInv'
<1> USE DEF IInv
<1> DEFINE h == Head(s)
           q == Tail(s)
           p == port[h]
<1>1. /\ docker' = [docker EXCEPT ![h] = "gone"]
      /\ port' = [port EXCEPT ![h] = NoPort]
      /\ portList' = Append(portList, p)
      /\ removing' = (removing \ {s}) \cup (IF q = <<>> THEN {} ELSE {q})
      /\ UNCHANGED <<queue, stage, on, numExec, idle, cnt, fresh, lockHeld, abandoned, failures>>
  BY DEF RemoveContainer, requestVars
<1>2. s \in Seq(Requests) /\ s # <<>> /\ IsInjective(s)
  BY DEF TypeInv, LeavingInv
<1>3. /\ h \in Requests /\ q \in Seq(Requests) /\ IsInjective(q)
      /\ Range(s) = Range(q) \cup {h} /\ h \notin Range(q)
  BY <1>2, TailLists
<1> HIDE DEF h, q
<1>4. Leaving' = Leaving \ {h}
  BY ListShrinks DEF h
<1>5. h \in Leaving /\ h \notin abandoned
  BY <1>3 DEF Leaving, LeavingInv
<1>6. Outside' = Outside \ {h}
  BY <1>1, <1>4, <1>5 DEF Outside
<1>7. docker[h] = "up" /\ stage[h] # "starting" /\ h \in Outside
  BY <1>5 DEF LeavingInv, Outside
<1>8. /\ docker'[h] = "gone" /\ \A x \in Requests \ {h} : docker'[x] = docker[x]
      /\ docker' \in [Requests -> {"none", "creating", "up", "gone"}]
  BY <1>1, <1>3 DEF TypeInv
<1>9. /\ port'[h] = NoPort /\ \A x \in Requests \ {h} : port'[x] = port[x]
      /\ port' \in [Requests -> Range(Ports) \cup {NoPort}]
  BY <1>1, <1>3 DEF TypeInv
<1>10. p \in Range(Ports) /\ p # NoPort /\ p \notin Range(portList)
  BY <1>3, <1>7 DEF TypeInv, PortInv, PortsDistinct
<1> HIDE DEF p
<1>11. /\ portList' \in Seq(Range(Ports)) /\ IsInjective(portList')
       /\ Range(portList') = Range(portList) \cup {p}
  BY <1>1, <1>10, AppendLists DEF TypeInv, PortInv, PortsDistinct
<1>12. TypeInv'
  <2>1. removing' \subseteq Seq(Requests)
    BY <1>1, <1>3 DEF TypeInv
  <2> QED BY <1>1, <1>8, <1>9, <1>11, <2>1 DEF TypeInv, Made
<1>13. QueueInv'
  BY <1>1, QueueSame
<1>14. StageInv'
  <2>1. ASSUME NEW x \in Requests, stage[x] \in Inside
        PROVE  /\ on[x] \in Requests /\ TemplateOf[on[x]] = TemplateOf[x]
               /\ docker'[on[x]] = "up" /\ on[x] \notin Outside \ {h} /\ stage[on[x]] # "starting"
    BY <1>7, <1>8, <2>1 DEF StageInv
  <2>2. ASSUME NEW x \in Requests
        PROVE  /\ stage[x] \in {"new", "queued"} => docker'[x] = "none"
               /\ stage[x] = "creating" <=> docker'[x] = "creating"
               /\ stage[x] = "starting" => docker'[x] = "up" /\ x \notin Outside \ {h}
    BY <1>7, <1>8 DEF StageInv
  <2> QED BY <1>1, <1>6, <2>1, <2>2 DEF StageInv
<1>15. SlotInv'
  <2>1. \A c \in Requests : Holders(c)' = Holders(c)
    BY <1>1 DEF Holders
  <2> QED BY <1>1, <1>8, <2>1 DEF SlotInv, SlotAccounting, Limit
<1>16. IdleInv'
  <2>1. \A t \in Templates : idle'[t] = idle[t]
    BY <1>1
  <2> QED BY <1>1, <1>4, <1>5, <1>8, <2>1 DEF IdleInv, IdleExact, Containers
<1>17. LeavingInv'
  <2>1. Outside \subseteq Requests
    BY OutsideType
  <2>2. \A c \in Outside \ {h} : docker'[c] = "up" /\ cnt[c] = Limit(c) /\ stage[c] # "starting"
    BY <1>8, <2>1 DEF LeavingInv
  <2>3. \A u \in removing' : u # <<>> /\ IsInjective(u)
    BY <1>1, <1>3 DEF LeavingInv
  <2>4. \A u \in removing \ {s} : Range(u) \cap Range(q) = {}
    BY <1>3 DEF LeavingInv
  <2>5. \A u, v \in removing' : u # v => Range(u) \cap Range(v) = {}
    BY <1>1, <2>4 DEF LeavingInv
  <2>6. (Leaving \ {h}) \cap abandoned = {}
    BY DEF LeavingInv
  <2> QED BY <1>1, <1>4, <1>6, <2>2, <2>3, <2>5, <2>6 DEF LeavingInv, Limit
<1>18. NumInv'
  <2>1. \A t \in Templates : Counted(t)' = Counted(t)
    BY <1>6, <1>7, <1>8 DEF Counted, Containers
  <2> QED BY <1>1, <2>1 DEF NumInv, NumExecExact, Counted, Outside
<1>19. PortInv'
  <2>1. \A c, d \in Requests : c # d /\ port'[c] = port'[d] => port'[c] = NoPort
    BY <1>9 DEF PortInv, PortsDistinct
  <2>2. \A x \in Requests \ {h} : port[x] # p
    BY <1>3, <1>10 DEF PortInv, PortsDistinct, p
  <2>3. NoPort \notin Range(portList)
    BY RangeInSet, PortsAssumption DEF TypeInv
  <2>4. \A c \in Requests : port'[c] \notin Range(portList')
    BY <1>9, <1>10, <1>11, <2>2, <2>3 DEF PortInv, PortsDistinct
  <2>5. \A c \in Requests : port'[c] # NoPort <=> docker'[c] \in {"creating", "up"}
    BY <1>8, <1>9 DEF PortInv
  <2> QED BY <1>11, <2>1, <2>4, <2>5 DEF PortInv, PortsDistinct
<1> QED BY <1>12, <1>13, <1>14, <1>15, <1>16, <1>17, <1>18, <1>19

LEMMA RemoveFailsPreserves ==
  ASSUME IInv, NEW s \in removing, RemoveFails(s)
  PROVE  IInv'
<1> USE DEF IInv
<1>1. /\ failures < MaxFailures /\ failures' = failures + 1
      /\ removing' = removing \ {s} /\ abandoned' = abandoned \cup Range(s)
      /\ UNCHANGED <<queue, stage, on, numExec, idle, cnt, docker, port, fresh, portList,
                     lockHeld>>
  BY DEF RemoveFails, requestVars, containerVars
<1>2. Leaving' = Leaving \ Range(s)
  <2>1. UNION {Range(u) : u \in removing \ {s}} = Leaving \ Range(s)
    BY WithoutList
  <2> QED BY <1>1, <2>1 DEF Leaving
<1>3. Range(s) \subseteq Leaving /\ Range(s) \subseteq Requests
  BY RangeInSet DEF Leaving, TypeInv
<1>4. /\ Leaving' \cup abandoned' = Leaving \cup abandoned
      /\ Leaving' \cap abandoned' = {}
  BY <1>1, <1>2, <1>3 DEF LeavingInv
<1>5. Outside' = Outside
  BY <1>4 DEF Outside
<1>6. TypeInv'
  <2>1. failures \in 0 .. MaxFailures /\ MaxFailures \in Nat
    BY LimitsAssumption DEF TypeInv
  <2>2. failures' \in 0 .. MaxFailures
    BY <1>1, <2>1
  <2> QED BY <1>1, <1>3, <2>2 DEF TypeInv, Made
<1>7. QueueInv' /\ PortInv'
  BY <1>1, QueueSame, PortSame
<1>8. StageInv'
  BY <1>1, <1>5 DEF StageInv
<1>9. SlotInv'
  <2>1. \A c \in Requests : Holders(c)' = Holders(c)
    BY <1>1 DEF Holders
  <2> QED BY <1>1, <2>1, SlotSame
<1>10. IdleInv'
  <2>1. \A t \in Templates : idle'[t] = idle[t]
    BY <1>1
  <2> QED BY <1>1, <1>4, <2>1 DEF IdleInv, IdleExact, Containers
<1>11. LeavingInv'
  BY <1>1, <1>4, <1>5 DEF LeavingInv, Limit
<1>12. NumInv'
  BY <1>1, <1>4 DEF NumInv, NumExecExact, Containers
<1> QED BY <1>6, <1>7, <1>8, <1>9, <1>10, <1>11, <1>12

-----------------------------------------------------------------------------
(* The theorems                                                            *)

LEMMA NextInvariant == IInv /\ [Next]_vars => IInv'
<1> SUFFICES ASSUME IInv, [Next]_vars PROVE IInv'
  OBVIOUS
<1>1. ASSUME NEW r \in Requests, AllocateBlock(r) \/ CreateFails(r) \/ RunFails(r) PROVE IInv'
  BY <1>1, AllocateBlockPreserves, CreateFailsPreserves, RunFailsPreserves
<1>2. ASSUME NEW r \in Requests, Serve(r) PROVE IInv'
  BY <1>2, ContainerRunPreserves, WaitStartPreserves, RunReturnsPreserves, DelayedPutPreserves
     DEF Serve
<1>3. ASSUME NEW t \in Templates, DispatchRequest(t) PROVE IInv'
  BY <1>3, GetIdlePreserves, StartCreatePreserves, DispatchFailedPreserves DEF DispatchRequest
<1>4. ASSUME NEW t \in Templates, RegularClean(t) PROVE IInv'
  BY <1>4, RegularCleanPreserves
<1>5. ASSUME NEW s \in removing, RemoveContainer(s) \/ RemoveFails(s) PROVE IInv'
  BY <1>5, RemoveContainerPreserves, RemoveFailsPreserves
<1>6. CASE Age
  BY <1>6, AgePreserves
<1>7. CASE UNCHANGED vars
  BY <1>7, StutterPreserves
<1> QED BY <1>1, <1>2, <1>3, <1>4, <1>5, <1>6, <1>7 DEF Next

(* In every reachable state the inductive invariant holds.                 *)
THEOREM Invariance == Spec => []IInv
BY InitInvariant, NextInvariant, PTL DEF Spec

LEMMA TypeFollows == ASSUME IInv PROVE TypeOK
<1> USE DEF IInv
<1>1. ASSUME NEW t \in Templates
      PROVE  Range(queue[t]) \cup Range(idle[t]) \subseteq Containers(t)
  <2>1. Range(queue[t]) \subseteq Containers(t)
    BY RangeInSet DEF TypeInv, QueueInv, Containers
  <2>2. Range(idle[t]) \subseteq Containers(t)
    BY DEF IdleInv
  <2> QED BY <2>1, <2>2
<1>2. ASSUME NEW t \in Templates
      PROVE  numExec[t] \in 0 .. MaxContainers[t] + 1
  <2>1. Cardinality(Counted(t)) \in Nat
    BY CountedFinite
  <2>2. numExec[t] = Cardinality(Counted(t)) /\ numExec[t] <= MaxContainers[t] + 1
    BY DEF NumInv, NumExecExact, Counted, Outside
  <2>3. MaxContainers[t] \in Nat
    BY LimitsAssumption
  <2> QED BY <2>1, <2>2, <2>3
<1>3. Range(portList) \subseteq Range(Ports) /\ Range(fresh) \subseteq Requests
  BY RangeInSet DEF TypeInv
<1>4. \A s \in removing : s # <<>> /\ Range(s) \subseteq Requests
  BY RangeInSet DEF TypeInv, LeavingInv
<1> QED BY <1>1, <1>2, <1>3, <1>4 DEF TypeOK, TypeInv, SlotInv, Limit, Stages

(* Every variable has its type; num_exec is at most one above              *)
(* max_containers and a container never has more slots than its limit.     *)
THEOREM TypeCorrect == Spec => []TypeOK
BY Invariance, TypeFollows, PTL

(* num_exec of template.py counts the containers that exist or are being   *)
(* created, whatever docker fails and whichever greenlets wait.            *)
THEOREM ContainersAreCounted == Spec => []NumExecExact
<1>1. IInv => NumExecExact
  BY DEF IInv, NumInv
<1> QED BY <1>1, Invariance, PTL

(* No slot of a container is freed twice, and none but a failed run's is   *)
(* lost: put_container and delayed_put_container between them put each     *)
(* slot back once.                                                         *)
THEOREM SlotsAddUp == Spec => []SlotAccounting
<1>1. IInv => SlotAccounting
  BY DEF IInv, SlotInv
<1> QED BY <1>1, Invariance, PTL

(* idle_containers lists each container with a free slot once, and no      *)
(* other.                                                                  *)
THEOREM IdleListIsExact == Spec => []IdleExact
<1>1. IInv => IdleExact
  BY DEF IInv, IdleInv
<1> QED BY <1>1, Invariance, PTL

(* Two containers never share a port, and the port manager never hands out *)
(* one in use: a port is back only after its container is removed.         *)
THEOREM PortsAreDistinct == Spec => []PortsDistinct
<1>1. IInv => PortsDistinct
  BY DEF IInv, PortInv
<1> QED BY <1>1, Invariance, PTL

-----------------------------------------------------------------------------
(* The pool implements BlockService                                        *)

Status == [r \in Requests |->
  CASE stage[r] = "new" -> "new"
    [] stage[r] \in {"queued", "creating", "starting"} -> "waiting"
    [] stage[r] \in {"running", "delayed", "failed"} -> "inside"
    [] OTHER -> "over"]
Taking == {c \in Requests : docker[c] = "up" /\ c \notin Leaving \cup abandoned}

LEMMA StatusIs ==
  ASSUME NEW r \in Requests
  PROVE  /\ stage[r] = "new" => Status[r] = "new"
         /\ stage[r] \in {"queued", "creating", "starting"} => Status[r] = "waiting"
         /\ stage[r] \in {"running", "delayed", "failed"} => Status[r] = "inside"
         /\ stage[r] = "done" => Status[r] = "over"
BY DEF Status

LEMMA StatusMoves ==
  ASSUME TypeInv, NEW r \in Requests, NEW s \in Stages,
         stage' = [stage EXCEPT ![r] = s]
  PROVE  /\ s \in {"queued", "creating", "starting"} => Status' = [Status EXCEPT ![r] = "waiting"]
         /\ s \in {"running", "delayed", "failed"} => Status' = [Status EXCEPT ![r] = "inside"]
         /\ s = "done" => Status' = [Status EXCEPT ![r] = "over"]
<1>1. stage'[r] = s /\ \A x \in Requests \ {r} : stage'[x] = stage[x]
  BY StageStep
<1>2. \A x \in Requests \ {r} : Status'[x] = Status[x]
  BY <1>1 DEF Status
<1>3. /\ s \in {"queued", "creating", "starting"} => Status'[r] = "waiting"
      /\ s \in {"running", "delayed", "failed"} => Status'[r] = "inside"
      /\ s = "done" => Status'[r] = "over"
  BY <1>1 DEF Status
<1>4. /\ Status = [x \in Requests |-> Status[x]]
      /\ Status' = [x \in Requests |-> Status'[x]]
  BY DEF Status
<1> QED BY <1>2, <1>3, <1>4

(* A step that moves a request between stages of one status.               *)
LEMMA StatusStays ==
  ASSUME TypeInv, NEW r \in Requests, NEW s \in Stages,
         stage' = [stage EXCEPT ![r] = s],
         \/ {stage[r], s} \subseteq {"queued", "creating", "starting"}
         \/ {stage[r], s} \subseteq {"running", "delayed", "failed"}
  PROVE  Status' = Status
<1>1. stage'[r] = s /\ \A x \in Requests \ {r} : stage'[x] = stage[x]
  BY StageStep
<1>2. ASSUME NEW x \in Requests PROVE Status'[x] = Status[x]
  <2>1. CASE x = r
    BY <1>1, <2>1 DEF Status
  <2>2. CASE x # r
    BY <1>1, <2>2 DEF Status
  <2> QED BY <2>1, <2>2
<1>3. /\ Status = [x \in Requests |-> Status[x]]
      /\ Status' = [x \in Requests |-> Status'[x]]
  BY DEF Status
<1> QED BY <1>2, <1>3

LEMMA ServiceVars == Service!vars = <<Status, on, Taking>>
BY DEF Service!vars, Status, Taking

(* The instance brings its own copy of the operator.                       *)
LEMMA SameCardinality ==
  ASSUME NEW S PROVE Service!Cardinality(S) = Cardinality(S)
BY DEF Service!Cardinality, Cardinality

LEMMA ServiceInside ==
  ASSUME NEW c PROVE Service!Inside(c) = Holders(c)
<1>1. \A r \in Requests : Status[r] = "inside" <=> stage[r] \in {"running", "delayed", "failed"}
  BY DEF Status
<1>2. Service!Inside(c) = {r \in Requests : on[r] = c /\ Status[r] = "inside"}
  BY DEF Service!Inside, Status
<1> QED BY <1>1, <1>2 DEF Holders

LEMMA InitService == Init => Service!Init
BY DEF Init, Service!Init, Leaving

LEMMA HandOverService ==
  ASSUME NEW r \in Requests, Status[r] = "new",
         Status' = [Status EXCEPT ![r] = "waiting"], UNCHANGED <<on, Taking>>
  PROVE  Service!Next
<1>1. Service!HandOver(r)
  BY DEF Service!HandOver, Status, Taking
<1> QED BY <1>1 DEF Service!Next

LEMMA LeaveService ==
  ASSUME NEW r \in Requests, Status[r] = "inside",
         Status' = [Status EXCEPT ![r] = "over"], UNCHANGED <<on, Taking>>
  PROVE  Service!Next
<1>1. Service!Leave(r)
  BY DEF Service!Leave, Status, Taking
<1> QED BY <1>1 DEF Service!Next

LEMMA EnterService ==
  ASSUME NEW r \in Requests, NEW c \in Taking, Status[r] = "waiting",
         TemplateOf[c] = TemplateOf[r], Cardinality(Holders(c)) < Limit(c),
         Status' = [Status EXCEPT ![r] = "inside"], on' = [on EXCEPT ![r] = c],
         UNCHANGED Taking
  PROVE  Service!Next
<1>1. Cardinality(Service!Inside(c)) < ParallelLimit[TemplateOf[c]]
  BY ServiceInside DEF Limit
<1>2. c \in Requests
  BY DEF Taking
<1>3. Service!Enter(r, c)
  <2>1. Service!Enter(r, c) <=>
          /\ Status[r] = "waiting"
          /\ c \in Taking /\ TemplateOf[c] = TemplateOf[r]
          /\ Cardinality(Service!Inside(c)) < ParallelLimit[TemplateOf[c]]
          /\ Status' = [Status EXCEPT ![r] = "inside"]
          /\ on' = [on EXCEPT ![r] = c]
          /\ UNCHANGED Taking
    BY SameCardinality, Zenon DEF Service!Enter, Status, Taking
  <2> QED BY <1>1, <2>1
<1> QED BY <1>2, <1>3 DEF Service!Next

LEMMA OpenService ==
  ASSUME NEW c \in Requests, c \notin Taking,
         Cardinality({d \in Taking : TemplateOf[d] = TemplateOf[c]})
           < MaxContainers[TemplateOf[c]] + 1,
         Taking' = Taking \cup {c}, UNCHANGED <<Status, on>>
  PROVE  Service!Next
<1>1. Service!Open(c)
  <2> DEFINE B == [t \in Templates |-> MaxContainers[t] + 1]
  <2>1. Service!Open(c) <=>
          /\ c \notin Taking
          /\ Cardinality({d \in Taking : TemplateOf[d] = TemplateOf[c]}) < B[TemplateOf[c]]
          /\ Taking' = Taking \cup {c}
          /\ UNCHANGED <<Status, on>>
    BY SameCardinality, Zenon DEF Service!Open, Status, Taking
  <2>2. B[TemplateOf[c]] = MaxContainers[TemplateOf[c]] + 1
    BY TemplateType
  <2> HIDE DEF B
  <2> QED BY <2>1, <2>2
<1> QED BY <1>1 DEF Service!Next

LEMMA CloseService ==
  ASSUME NEW C, C \subseteq Taking, \A c \in C : Holders(c) = {},
         Taking' = Taking \ C, UNCHANGED <<Status, on>>
  PROVE  Service!Next
<1>1. \A c \in C : Service!Inside(c) = {}
  BY ServiceInside
<1>2. Service!Close(C)
  BY <1>1 DEF Service!Close, Status, Taking
<1> QED BY <1>2 DEF Service!Next, Taking

LEMMA TakingSame ==
  ASSUME UNCHANGED <<docker, removing, abandoned>> PROVE Taking' = Taking
BY OutsideSame DEF Taking

LEMMA AllocateBlockService ==
  ASSUME IInv, NEW r \in Requests, AllocateBlock(r)
  PROVE  Service!Next
<1>1. /\ stage[r] = "new" /\ stage' = [stage EXCEPT ![r] = "queued"]
      /\ UNCHANGED <<on, docker, removing, abandoned>>
  BY DEF AllocateBlock, containerVars, cleanVars
<1>2. Status[r] = "new" /\ Status' = [Status EXCEPT ![r] = "waiting"]
  BY <1>1, StatusIs, StatusMoves DEF IInv, Stages
<1> QED BY <1>1, <1>2, TakingSame, HandOverService

(* A container with a free slot has fewer requests inside than slots.      *)
LEMMA FreeSlot ==
  ASSUME IInv, NEW c \in Requests, docker[c] = "up", cnt[c] > 0
  PROVE  Cardinality(Holders(c)) < Limit(c)
<1>1. cnt[c] \in Int /\ Cardinality(Holders(c)) \in Nat /\ Limit(c) \in Nat
  BY HoldersFinite, LimitType DEF IInv, TypeInv
<1>2. cnt[c] + Cardinality(Holders(c)) = Limit(c)
  BY DEF IInv, SlotInv, SlotAccounting, Limit
<1> QED BY <1>1, <1>2

LEMMA GetIdleService ==
  ASSUME IInv, NEW u \in Templates, GetIdle(u)
  PROVE  Service!Next
<1> DEFINE r == Head(queue[u])
           c == Last(idle[u])
<1>1. /\ queue[u] # <<>> /\ idle[u] # <<>> /\ StartRun(r, c)
      /\ on' = [on EXCEPT ![r] = c] /\ UNCHANGED <<docker, removing, abandoned>>
  BY DEF GetIdle, cleanVars
<1>2. PICK s \in {"running", "failed"} : stage' = [stage EXCEPT ![r] = s]
  BY <1>1 DEF StartRun
<1>3. r \in Requests /\ TemplateOf[r] = u /\ stage[r] = "queued"
  <2>1. queue[u] \in Seq(Requests)
    BY DEF IInv, TypeInv
  <2>2. r \in Requests /\ r \in Range(queue[u])
    BY <1>1, <2>1, TailLists
  <2> QED BY <2>2 DEF IInv, QueueInv
<1>4. c \in Requests /\ c \in Range(idle[u])
  <2>1. idle[u] \in Seq(Requests) /\ IsInjective(idle[u])
    BY DEF IInv, TypeInv, IdleInv, IdleExact
  <2>2. c \in Requests /\ Range(idle[u]) = Range(Front(idle[u])) \cup {c}
    BY <1>1, <2>1, FrontLists
  <2> HIDE DEF c
  <2> QED BY <2>2
<1> HIDE DEF r, c
<1>5. /\ TemplateOf[c] = u /\ docker[c] = "up" /\ cnt[c] > 0 /\ c \in Taking
  BY <1>4 DEF IInv, IdleInv, IdleExact, Containers, Taking
<1>6. Cardinality(Holders(c)) < Limit(c)
  BY <1>4, <1>5, FreeSlot
<1>7. Status[r] = "waiting" /\ Status' = [Status EXCEPT ![r] = "inside"]
  BY <1>2, <1>3, StatusIs, StatusMoves DEF IInv, Stages
<1> QED BY <1>1, <1>3, <1>5, <1>6, <1>7, TakingSame, EnterService

LEMMA WaitStartService ==
  ASSUME IInv, NEW r \in Requests, WaitStart(r)
  PROVE  Service!Next
<1>1. /\ stage[r] = "starting" /\ StartRun(r, r)
      /\ on' = [on EXCEPT ![r] = r] /\ UNCHANGED <<docker, removing, abandoned>>
  BY DEF WaitStart, cleanVars
<1>2. PICK s \in {"running", "failed"} : stage' = [stage EXCEPT ![r] = s]
  BY <1>1 DEF StartRun
<1>3. docker[r] = "up" /\ r \in Taking
  BY <1>1 DEF IInv, StageInv, Outside, Taking
<1>4. Cardinality(Holders(r)) < Limit(r)
  <2>1. Cardinality(Holders(r)) = 0
    BY <1>1, StartingEmpty, FS_EmptySet DEF IInv
  <2> QED BY <2>1, LimitType
<1>5. Status[r] = "waiting" /\ Status' = [Status EXCEPT ![r] = "inside"]
  BY <1>1, <1>2, StatusIs, StatusMoves DEF IInv, Stages
<1> QED BY <1>1, <1>3, <1>4, <1>5, TakingSame, EnterService

(* The container that docker has started was counted while it was created. *)
LEMMA ContainerRunService ==
  ASSUME IInv, NEW r \in Requests, ContainerRun(r)
  PROVE  Service!Next
<1> DEFINE u == TemplateOf[r]
           D == {d \in Taking : TemplateOf[d] = u}
<1>1. /\ stage[r] = "creating" /\ stage' = [stage EXCEPT ![r] = "starting"]
      /\ docker' = [docker EXCEPT ![r] = "up"]
      /\ UNCHANGED <<on, removing, abandoned>>
  BY DEF ContainerRun, cleanVars
<1>2. docker[r] = "creating" /\ r \notin Outside
  BY <1>1 DEF IInv, StageInv, LeavingInv
<1>3. r \notin Taking
  BY <1>2 DEF Taking
<1>4. Taking' = Taking \cup {r}
  <2>1. Leaving' = Leaving
    BY <1>1, OutsideSame
  <2>2. docker'[r] = "up" /\ \A x \in Requests \ {r} : docker'[x] = docker[x]
    BY <1>1 DEF IInv, TypeInv
  <2> QED BY <1>1, <1>2, <2>1, <2>2 DEF Taking, Outside
<1>5. u \in Templates
  BY TemplateType
<1>6. D \in SUBSET (Counted(u) \ {r}) /\ r \in Counted(u)
  BY <1>2 DEF Counted, Containers, Taking, Outside
<1> HIDE DEF u, D
<1>7. IsFiniteSet(Counted(u)) /\ Cardinality(Counted(u)) \in Nat
  BY <1>5, CountedFinite DEF IInv
<1>8. /\ IsFiniteSet(Counted(u) \ {r})
      /\ Cardinality(Counted(u) \ {r}) = Cardinality(Counted(u)) - 1
  BY <1>6, <1>7, FS_RemoveElement
<1>9. Cardinality(D) <= Cardinality(Counted(u)) - 1 /\ Cardinality(D) \in Nat
  BY <1>6, <1>8, FS_Subset, FS_CardinalityType
<1>10. Cardinality(Counted(u)) <= MaxContainers[u] + 1 /\ MaxContainers[u] \in Nat
  BY <1>5, LimitsAssumption DEF IInv, NumInv, NumExecExact, Counted, Outside
<1>11. Cardinality(D) < MaxContainers[u] + 1
  BY <1>7, <1>9, <1>10
<1>12. Status' = Status
  BY <1>1, StatusStays DEF IInv, Stages
<1> QED BY <1>1, <1>3, <1>4, <1>11, <1>12, OpenService DEF u, D

LEMMA DoneService ==
  ASSUME IInv, NEW r \in Requests, stage[r] \in {"running", "delayed"},
         stage' = [stage EXCEPT ![r] = "done"],
         UNCHANGED <<on, docker, removing, abandoned>>
  PROVE  Service!Next
<1>1. Status[r] = "inside" /\ Status' = [Status EXCEPT ![r] = "over"]
  BY StatusIs, StatusMoves DEF IInv, Stages
<1> QED BY <1>1, TakingSame, LeaveService

LEMMA RegularCleanService ==
  ASSUME IInv, NEW t \in Templates, RegularClean(t)
  PROVE  Service!Next \/ UNCHANGED <<Status, on, Taking>>
<1>1. Outdated(t) # {} /\ UNCHANGED <<stage, on, docker, abandoned>>
  BY DEF RegularClean, requestVars, containerVars
<1>2. Status' = Status
  BY <1>1 DEF Status
<1>3. CASE ~AssertionHolds(t)
  BY <1>1, <1>2, <1>3, TakingSame DEF RegularClean
<1>4. CASE AssertionHolds(t)
  <2> DEFINE a == SubSeq(idle[t], 1, Cardinality(Outdated(t)))
             A == Range(a)
  <2>1. removing' = removing \cup {a}
    BY <1>4 DEF RegularClean
  <2>2. /\ a \in Seq(Requests)
        /\ \A c \in A : docker[c] = "up" /\ cnt[c] = Limit(c) /\ c \notin Outside
    BY <1>1, <1>4, CleanTakes
  <2> HIDE DEF a
  <2>3. A \subseteq Requests
    BY <2>2, RangeInSet
  <2>4. Leaving' = Leaving \cup A
    BY <2>1 DEF Leaving
  <2> HIDE DEF A
  <2>5. A \subseteq Taking
    BY <2>2, <2>3 DEF Taking, Outside
  <2>6. Taking' = Taking \ A
    BY <1>1, <2>4 DEF Taking
  <2>7. \A c \in A : Holders(c) = {}
    BY <2>2, <2>3, AllFreeEmpty
  <2> QED BY <1>1, <1>2, <2>5, <2>6, <2>7, CloseService
<1> QED BY <1>3, <1>4

(* What regular_clean has taken is already closed when it is removed.      *)
LEMMA RemovalService ==
  ASSUME IInv, NEW s \in removing, RemoveContainer(s) \/ RemoveFails(s)
  PROVE  UNCHANGED <<Status, on, Taking>>
<1>1. UNCHANGED <<stage, on>>
  BY DEF RemoveContainer, RemoveFails, requestVars
<1>2. Status' = Status
  BY <1>1 DEF Status
<1>3. IInv'
  BY RemoveContainerPreserves, RemoveFailsPreserves
<1>4. Leaving \cup abandoned = Outside /\ (Leaving \cup abandoned)' = Outside'
  BY DEF Outside
<1>5. CASE RemoveFails(s)
  <2>1. docker' = docker
    BY <1>5 DEF RemoveFails, containerVars
  <2>2. Outside' = Outside
    <3>1. Leaving' = Leaving \ Range(s)
      <4>1. UNION {Range(v) : v \in removing \ {s}} = Leaving \ Range(s)
        BY WithoutList DEF IInv
      <4>2. removing' = removing \ {s}
        BY <1>5 DEF RemoveFails
      <4> QED BY <4>1, <4>2 DEF Leaving
    <3>2. Range(s) \subseteq Leaving /\ abandoned' = abandoned \cup Range(s)
      BY <1>5 DEF RemoveFails, Leaving
    <3> QED BY <3>1, <3>2 DEF Outside
  <2> QED BY <1>1, <1>2, <1>4, <2>1, <2>2 DEF Taking
<1>6. CASE RemoveContainer(s)
  <2>1. docker' = [docker EXCEPT ![Head(s)] = "gone"] /\ abandoned' = abandoned
    BY <1>6 DEF RemoveContainer
  <2>2. PICK h \in Requests : h = Head(s) /\ h \in Range(s)
    BY TailLists DEF IInv, TypeInv, LeavingInv
  <2>3. Leaving' = Leaving \ {h} /\ h \in Leaving
    BY <1>6, <2>2, ListShrinks DEF Leaving
  <2>4. docker'[h] = "gone" /\ \A x \in Requests \ {h} : docker'[x] = docker[x]
    BY <2>1, <2>2 DEF IInv, TypeInv
  <2>5. Taking' = Taking
    BY <2>1, <2>3, <2>4 DEF Taking
  <2> QED BY <1>1, <1>2, <2>5
<1> QED BY <1>5, <1>6

(* Every step of the pool is a step of BlockService, or a stutter.         *)
LEMMA StepService ==
  ASSUME IInv, [Next]_vars
  PROVE  [Service!Next]_<<Status, on, Taking>>
<1>1. ASSUME NEW r \in Requests, AllocateBlock(r) PROVE Service!Next
  BY <1>1, AllocateBlockService
<1>2. ASSUME NEW r \in Requests, CreateFails(r) PROVE UNCHANGED <<Status, on, Taking>>
  <2>1. /\ stage[r] = "creating" /\ stage' = [stage EXCEPT ![r] = "queued"]
        /\ docker' = [docker EXCEPT ![r] = "none"]
        /\ UNCHANGED <<on, removing, abandoned>>
    BY <1>2 DEF CreateFails, cleanVars
  <2>2. Status' = Status
    BY <2>1, StatusStays DEF IInv, Stages
  <2>3. docker[r] = "creating"
    BY <2>1 DEF IInv, StageInv
  <2>4. docker'[r] = "none" /\ \A x \in Requests \ {r} : docker'[x] = docker[x]
    BY <2>1 DEF IInv, TypeInv
  <2>5. Taking' = Taking
    BY <2>1, <2>3, <2>4, OutsideSame DEF Taking
  <2> QED BY <2>1, <2>2, <2>5
<1>3. ASSUME NEW r \in Requests, RunFails(r) PROVE UNCHANGED <<Status, on, Taking>>
  <2>1. /\ stage[r] = "running" /\ stage' = [stage EXCEPT ![r] = "failed"]
        /\ UNCHANGED <<on, docker, removing, abandoned>>
    BY <1>3 DEF RunFails, cleanVars, containerVars
  <2> QED BY <2>1, StatusStays, TakingSame DEF IInv, Stages
<1>4. ASSUME NEW r \in Requests, RunReturns(r)
      PROVE  Service!Next \/ UNCHANGED <<Status, on, Taking>>
  <2>1. stage[r] = "running" /\ UNCHANGED <<on, docker, removing, abandoned>>
    BY <1>4 DEF RunReturns, cleanVars
  <2>2. CASE stage' = [stage EXCEPT ![r] = "delayed"]
    BY <2>1, <2>2, StatusStays, TakingSame DEF IInv, Stages
  <2>3. CASE stage' = [stage EXCEPT ![r] = "done"]
    BY <2>1, <2>3, DoneService
  <2> QED BY <1>4, <2>2, <2>3 DEF RunReturns
<1>5. ASSUME NEW r \in Requests, DelayedPut(r) PROVE Service!Next
  BY <1>5, DoneService DEF DelayedPut, cleanVars
<1>6. ASSUME NEW r \in Requests, ContainerRun(r) \/ WaitStart(r) PROVE Service!Next
  BY <1>6, ContainerRunService, WaitStartService
<1>7. ASSUME NEW t \in Templates, GetIdle(t) PROVE Service!Next
  BY <1>7, GetIdleService
<1>8. ASSUME NEW t \in Templates, StartCreate(t) PROVE UNCHANGED <<Status, on, Taking>>
  <2> DEFINE r == Head(queue[t])
  <2>1. /\ queue[t] # <<>> /\ stage' = [stage EXCEPT ![r] = "creating"]
        /\ docker' = [docker EXCEPT ![r] = "creating"]
        /\ queue' = [queue EXCEPT ![t] = Tail(@)]
        /\ UNCHANGED <<on, removing, abandoned>>
    BY <1>8 DEF StartCreate, cleanVars
  <2>2. r \in Requests /\ stage[r] = "queued"
    BY <2>1, QueueTaken DEF IInv, Stages
  <2> HIDE DEF r
  <2>3. Status' = Status
    BY <2>1, <2>2, StatusStays DEF IInv, Stages
  <2>4. docker[r] = "none"
    BY <2>2 DEF IInv, StageInv
  <2>5. docker'[r] = "creating" /\ \A x \in Requests \ {r} : docker'[x] = docker[x]
    BY <2>1, <2>2 DEF IInv, TypeInv
  <2>6. Taking' = Taking
    BY <2>1, <2>4, <2>5, OutsideSame DEF Taking
  <2> QED BY <2>1, <2>3, <2>6
<1>9. ASSUME NEW t \in Templates, DispatchFailed(t) PROVE UNCHANGED <<Status, on, Taking>>
  BY <1>9, TakingSame DEF DispatchFailed, containerVars, cleanVars, Status
<1>10. ASSUME NEW t \in Templates, RegularClean(t)
       PROVE  Service!Next \/ UNCHANGED <<Status, on, Taking>>
  BY <1>10, RegularCleanService
<1>11. ASSUME NEW s \in removing, RemoveContainer(s) \/ RemoveFails(s)
       PROVE  UNCHANGED <<Status, on, Taking>>
  BY <1>11, RemovalService
<1>12. CASE Age \/ UNCHANGED vars
  BY <1>12, TakingSame DEF Age, vars, requestVars, containerVars, cleanVars, Status
<1> QED BY <1>1, <1>2, <1>3, <1>4, <1>5, <1>6, <1>7, <1>8, <1>9, <1>10, <1>11, <1>12
        DEF Next, Serve, DispatchRequest

(* The pool implements BlockService: no request enters a container that is *)
(* full or that regular_clean has taken, none is closed with one inside,   *)
(* and the number of containers is bounded.                                *)
THEOREM Implementation == Spec => ImplementsService
<1>1. Init => Service!Init
  BY InitService
<1>2. IInv /\ [Next]_vars => [Service!Next]_<<Status, on, Taking>>
  BY StepService
<1>3. Spec => Service!Spec
  BY <1>1, <1>2, Invariance, PTL DEF Spec, Service!Spec, Service!vars, Status, Taking
<1> QED
  BY <1>3 DEF ImplementsService
=============================================================================
