--------------------------- MODULE WorkerSPProofs ---------------------------
(***************************************************************************)
(* WorkerSP for any requests, workflow, placement and faults: what waits   *)
(* anywhere has its type, and no instance of a block is triggered twice.   *)
(***************************************************************************)
EXTENDS WorkerSP, FiniteSetTheorems, WellFoundedInduction, NaturalsInduction, TLAPS

-----------------------------------------------------------------------------
(* What waits anywhere has its type                                        *)

Data == {d \in [req : Requests, out : Outs, serial : Nat, val : Nat,
                kind : {"direct", "redis", "kafka"}, fromLocal : BOOLEAN] :
           /\ d.out \in CntOuts => d.val > 0
           /\ ByReference(d) => d.out \in Big \ Range(GlobalInputs)}

(* A datum of request q that goes to input i of block b, and the inputs b  *)
(* has got so far.                                                         *)
IsInput(q, b, i, d) ==
  d \in Data /\ d.req = q /\ \E x \in Range(Dest[d.out]) : x.block = b /\ x.input = i
IsList(q, b, i, l) ==
  IsFiniteSet(DOMAIN l) /\ \A n \in DOMAIN l : IsInput(q, b, i, l[n]) /\ l[n].serial = n
IsInputs(q, b, ins) ==
  /\ DOMAIN ins \subseteq DOMAIN Inputs[b]
  /\ \A i \in DOMAIN ins :
       IF Inputs[b][i] = "LIST" THEN IsList(q, b, i, ins[i]) ELSE IsInput(q, b, i, ins[i])

IsMessage(m) ==
  /\ m.to \in Hosts
  /\ m.datas \in Seq(Data) /\ m.datas # <<>>
  /\ \A i \in 1..Len(m.datas) : m.datas[i].req = m.datas[1].req

(* What waits on host h is of a request that h knows.                      *)
IsInbox(h, s) ==
  /\ s \in Seq(Range(s))
  /\ \A i \in 1..Len(s) : s[i].req \in known[h] /\ (s[i].kind # "fetched" => s[i] \in Data)

IsGreenlet(h, g) ==
  /\ DOMAIN g = {"data", "sent", "call", "dests"}
  /\ g.data \in Data /\ g.data.req \in known[h] /\ g.sent \subseteq Hosts
  /\ g.dests \in Seq(Range(Dest[g.data.out]))
  /\ \A i \in 1..Len(g.dests) : WorkFor(h, g.data, g.dests[i])

IsCall(h, q, c) == c.block \in Blocks /\ Home[c.block] = h /\ IsInputs(q, c.block, c.inputs)

IsRun(r) ==
  /\ DOMAIN r = {"req", "block", "serial", "nth", "inputs", "state",
                 "reads", "posts", "posted", "uploads"}
  /\ r.block \in Blocks /\ r.req \in known[Home[r.block]]
  /\ r.serial \in Nat \cup {NoSerial} /\ IsInputs(r.req, r.block, r.inputs)
  /\ r.state \in {"queued", "started", "failed", "crashed"}
  /\ r.posts \in Seq(Outs) /\ r.posts \in Seq(Outputs(r.block)) /\ r.posted \in Seq(Outs)
  /\ r.uploads \in Seq(Data) /\ \A i \in 1..Len(r.uploads) : r.uploads[i].req = r.req

GatewayInv ==
  /\ phase \in [Requests -> {"idle", "info", "inputs", "done"}]
  /\ result \in [Requests -> BOOLEAN]
  /\ infoNet \subseteq Hosts \X Requests /\ userNet \subseteq Requests
NetInv == \A m \in dataNet : IsMessage(m)
InboxInv ==
  /\ known \in [Hosts -> SUBSET Requests]
  /\ serving = [h \in Hosts |-> TRUE]
  /\ backlog = [h \in Hosts |-> backlog[h]] /\ queue = [h \in Hosts |-> queue[h]]
  /\ \A h \in Hosts : IsInbox(h, backlog[h]) /\ IsInbox(h, queue[h])
GreenInv ==
  /\ running = [h \in Hosts |-> running[h]] /\ parked = [h \in Hosts |-> parked[h]]
  /\ \A h \in Hosts : running[h] # <<>> =>
       /\ running[h] = <<running[h][1]>> /\ IsGreenlet(h, running[h][1])
       /\ running[h][1].dests # <<>> /\ running[h][1].call = <<>>
  /\ \A h \in Hosts : \A g \in parked[h] :
       /\ IsGreenlet(h, g)
       /\ IF g.call = <<>> THEN g.dests # <<>> ELSE IsCall(h, g.data.req, g.call[1])
StateInv ==
  /\ DOMAIN inputDatas = Requests /\ \A q \in Requests : DOMAIN inputDatas[q] = Blocks
  /\ \A q \in Requests, b \in Blocks : IsInputs(q, b, inputDatas[q][b])
  /\ inputCnt \in [Requests -> [Blocks -> Nat]]
RunInv == \A r \in runs : IsRun(r)

Inv == GatewayInv /\ NetInv /\ InboxInv /\ GreenInv /\ StateInv /\ RunInv

-----------------------------------------------------------------------------
(* Lists                                                                   *)

(* A set of naturals has a least element.                                  *)
LEMMA Least ==
  ASSUME NEW T \in SUBSET Nat, T # {}
  PROVE  \E n \in T : \A m \in T : n <= m
<1> DEFINE R == {ss \in Nat \X Nat : ss[1] < ss[2]}
<1>1. OpToRel(<, Nat) = R
  BY Zenon DEF OpToRel
<1>2. IsWellFoundedOn(R, Nat)
  BY <1>1, NatLessThanWellFounded, Zenon
<1> HIDE DEF R
<1>3. PICK n \in T : \A m \in T : <<m, n>> \notin R
  BY <1>2, WFMin, Zenon
<1>4. ASSUME NEW m \in T PROVE n <= m
  <2>1. n \in Nat /\ m \in Nat
    BY <1>3
  <2>2. ~(m < n)
    <3>1. ASSUME m < n PROVE <<m, n>> \in R
      BY <2>1, <3>1 DEF R
    <3> QED BY <3>1, <1>3
  <2> QED BY <2>1, <2>2
<1> QED BY <1>3, <1>4

(* Subsequence by its prefixes.                                            *)
UpTo(s, P, n, f) ==
  f = [m \in 0..n |-> IF m = 0 THEN <<>>
                      ELSE IF m \in P THEN Append(f[m - 1], s[m]) ELSE f[m - 1]]

LEMMA PrefixesExist ==
  ASSUME NEW s, NEW P, NEW k \in Nat
  PROVE  \E f : UpTo(s, P, k, f)
<1> DEFINE Bad == {n \in Nat : ~\E f : UpTo(s, P, n, f)}
<1> SUFFICES ASSUME Bad # {} PROVE FALSE
  OBVIOUS
<1>1. PICK n \in Bad : \A m \in Bad : n <= m
  BY Least
<1>2. n # 0
  <2> DEFINE f == [m \in 0..0 |-> <<>>]
  <2>1. UpTo(s, P, 0, f)
    BY DEF UpTo
  <2> QED BY <2>1
<1>3. n - 1 \in Nat /\ n - 1 \notin Bad
  BY <1>1, <1>2
<1>4. PICK f : UpTo(s, P, n - 1, f)
  BY <1>3
<1> DEFINE g == [m \in 0..n |-> IF m < n THEN f[m]
                                ELSE IF m \in P THEN Append(f[m - 1], s[m]) ELSE f[m - 1]]
<1>5. UpTo(s, P, n, g)
  <2> DEFINE v(m) == IF m = 0 THEN <<>>
                      ELSE IF m \in P THEN Append(g[m - 1], s[m]) ELSE g[m - 1]
  <2>1. ASSUME NEW m \in 0..n PROVE g[m] = v(m)
    <3>1. CASE m = n
      BY <3>1, <1>2
    <3>2. CASE m < n
      <4>1. m \in 0..(n - 1) /\ g[m] = f[m]
        BY <3>2
      <4>2. CASE m = 0
        BY <4>1, <4>2, <1>4 DEF UpTo
      <4>3. CASE m # 0
        <5>1. m - 1 \in 0..n /\ m - 1 < n
          BY <4>3
        <5>2. g[m - 1] = f[m - 1]
          BY <5>1
        <5>3. f[m] = IF m \in P THEN Append(f[m - 1], s[m]) ELSE f[m - 1]
          BY <4>1, <4>3, <1>4 DEF UpTo
        <5> QED BY <4>1, <4>3, <5>2, <5>3
      <4> QED BY <4>2, <4>3
    <3> QED BY <3>1, <3>2
  <2>2. g = [m \in 0..n |-> v(m)]
    BY <2>1
  <2> QED BY <2>2 DEF UpTo
<1> QED BY <1>5, <1>1

(* What it has: the chosen elements of s, each once if they are distinct.  *)
LEMMA SubsequenceIs ==
  ASSUME NEW S, NEW s \in Seq(S), NEW P
  PROVE  /\ Subsequence(s, P) \in Seq({s[i] : i \in P \cap (1..Len(s))})
         /\ Range(Subsequence(s, P)) = {s[i] : i \in P \cap (1..Len(s))}
         /\ (\A i, j \in P \cap (1..Len(s)) : s[i] = s[j] => i = j) => IsInjective(Subsequence(s, P))
<1> DEFINE f == CHOOSE f : UpTo(s, P, Len(s), f)
           R(n) == {s[i] : i \in P \cap (1..n)}
           Distinct == \A i, j \in P \cap (1..Len(s)) : s[i] = s[j] => i = j
           Good(n) == /\ f[n] \in Seq(R(n)) /\ Range(f[n]) = R(n)
                      /\ Distinct => IsInjective(f[n])
           Bad == {n \in 0..Len(s) : ~Good(n)}
<1>1. Subsequence(s, P) = f[Len(s)]
  BY DEF Subsequence, UpTo
<1>2. UpTo(s, P, Len(s), f)
  BY PrefixesExist
<1> HIDE DEF f
<1>3. Good(0)
  <2>1. f[0] = <<>>
    BY <1>2 DEF UpTo
  <2> QED BY <2>1 DEF Range, IsInjective
<1>4. ASSUME NEW n \in 1..Len(s), Good(n - 1) PROVE Good(n)
  <2>1. f[n] = IF n \in P THEN Append(f[n - 1], s[n]) ELSE f[n - 1]
    <3>1. n \in 0..Len(s) /\ n # 0
      OBVIOUS
    <3> QED BY <1>2, <3>1, Zenon DEF UpTo
  <2>2. CASE n \notin P
    <3>1. R(n) = R(n - 1)
      BY <2>2
    <3> QED BY <2>1, <2>2, <3>1, <1>4
  <2>3. CASE n \in P
    <3> DEFINE t == f[n - 1]
    <3>1. R(n) = R(n - 1) \cup {s[n]}
      BY <2>3
    <3>2. t \in Seq(R(n - 1)) /\ Range(t) = R(n - 1) /\ (Distinct => IsInjective(t))
      BY <1>4
    <3>3. f[n] = Append(t, s[n])
      BY <2>1, <2>3
    <3>4. Distinct => s[n] \notin R(n - 1)
      <4> SUFFICES ASSUME Distinct, NEW i \in P \cap (1..(n - 1)), s[i] = s[n] PROVE FALSE
        OBVIOUS
      <4>1. i \in P \cap (1..Len(s)) /\ n \in P \cap (1..Len(s)) /\ i # n
        BY <2>3
      <4> QED BY <4>1
    <3> HIDE DEF t, R, Distinct
    <3>5. f[n] \in Seq(R(n))
      BY <3>1, <3>2, <3>3
    <3>6. Len(t) \in Nat /\ DOMAIN t = 1..Len(t) /\ DOMAIN f[n] = 1..(Len(t) + 1)
          /\ f[n][Len(t) + 1] = s[n] /\ \A i \in 1..Len(t) : f[n][i] = t[i]
      BY <3>1, <3>2, <3>3
    <3>7. Range(f[n]) = R(n)
      <4>1. Range(f[n]) \subseteq Range(t) \cup {s[n]}
        BY <3>6 DEF Range
      <4>2. Range(t) \subseteq Range(f[n])
        BY <3>6 DEF Range
      <4>3. s[n] \in Range(f[n])
        BY <3>6 DEF Range
      <4> QED BY <4>1, <4>2, <4>3, <3>1, <3>2
    <3>8. ASSUME Distinct PROVE IsInjective(f[n])
      <4>1. ASSUME NEW i \in DOMAIN f[n], NEW j \in DOMAIN f[n], f[n][i] = f[n][j] PROVE i = j
        <5>1. IsInjective(t) /\ s[n] \notin Range(t)
          BY <3>2, <3>4, <3>8
        <5> QED BY <5>1, <4>1, <3>6 DEF IsInjective, Range
      <4> QED BY <4>1 DEF IsInjective
    <3> QED BY <3>5, <3>7, <3>8
  <2> QED BY <2>2, <2>3
<1> HIDE DEF Good, R
<1>5. Bad = {}
  <2> SUFFICES ASSUME Bad # {} PROVE FALSE
    OBVIOUS
  <2>0. Bad \in SUBSET Nat
    OBVIOUS
  <2>1. PICK n \in Bad : \A m \in Bad : n <= m
    BY <2>0, Least
  <2>2. n \in 1..Len(s)
    BY <2>1, <1>3
  <2>3. n - 1 \in 0..Len(s) /\ n - 1 \notin Bad
    BY <2>1, <2>2
  <2> QED BY <2>1, <2>2, <2>3, <1>4
<1>6. Good(Len(s))
  BY <1>5
<1> QED BY <1>1, <1>6 DEF Good, R, Distinct

LEMMA AppendIs ==
  ASSUME NEW s, s \in Seq(Range(s)), NEW d
  PROVE  /\ Append(s, d) \in Seq(Range(Append(s, d)))
         /\ Len(Append(s, d)) = Len(s) + 1 /\ Append(s, d)[Len(s) + 1] = d
         /\ \A i \in 1..Len(s) : Append(s, d)[i] = s[i]
<1> DEFINE a == Append(s, d)
<1>1. s \in Seq(Range(s) \cup {d})
  OBVIOUS
<1>2. a \in Seq(Range(s) \cup {d}) /\ Len(a) = Len(s) + 1 /\ a[Len(s) + 1] = d
      /\ \A i \in 1..Len(s) : a[i] = s[i]
  BY <1>1
<1> HIDE DEF a
<1>3. \A i \in 1..Len(a) : a[i] \in Range(a)
  BY <1>2 DEF Range
<1>4. a \in Seq(Range(a))
  BY <1>2, <1>3
<1> QED BY <1>2, <1>4 DEF a

LEMMA TailIs ==
  ASSUME NEW s, s \in Seq(Range(s)), s # <<>>
  PROVE  /\ Tail(s) \in Seq(Range(Tail(s)))
         /\ Len(Tail(s)) = Len(s) - 1 /\ Len(s) >= 1 /\ Head(s) = s[1]
         /\ \A i \in 1..Len(Tail(s)) : Tail(s)[i] = s[i + 1]
<1> DEFINE a == Tail(s)
<1>1. a \in Seq(Range(s)) /\ Len(a) = Len(s) - 1 /\ Len(s) >= 1
      /\ \A i \in 1..Len(a) : a[i] = s[i + 1]
  OBVIOUS
<1> HIDE DEF a
<1>2. \A i \in 1..Len(a) : a[i] \in Range(a)
  BY <1>1 DEF Range
<1>3. a \in Seq(Range(a))
  BY <1>1, <1>2
<1> QED BY <1>1, <1>3 DEF a

LEMMA ConcatIs ==
  ASSUME NEW s, s \in Seq(Range(s)), NEW S, NEW t \in Seq(S)
  PROVE  /\ s \o t \in Seq(Range(s \o t))
         /\ Len(s \o t) = Len(s) + Len(t)
         /\ \A i \in 1..Len(s) : (s \o t)[i] = s[i]
         /\ \A i \in 1..Len(t) : (s \o t)[Len(s) + i] = t[i]
<1> DEFINE a == s \o t
<1>1. s \in Seq(Range(s) \cup S) /\ t \in Seq(Range(s) \cup S)
  OBVIOUS
<1>2. a \in Seq(Range(s) \cup S) /\ Len(a) = Len(s) + Len(t)
      /\ (\A i \in 1..Len(s) : a[i] = s[i])
      /\ \A i \in 1..Len(t) : a[Len(s) + i] = t[i]
  BY <1>1
<1> HIDE DEF a
<1>3. \A i \in 1..Len(a) : a[i] \in Range(a)
  <2>1. DOMAIN a = 1..Len(a)
    BY <1>2
  <2> QED BY <2>1 DEF Range
<1>4. a \in Seq(Range(a))
  BY <1>2, <1>3
<1> QED BY <1>2, <1>4 DEF a

(* What is appended to an inbox, taken from it, or put behind it.          *)
LEMMA InboxAppend ==
  ASSUME NEW h, NEW s, IsInbox(h, s), NEW d, d.req \in known[h], d.kind # "fetched" => d \in Data
  PROVE  IsInbox(h, Append(s, d))
<1>1. s \in Seq(Range(s))
  BY DEF IsInbox
<1> DEFINE a == Append(s, d)
<1>2. /\ a \in Seq(Range(a)) /\ Len(a) = Len(s) + 1 /\ a[Len(s) + 1] = d
      /\ \A i \in 1..Len(s) : a[i] = s[i]
  BY <1>1, AppendIs
<1> HIDE DEF a
<1>3. ASSUME NEW i \in 1..Len(a)
      PROVE  a[i].req \in known[h] /\ (a[i].kind # "fetched" => a[i] \in Data)
  <2>1. i \in 1..Len(s) \/ i = Len(s) + 1
    BY <1>1, <1>2
  <2> QED BY <2>1, <1>2 DEF IsInbox
<1> QED BY <1>2, <1>3 DEF IsInbox, a

LEMMA InboxTail ==
  ASSUME NEW h, NEW s, IsInbox(h, s), s # <<>>
  PROVE  /\ IsInbox(h, Tail(s))
         /\ Head(s).req \in known[h] /\ (Head(s).kind # "fetched" => Head(s) \in Data)
<1>1. s \in Seq(Range(s))
  BY DEF IsInbox
<1> DEFINE a == Tail(s)
<1>2. /\ a \in Seq(Range(a)) /\ Len(a) = Len(s) - 1 /\ Len(s) >= 1 /\ Head(s) = s[1]
      /\ \A i \in 1..Len(a) : a[i] = s[i + 1]
  BY <1>1, TailIs
<1> HIDE DEF a
<1>3. ASSUME NEW i \in 1..Len(a)
      PROVE  a[i].req \in known[h] /\ (a[i].kind # "fetched" => a[i] \in Data)
  <2>1. i + 1 \in 1..Len(s)
    BY <1>1, <1>2
  <2> QED BY <2>1, <1>2 DEF IsInbox
<1>4. 1 \in 1..Len(s)
  BY <1>1, <1>2
<1> QED BY <1>2, <1>3, <1>4 DEF IsInbox, a

LEMMA InboxConcat ==
  ASSUME NEW h, NEW s, IsInbox(h, s), NEW t \in Seq(Data), \A i \in 1..Len(t) : t[i].req \in known[h]
  PROVE  IsInbox(h, s \o t)
<1>1. s \in Seq(Range(s))
  BY DEF IsInbox
<1> DEFINE a == s \o t
<1>2. /\ a \in Seq(Range(a)) /\ Len(a) = Len(s) + Len(t)
      /\ \A i \in 1..Len(s) : a[i] = s[i]
      /\ \A i \in 1..Len(t) : a[Len(s) + i] = t[i]
  BY <1>1, ConcatIs
<1> HIDE DEF a
<1>3. ASSUME NEW i \in 1..Len(a)
      PROVE  a[i].req \in known[h] /\ (a[i].kind # "fetched" => a[i] \in Data)
  <2>1. i \in 1..Len(s) \/ \E j \in 1..Len(t) : i = Len(s) + j
    <3>1. CASE i > Len(s)
      <4>1. i - Len(s) \in 1..Len(t) /\ i = Len(s) + (i - Len(s))
        BY <1>1, <1>2, <3>1
      <4> QED BY <4>1
    <3> QED BY <3>1, <1>1
  <2>2. CASE i \in 1..Len(s)
    BY <2>2, <1>2 DEF IsInbox
  <2>3. ASSUME NEW j \in 1..Len(t), i = Len(s) + j
        PROVE  a[i].req \in known[h] /\ (a[i].kind # "fetched" => a[i] \in Data)
    <3>1. t[j] \in Data /\ t[j].req \in known[h] /\ a[i] = t[j]
      BY <2>3, <1>2
    <3> QED BY <3>1
  <2> QED BY <2>1, <2>2, <2>3
<1> QED BY <1>2, <1>3 DEF IsInbox, a

LEMMA EmptyInbox == ASSUME NEW h PROVE IsInbox(h, <<>>)
BY DEF IsInbox, Range

-----------------------------------------------------------------------------
(* Data and inputs                                                         *)

LEMMA HomeType == ASSUME NEW b \in Blocks PROVE Home[b] \in Hosts
BY DEF Hosts

LEMMA DatumType ==
  ASSUME NEW q \in Requests, NEW o \in Outs, NEW s \in Nat, NEW v \in Nat,
         NEW k \in {"direct", "redis", "kafka"}, o \in CntOuts => v > 0,
         k # "direct" => o \in Big \ Range(GlobalInputs)
  PROVE  /\ Datum(q, o, s, v, k) \in Data /\ Datum(q, o, s, v, k).req = q
         /\ Datum(q, o, s, v, k).kind = k
BY DEF Datum, Data, ByReference

LEMMA RemoteType ==
  ASSUME NEW d \in Data
  PROVE  [d EXCEPT !.fromLocal = FALSE] \in Data /\ [d EXCEPT !.fromLocal = FALSE].req = d.req
BY DEF Data, ByReference

LEMMA NoInputs == ASSUME NEW q, NEW b PROVE IsInputs(q, b, EmptyFn)
BY DEF IsInputs, EmptyFn

LEMMA WithIs ==
  ASSUME NEW f, NEW x, NEW v
  PROVE  /\ DOMAIN With(f, x, v) = DOMAIN f \cup {x} /\ With(f, x, v)[x] = v
         /\ \A y \in DOMAIN f \ {x} : With(f, x, v)[y] = f[y]
BY DEF With

LEMMA WithInput ==
  ASSUME NEW q, NEW b, NEW ins, IsInputs(q, b, ins), NEW i \in DOMAIN Inputs[b], NEW v,
         IF Inputs[b][i] = "LIST" THEN IsList(q, b, i, v) ELSE IsInput(q, b, i, v)
  PROVE  IsInputs(q, b, With(ins, i, v))
<1> DEFINE w == With(ins, i, v)
<1>1. DOMAIN w = DOMAIN ins \cup {i} /\ w[i] = v /\ \A y \in DOMAIN ins \ {i} : w[y] = ins[y]
  BY DEF With
<1> HIDE DEF w
<1>2. IsInputs(q, b, w)
  BY <1>1 DEF IsInputs
<1> QED BY <1>2 DEF w

LEMMA WithItem ==
  ASSUME NEW q, NEW b, NEW i, NEW l, IsList(q, b, i, l), NEW d, IsInput(q, b, i, d)
  PROVE  IsList(q, b, i, With(l, d.serial, d))
<1> DEFINE w == With(l, d.serial, d)
<1>1. /\ DOMAIN w = DOMAIN l \cup {d.serial} /\ w[d.serial] = d
      /\ \A y \in DOMAIN l \ {d.serial} : w[y] = l[y]
  BY DEF With
<1> HIDE DEF w
<1>2. IsFiniteSet(DOMAIN w)
  BY <1>1, FS_AddElement DEF IsList
<1>3. IsList(q, b, i, w)
  BY <1>1, <1>2 DEF IsList
<1> QED BY <1>3 DEF w

(* A block's serial is that of an item, or it has none.                    *)
LEMMA SerialType ==
  ASSUME NEW q, NEW b \in Blocks, NEW ins, IsInputs(q, b, ins)
  PROVE  BlockSerial(b, ins) \in Nat \cup {NoSerial}
<1> DEFINE foreach == {i \in DOMAIN ins : Inputs[b][i] = "NORMAL" /\ OutType[ins[i].out] = "FOREACH"}
<1>1. CASE foreach = {}
  BY <1>1 DEF BlockSerial
<1>2. CASE foreach # {}
  <2> DEFINE i == CHOOSE i \in foreach : TRUE
  <2>1. i \in foreach
    BY <1>2
  <2>2. BlockSerial(b, ins) = ins[i].serial
    BY <1>2 DEF BlockSerial
  <2> HIDE DEF i
  <2>3. ins[i] \in Data
    BY <2>1 DEF IsInputs, IsInput
  <2> QED BY <2>2, <2>3 DEF Data
<1> QED BY <1>1, <1>2

LEMMA InputsForType ==
  ASSUME NEW q \in Requests, NEW h
  PROVE  /\ InputsFor(q, h) \in Seq(Data)
         /\ \A i \in 1..Len(InputsFor(q, h)) :
              /\ InputsFor(q, h)[i].req = q /\ InputsFor(q, h)[i].out \in Range(GlobalInputs)
              /\ InputsFor(q, h)[i].serial = 0
<1> DEFINE there == {i \in 1..Len(GlobalInputs) : BlocksAt(GlobalInputs[i], h) # {}}
           mine == Subsequence(GlobalInputs, there)
           f == [i \in 1..Len(mine) |-> [Datum(q, mine[i], 0, 0, "direct") EXCEPT !.fromLocal = FALSE]]
<1>1. GlobalInputs \in Seq(Outs)
  BY WorkflowAssumption
<1> DEFINE S == {GlobalInputs[i] : i \in there \cap (1..Len(GlobalInputs))}
<1>2. mine \in Seq(S)
  BY <1>1, SubsequenceIs, Zenon
<1> HIDE DEF mine
<1>3. S \subseteq Outs /\ S \subseteq Range(GlobalInputs)
  BY <1>1 DEF Range
<1> HIDE DEF S
<1>4. mine \in Seq(Outs) /\ \A i \in 1..Len(mine) : mine[i] \in Range(GlobalInputs)
  BY <1>2, <1>3
<1>5. InputsFor(q, h) = f
  BY Zenon DEF InputsFor, mine
<1>6. ASSUME NEW i \in 1..Len(mine)
      PROVE  f[i] \in Data /\ f[i].req = q /\ f[i].out \in Range(GlobalInputs) /\ f[i].serial = 0
  <2>1. mine[i] \in Outs /\ mine[i] \in Range(GlobalInputs) /\ mine[i] \notin CntOuts
    BY <1>4, PostingAssumption
  <2>2. Datum(q, mine[i], 0, 0, "direct") \in Data /\ Datum(q, mine[i], 0, 0, "direct").req = q
    BY <2>1, DatumType
  <2> HIDE DEF f
  <2>3. f[i] = [Datum(q, mine[i], 0, 0, "direct") EXCEPT !.fromLocal = FALSE]
    BY DEF f
  <2>4. f[i].out = mine[i] /\ f[i].serial = 0
    BY <2>2, <2>3 DEF Datum
  <2> QED BY <2>1, <2>2, <2>3, <2>4, RemoteType
<1>7. Len(mine) \in Nat
  BY <1>4
<1>8. f \in Seq(Data) /\ Len(f) = Len(mine)
  BY <1>6, <1>7
<1> HIDE DEF f
<1> QED BY <1>5, <1>6, <1>8

-----------------------------------------------------------------------------
(* Greenlets                                                               *)

LEMMA GreenletType ==
  ASSUME InboxInv, NEW h \in Hosts, NEW d \in Data, d.req \in known[h]
  PROVE  IsGreenlet(h, Greenlet(h, d)) /\ Greenlet(h, d).call = <<>>
<1> DEFINE todo == {i \in 1..Len(Dest[d.out]) : WorkFor(h, d, Dest[d.out][i])}
           rest == Subsequence(Dest[d.out], todo)
<1>1. d.out \in Outs
  BY DEF Data
<1>2. Dest[d.out] \in Seq(Range(Dest[d.out]))
  BY <1>1, WorkflowAssumption
<1> DEFINE S == {Dest[d.out][i] : i \in todo \cap (1..Len(Dest[d.out]))}
<1>3. rest \in Seq(S)
  BY <1>2, SubsequenceIs, Zenon
<1>4. S \subseteq Range(Dest[d.out]) /\ \A x \in S : WorkFor(h, d, x)
  BY <1>2 DEF Range
<1> HIDE DEF S
<1>5. Greenlet(h, d) = [data |-> d, sent |-> {}, call |-> <<>>, dests |-> rest]
  BY Zenon DEF Greenlet
<1> HIDE DEF rest
<1>6. rest \in Seq(Range(Dest[d.out])) /\ \A i \in 1..Len(rest) : WorkFor(h, d, rest[i])
  <2>1. \A i \in 1..Len(rest) : rest[i] \in S
    BY <1>3
  <2> QED BY <1>3, <1>4, <2>1
<1> QED BY <1>5, <1>6 DEF IsGreenlet

LEMMA AdvanceType ==
  ASSUME NEW h, NEW g, IsGreenlet(h, g), g.dests # <<>>
  PROVE  /\ IsGreenlet(h, Advance(g)) /\ Advance(g).call = g.call /\ Advance(g).data = g.data
         /\ Advance(g).sent = g.sent /\ Advance(g).dests = Tail(g.dests)
<1> DEFINE t == Tail(g.dests)
<1>1. DOMAIN g = {"data", "sent", "call", "dests"} /\ g.dests \in Seq(Range(Dest[g.data.out]))
  BY DEF IsGreenlet
<1>2. t \in Seq(Range(Dest[g.data.out])) /\ Len(t) = Len(g.dests) - 1
      /\ \A i \in 1..Len(t) : t[i] = g.dests[i + 1] /\ i + 1 \in 1..Len(g.dests)
  BY <1>1
<1>3. Advance(g) = [g EXCEPT !.dests = t]
  BY DEF Advance
<1> HIDE DEF t
<1>4. /\ Advance(g).call = g.call /\ Advance(g).data = g.data /\ Advance(g).sent = g.sent
      /\ Advance(g).dests = t /\ DOMAIN Advance(g) = DOMAIN g
  BY <1>1, <1>3
<1>5. \A i \in 1..Len(t) : WorkFor(h, g.data, t[i])
  BY <1>2 DEF IsGreenlet
<1> QED BY <1>1, <1>2, <1>4, <1>5 DEF IsGreenlet, t

LEMMA HeadType ==
  ASSUME NEW h, NEW g, IsGreenlet(h, g), g.dests # <<>>
  PROVE  /\ g.data \in Data /\ g.data.req \in known[h] /\ g.data.out \in Outs
         /\ Head(g.dests) \in Range(Dest[g.data.out]) /\ WorkFor(h, g.data, Head(g.dests))
         /\ Head(g.dests).block # User =>
              Head(g.dests).block \in Blocks /\ Head(g.dests).input \in DOMAIN Inputs[Head(g.dests).block]
<1>1. g.data \in Data /\ g.data.req \in known[h] /\ g.dests \in Seq(Range(Dest[g.data.out]))
  BY DEF IsGreenlet
<1>2. 1 \in 1..Len(g.dests) /\ Head(g.dests) = g.dests[1]
  BY <1>1
<1>3. Head(g.dests) \in Range(Dest[g.data.out]) /\ WorkFor(h, g.data, Head(g.dests))
  BY <1>1, <1>2 DEF IsGreenlet
<1>4. g.data.out \in Outs
  BY <1>1 DEF Data
<1> QED BY <1>1, <1>3, <1>4, WorkflowAssumption

-----------------------------------------------------------------------------
(* Steps that leave a part of the invariant alone                          *)

LEMMA GatewaySame ==
  ASSUME GatewayInv, UNCHANGED <<phase, result, infoNet, userNet>> PROVE GatewayInv'
BY DEF GatewayInv
LEMMA NetSame == ASSUME NetInv, dataNet' \subseteq dataNet PROVE NetInv'
BY DEF NetInv, IsMessage
LEMMA InboxSame ==
  ASSUME InboxInv, UNCHANGED <<known, serving, backlog, queue>> PROVE InboxInv'
BY DEF InboxInv, IsInbox
LEMMA GreenletSame ==
  ASSUME known' = known, NEW h, NEW g, IsGreenlet(h, g) PROVE IsGreenlet(h, g)'
BY DEF IsGreenlet
LEMMA GreenSame ==
  ASSUME GreenInv, UNCHANGED <<known, running, parked>> PROVE GreenInv'
BY DEF GreenInv, IsGreenlet
LEMMA StateSame == ASSUME StateInv, UNCHANGED stateVars PROVE StateInv'
BY DEF StateInv, stateVars
LEMMA IsRunSame == ASSUME known' = known, NEW r, IsRun(r) PROVE IsRun(r)'
BY DEF IsRun
LEMMA RunSame == ASSUME RunInv, known' = known, runs' \subseteq runs PROVE RunInv'
BY DEF RunInv, IsRun

(* One host's inbox changes.                                               *)
LEMMA InboxChanges ==
  ASSUME InboxInv, UNCHANGED <<known, serving>>, NEW h \in Hosts, NEW s, NEW t,
         IsInbox(h, s), IsInbox(h, t),
         backlog' = [backlog EXCEPT ![h] = s], queue' = [queue EXCEPT ![h] = t]
  PROVE  InboxInv'
<1>1. \A x \in Hosts : backlog'[x] = (IF x = h THEN s ELSE backlog[x])
                      /\ queue'[x] = (IF x = h THEN t ELSE queue[x])
  BY DEF InboxInv
<1>2. \A x \in Hosts : IsInbox(x, backlog'[x]) /\ IsInbox(x, queue'[x])
  BY <1>1 DEF InboxInv
<1>3. \A x \in Hosts : IsInbox(x, backlog[x])' /\ IsInbox(x, queue[x])'
  BY <1>2 DEF IsInbox
<1> QED BY <1>3 DEF InboxInv

LEMMA BacklogAppend ==
  ASSUME InboxInv, UNCHANGED <<known, serving, queue>>, NEW h \in Hosts, NEW d,
         d.req \in known[h], d.kind # "fetched" => d \in Data, Send(h, d)
  PROVE  InboxInv'
<1>1. IsInbox(h, Append(backlog[h], d)) /\ IsInbox(h, queue[h])
  BY InboxAppend DEF InboxInv
<1>2. backlog' = [backlog EXCEPT ![h] = Append(backlog[h], d)]
  BY DEF Send
<1>3. queue' = [queue EXCEPT ![h] = queue[h]]
  BY DEF InboxInv
<1> QED BY <1>1, <1>2, <1>3, InboxChanges

(* One host's greenlets change.                                            *)
LEMMA GreenChanges ==
  ASSUME GreenInv, known' = known, NEW h \in Hosts, NEW u, NEW P,
         u # <<>> => /\ u = <<u[1]>> /\ IsGreenlet(h, u[1])
                     /\ u[1].dests # <<>> /\ u[1].call = <<>>,
         \A g \in P : /\ IsGreenlet(h, g)
                      /\ IF g.call = <<>> THEN g.dests # <<>> ELSE IsCall(h, g.data.req, g.call[1]),
         running' = [running EXCEPT ![h] = u], parked' = [parked EXCEPT ![h] = P]
  PROVE  GreenInv'
<1>1. \A x \in Hosts : running'[x] = (IF x = h THEN u ELSE running[x])
                      /\ parked'[x] = (IF x = h THEN P ELSE parked[x])
  BY DEF GreenInv
<1>2. \A x \in Hosts : running'[x] # <<>> =>
        /\ running'[x] = <<running'[x][1]>> /\ IsGreenlet(x, running'[x][1])
        /\ running'[x][1].dests # <<>> /\ running'[x][1].call = <<>>
  BY <1>1 DEF GreenInv
<1>3. \A x \in Hosts : \A g \in parked'[x] :
        /\ IsGreenlet(x, g)
        /\ IF g.call = <<>> THEN g.dests # <<>> ELSE IsCall(x, g.data.req, g.call[1])
  BY <1>1 DEF GreenInv
<1>4. \A x \in Hosts : running'[x] # <<>> => IsGreenlet(x, running[x][1])'
  BY <1>2, GreenletSame DEF IsGreenlet
<1>5. \A x \in Hosts : \A g \in parked'[x] : IsGreenlet(x, g)'
  BY <1>3, GreenletSame
<1>6. running' = [x \in Hosts |-> running'[x]] /\ parked' = [x \in Hosts |-> parked'[x]]
  BY DEF GreenInv
<1> QED BY <1>2, <1>3, <1>4, <1>5, <1>6 DEF GreenInv

(* The running greenlet of h goes on, or ends.                             *)
LEMMA Continues ==
  ASSUME NEW h, NEW g, IsGreenlet(h, g), g.call = <<>>
  PROVE  Continue(g) # <<>> =>
           /\ Continue(g) = <<Continue(g)[1]>> /\ IsGreenlet(h, Continue(g)[1])
           /\ Continue(g)[1].dests # <<>> /\ Continue(g)[1].call = <<>>
BY DEF Continue

LEMMA RunningGoesOn ==
  ASSUME GreenInv, UNCHANGED <<known, parked>>, NEW h \in Hosts, NEW g, IsGreenlet(h, g), g.call = <<>>,
         running' = [running EXCEPT ![h] = Continue(g)]
  PROVE  GreenInv'
<1>1. parked' = [parked EXCEPT ![h] = parked[h]]
  BY DEF GreenInv
<1> DEFINE u == Continue(g)
           P == parked[h]
<1>2. u # <<>> => /\ u = <<u[1]>> /\ IsGreenlet(h, u[1])
                  /\ u[1].dests # <<>> /\ u[1].call = <<>>
  BY Continues, Zenon
<1>3. \A x \in P : /\ IsGreenlet(h, x)
                   /\ IF x.call = <<>> THEN x.dests # <<>> ELSE IsCall(h, x.data.req, x.call[1])
  BY DEF GreenInv
<1> HIDE DEF u
<1>4. running' = [running EXCEPT ![h] = u] /\ parked' = [parked EXCEPT ![h] = P]
  BY <1>1 DEF u
<1> QED BY <1>2, <1>3, <1>4, GreenChanges, Zenon

-----------------------------------------------------------------------------
(* Runs                                                                    *)

LEMMA RunBecomes ==
  ASSUME RunInv, known' = known, NEW r \in runs, NEW r2, IsRun(r2), Become(r, r2)
  PROVE  RunInv'
<1>1. \A x \in runs' : IsRun(x)
  BY DEF RunInv, Become
<1> QED BY <1>1, IsRunSame DEF RunInv

LEMMA Allocates ==
  ASSUME RunInv, known' = known, NEW b \in Blocks, NEW q \in known[Home[b]], NEW ins,
         IsInputs(q, b, ins), Allocate(q, b, ins)
  PROVE  RunInv'
<1> DEFINE s == BlockSerial(b, ins)
           n == Cardinality({r \in runs : r.req = q /\ r.block = b /\ r.serial = s}) + 1
           new == [req |-> q, block |-> b, serial |-> s, nth |-> n, inputs |-> ins,
                   state |-> "queued", reads |-> <<>>, posts |-> <<>>, posted |-> <<>>,
                   uploads |-> <<>>]
<1>1. runs' = runs \cup {new}
  BY DEF Allocate
<1>2. s \in Nat \cup {NoSerial}
  BY SerialType
<1> HIDE DEF s, n
<1>3. IsRun(new)
  BY <1>2 DEF IsRun
<1> HIDE DEF new
<1>4. \A x \in runs' : IsRun(x)
  BY <1>1, <1>3 DEF RunInv
<1> QED BY <1>4, IsRunSame DEF RunInv

LEMMA Triggers ==
  ASSUME InboxInv, GreenInv, RunInv, known' = known, NEW h \in Hosts, NEW g, IsGreenlet(h, g), g.call = <<>>,
         NEW b \in Blocks, Home[b] = h, NEW ins, IsInputs(g.data.req, b, ins),
         TriggerNormal(h, g, b, ins)
  PROVE  GreenInv' /\ RunInv'
<1>1. g.data.req \in known[Home[b]]
  BY DEF IsGreenlet
<1>2. CASE Prefetched(h, b, ins)
  <2>1. /\ Allocate(g.data.req, b, ins)
        /\ running' = [running EXCEPT ![h] = Continue(g)] /\ parked' = parked
    BY <1>2 DEF TriggerNormal
  <2> QED BY <2>1, <1>1, Allocates, RunningGoesOn
<1>3. CASE ~Prefetched(h, b, ins)
  <2> DEFINE w == [g EXCEPT !.call = <<[block |-> b, inputs |-> ins]>>]
             P == parked[h] \cup {w}
             u == <<>>
  <2>1. /\ parked' = [parked EXCEPT ![h] = P] /\ running' = [running EXCEPT ![h] = u]
        /\ runs' = runs
    BY <1>3 DEF TriggerNormal
  <2>2. /\ w.call = <<[block |-> b, inputs |-> ins]>> /\ w.data = g.data /\ w.sent = g.sent
        /\ w.dests = g.dests /\ DOMAIN w = DOMAIN g
    BY DEF IsGreenlet
  <2> HIDE DEF w
  <2>3. w.call # <<>> /\ w.call[1].block = b /\ w.call[1].inputs = ins
    BY <2>2
  <2>4. IsGreenlet(h, w)
    BY <2>2 DEF IsGreenlet
  <2>5. IsCall(h, w.data.req, w.call[1])
    BY <2>2, <2>3 DEF IsCall
  <2>6. \A x \in P : /\ IsGreenlet(h, x)
                    /\ IF x.call = <<>> THEN x.dests # <<>> ELSE IsCall(h, x.data.req, x.call[1])
    BY <2>3, <2>4, <2>5 DEF GreenInv
  <2>7. u # <<>> => /\ u = <<u[1]>> /\ IsGreenlet(h, u[1])
                    /\ u[1].dests # <<>> /\ u[1].call = <<>>
    OBVIOUS
  <2> HIDE DEF P, u
  <2>8. GreenInv'
    BY <2>1, <2>6, <2>7, GreenChanges, Zenon
  <2> QED BY <2>1, <2>8, RunSame
<1> QED BY <1>2, <1>3

LEMMA Counts ==
  ASSUME InboxInv, GreenInv, RunInv, StateInv, known' = known, NEW h \in Hosts, NEW g, IsGreenlet(h, g),
         g.call = <<>>, NEW b \in Blocks, Home[b] = h, NEW ins, IsInputs(g.data.req, b, ins),
         CountInput(h, g, b, ins)
  PROVE  GreenInv' /\ RunInv' /\ inputCnt' \in [Requests -> [Blocks -> Nat]]
<1> DEFINE q == g.data.req
<1>1. inputCnt' = [inputCnt EXCEPT ![q][b] = @ + 1]
  BY DEF CountInput
<1>2. inputCnt' \in [Requests -> [Blocks -> Nat]]
  <2>1. q \in Requests
    BY DEF IsGreenlet, Data
  <2> HIDE DEF q
  <2>2. inputCnt' = [inputCnt EXCEPT ![q] = [inputCnt[q] EXCEPT ![b] = inputCnt[q][b] + 1]]
    BY <1>1
  <2>3. inputCnt[q] \in [Blocks -> Nat] /\ inputCnt[q][b] + 1 \in Nat
    BY <2>1 DEF StateInv
  <2>4. [inputCnt[q] EXCEPT ![b] = inputCnt[q][b] + 1] \in [Blocks -> Nat]
    BY <2>3
  <2> QED BY <2>2, <2>4 DEF StateInv
<1>3. CASE LastInput(q, b)
  BY <1>3, <1>2, Triggers DEF CountInput
<1>4. CASE ~LastInput(q, b)
  <2>1. running' = [running EXCEPT ![h] = Continue(g)] /\ parked' = parked /\ runs' = runs
    BY <1>4 DEF CountInput
  <2> QED BY <2>1, <1>2, RunningGoesOn, RunSame
<1> QED BY <1>3, <1>4

(* The inputs of one block of one request change.                          *)
LEMMA InputsChange ==
  ASSUME StateInv, NEW q \in Requests, NEW b \in Blocks, NEW ins, IsInputs(q, b, ins),
         inputDatas' = [inputDatas EXCEPT ![q][b] = ins],
         inputCnt' \in [Requests -> [Blocks -> Nat]]
  PROVE  StateInv'
<1>1. DOMAIN inputDatas = Requests /\ \A p \in Requests : DOMAIN inputDatas[p] = Blocks
  BY DEF StateInv
<1>2. DOMAIN inputDatas' = Requests /\ \A p \in Requests : DOMAIN inputDatas'[p] = Blocks
  BY <1>1
<1>3. \A p \in Requests, c \in Blocks :
        inputDatas'[p][c] = IF p = q /\ c = b THEN ins ELSE inputDatas[p][c]
  BY <1>1
<1>4. \A p \in Requests, c \in Blocks : IsInputs(p, c, inputDatas'[p][c])
  BY <1>3 DEF StateInv
<1> QED BY <1>2, <1>4 DEF StateInv

-----------------------------------------------------------------------------
(* Initial states and the steps of gateway, network and inboxes            *)

LEMMA InitInv == Init => Inv
<1> SUFFICES ASSUME Init PROVE Inv
  OBVIOUS
<1>1. GatewayInv /\ NetInv /\ RunInv
  BY DEF Init, GatewayInv, NetInv, RunInv
<1>2. InboxInv
  BY EmptyInbox DEF Init, InboxInv
<1>3. GreenInv
  BY DEF Init, GreenInv
<1>4. StateInv
  BY NoInputs DEF Init, StateInv
<1> QED BY <1>1, <1>2, <1>3, <1>4 DEF Inv

LEMMA RunInvKept ==
  ASSUME Inv, NEW q \in Requests, Run(q) PROVE Inv'
<1> USE DEF Run, Inv
<1>1. GatewayInv'
  BY DEF GatewayInv
<1>2. NetInv'
  BY NetSame
<1>3. InboxInv' /\ GreenInv' /\ StateInv' /\ RunInv'
  BY InboxSame, GreenSame, StateSame, RunSame DEF inboxVars, greenVars
<1> QED BY <1>1, <1>2, <1>3

LEMMA SendInputsKept ==
  ASSUME Inv, NEW q \in Requests, SendInputs(q) PROVE Inv'
<1> USE DEF SendInputs, Inv
<1>1. GatewayInv'
  BY DEF GatewayInv
<1>2. NetInv'
  <2> SUFFICES ASSUME NEW m \in dataNet' PROVE IsMessage(m)
    BY DEF NetInv, IsMessage
  <2>1. CASE m \in dataNet
    BY <2>1 DEF NetInv
  <2>2. CASE m \notin dataNet
    <3>1. PICK h \in Hosts : /\ InputsFor(q, h) # <<>>
                            /\ m = [to |-> h, datas |-> InputsFor(q, h), sender |-> Gateway]
      BY <2>2
    <3> DEFINE ds == InputsFor(q, h)
    <3>2. ds \in Seq(Data) /\ \A i \in 1..Len(ds) : ds[i].req = q
      BY InputsForType
    <3>3. m.to = h /\ m.datas = ds /\ ds # <<>>
      BY <3>1
    <3> HIDE DEF ds
    <3>4. 1 \in 1..Len(ds)
      BY <3>2, <3>3
    <3> QED BY <3>2, <3>3, <3>4 DEF IsMessage
  <2> QED BY <2>1, <2>2
<1>3. InboxInv' /\ GreenInv' /\ StateInv' /\ RunInv'
  BY InboxSame, GreenSame, StateSame, RunSame DEF inboxVars, greenVars
<1> QED BY <1>1, <1>2, <1>3

LEMMA AnswerKept ==
  ASSUME Inv, NEW q \in Requests, Answer(q) \/ PostUserData(q) PROVE Inv'
<1> USE DEF Answer, PostUserData, Inv
<1>1. GatewayInv'
  BY DEF GatewayInv, netVars
<1>2. NetInv'
  BY NetSame DEF netVars
<1>3. InboxInv' /\ GreenInv' /\ StateInv' /\ RunInv'
  BY InboxSame, GreenSame, StateSame, RunSame DEF inboxVars, greenVars
<1> QED BY <1>1, <1>2, <1>3

LEMMA RequestInfoKept ==
  ASSUME Inv, NEW h \in Hosts, NEW q \in Requests, RequestInfo(h, q) PROVE Inv'
<1> USE DEF RequestInfo, Inv
<1>1. GatewayInv'
  BY DEF GatewayInv, gatewayVars
<1>2. NetInv'
  BY NetSame
<1>3. known' \in [Hosts -> SUBSET Requests] /\ \A x \in Hosts : known[x] \subseteq known'[x]
  BY DEF InboxInv
<1>4. InboxInv'
  <2>1. \A x \in Hosts : \A s : IsInbox(x, s) => IsInbox(x, s)'
    BY <1>3 DEF IsInbox
  <2>2. \A x \in Hosts : IsInbox(x, backlog[x])' /\ IsInbox(x, queue[x])'
    BY <2>1 DEF InboxInv, IsInbox
  <2> QED BY <1>3, <2>2 DEF InboxInv
<1>5. \A x \in Hosts : \A g : IsGreenlet(x, g) => IsGreenlet(x, g)'
  BY <1>3 DEF IsGreenlet
<1>6. GreenInv'
  <2>1. \A x \in Hosts : running[x] # <<>> => IsGreenlet(x, running[x][1])'
    BY <1>5 DEF GreenInv, greenVars, IsGreenlet
  <2>2. \A x \in Hosts : \A g \in parked[x] : IsGreenlet(x, g)'
    BY <1>5 DEF GreenInv, greenVars
  <2> QED BY <2>1, <2>2 DEF GreenInv, greenVars
<1>7. RunInv'
  <2>1. \A r \in runs : IsRun(r)'
    BY <1>3, HomeType DEF RunInv, IsRun
  <2> QED BY <2>1 DEF RunInv
<1>8. StateInv'
  <2>1. DOMAIN inputDatas = Requests /\ \A p \in Requests : DOMAIN inputDatas[p] = Blocks
    BY DEF StateInv
  <2>2. DOMAIN inputDatas' = Requests /\ \A p \in Requests : DOMAIN inputDatas'[p] = Blocks
    BY <2>1
  <2>3. \A p \in Requests, c \in Blocks :
          inputDatas'[p][c] = EmptyFn \/ inputDatas'[p][c] = inputDatas[p][c]
    BY <2>1
  <2>4. \A p \in Requests, c \in Blocks : IsInputs(p, c, inputDatas'[p][c])
    BY <2>3, NoInputs DEF StateInv
  <2>5. inputCnt' \in [Requests -> [Blocks -> Nat]]
    BY DEF StateInv
  <2> QED BY <2>2, <2>4, <2>5 DEF StateInv
<1> QED BY <1>1, <1>2, <1>4, <1>6, <1>7, <1>8

LEMMA TransferDataKept ==
  ASSUME Inv, NEW m \in dataNet, TransferData(m) PROVE Inv'
<1> USE DEF TransferData, Inv
<1>1. GatewayInv'
  BY DEF GatewayInv, gatewayVars
<1>2. NetInv'
  BY NetSame
<1>3. GreenInv' /\ StateInv' /\ RunInv'
  BY GreenSame, StateSame, RunSame DEF greenVars
<1>4. IsMessage(m)
  BY DEF NetInv
<1>5. InboxInv'
  <2>1. CASE ~Admitted(m.to, m.datas[1].req)
    BY <2>1, InboxSame
  <2>2. CASE Admitted(m.to, m.datas[1].req)
    <3> DEFINE h == m.to
               t == queue[h] \o m.datas
               s == backlog[h]
    <3>1. h \in Hosts /\ m.datas \in Seq(Data) /\ \A i \in 1..Len(m.datas) : m.datas[i].req \in known[h]
      BY <1>4, <2>2 DEF IsMessage, Admitted
    <3>2. IsInbox(h, t) /\ IsInbox(h, s)
      BY <3>1, InboxConcat DEF InboxInv
    <3>3. queue' = [queue EXCEPT ![h] = t] /\ backlog' = [backlog EXCEPT ![h] = s]
      BY <2>2, <3>1 DEF InboxInv
    <3> HIDE DEF t, s
    <3> QED BY <3>1, <3>2, <3>3, InboxChanges
  <2> QED BY <2>1, <2>2
<1> QED BY <1>1, <1>2, <1>3, <1>5

(* The server's exception is not reached: every message is of a known      *)
(* request.                                                                *)
LEMMA SocketServerKept ==
  ASSUME Inv, NEW h \in Hosts, SocketServer(h) PROVE Inv'
<1> USE DEF SocketServer, Inv
<1>1. GatewayInv'
  BY DEF GatewayInv, gatewayVars, netVars
<1>2. NetInv'
  BY NetSame DEF netVars
<1>3. GreenInv' /\ StateInv' /\ RunInv'
  BY GreenSame, StateSame, RunSame DEF greenVars
<1>4. InboxInv'
  <2> DEFINE d == Head(backlog[h])
             s == Tail(backlog[h])
             t == Append(queue[h], d)
  <2>1. IsInbox(h, backlog[h]) /\ IsInbox(h, queue[h])
    BY DEF InboxInv
  <2>2. IsInbox(h, s) /\ d.req \in known[h] /\ (d.kind # "fetched" => d \in Data)
    BY <2>1, InboxTail
  <2>3. backlog' = [backlog EXCEPT ![h] = s] /\ queue' = [queue EXCEPT ![h] = t] /\ serving' = serving
    BY <2>2
  <2> HIDE DEF d
  <2>4. IsInbox(h, t)
    BY <2>1, <2>2, InboxAppend
  <2> HIDE DEF t, s
  <2> QED BY <2>2, <2>3, <2>4, InboxChanges
<1> QED BY <1>1, <1>2, <1>3, <1>4

-----------------------------------------------------------------------------
(* The steps of the dispatcher                                             *)

LEMMA DispatchFetchedKept ==
  ASSUME Inv, NEW h \in Hosts, DispatchFetched(h) PROVE Inv'
<1> USE DEF DispatchFetched, Inv
<1>1. GatewayInv'
  BY DEF GatewayInv, gatewayVars, netVars
<1>2. NetInv'
  BY NetSame DEF netVars
<1>3. GreenInv' /\ StateInv' /\ RunInv'
  BY GreenSame, StateSame, RunSame DEF greenVars
<1>4. InboxInv'
  <2> DEFINE s == backlog[h]
             t == Tail(queue[h])
  <2>1. IsInbox(h, s) /\ IsInbox(h, t)
    BY InboxTail DEF InboxInv
  <2>2. backlog' = [backlog EXCEPT ![h] = s] /\ queue' = [queue EXCEPT ![h] = t]
    BY DEF InboxInv
  <2> HIDE DEF s, t
  <2> QED BY <2>1, <2>2, InboxChanges
<1> QED BY <1>1, <1>2, <1>3, <1>4

LEMMA DispatchKept ==
  ASSUME Inv, NEW h \in Hosts, Dispatch(h) PROVE Inv'
<1> USE DEF Inv
<1> DEFINE d == Head(queue[h])
           g == Greenlet(h, d)
<1>0. /\ queue[h] # <<>> /\ d.kind # "fetched"
      /\ queue' = [queue EXCEPT ![h] = Tail(queue[h])]
      /\ running' = [running EXCEPT ![h] = Continue(g)]
      /\ UNCHANGED <<phase, result, infoNet, dataNet, userNet, known, serving, backlog, parked>>
      /\ UNCHANGED stateVars /\ UNCHANGED runs
  BY DEF Dispatch, gatewayVars, netVars
<1> HIDE DEF d, g
<1>1. GatewayInv' /\ NetInv' /\ StateInv' /\ RunInv'
  BY <1>0, GatewaySame, NetSame, StateSame, RunSame
<1>2. d \in Data /\ d.req \in known[h]
  BY <1>0, InboxTail DEF InboxInv, d
<1>3. InboxInv'
  <2> DEFINE s == backlog[h]
             t == Tail(queue[h])
  <2>1. IsInbox(h, s) /\ IsInbox(h, t)
    BY <1>0, InboxTail DEF InboxInv
  <2>2. backlog' = [backlog EXCEPT ![h] = s] /\ queue' = [queue EXCEPT ![h] = t]
    BY <1>0 DEF InboxInv
  <2> HIDE DEF s, t
  <2> QED BY <1>0, <2>1, <2>2, InboxChanges
<1>4. IsGreenlet(h, g) /\ g.call = <<>>
  BY <1>2, GreenletType DEF g
<1>5. GreenInv'
  BY <1>0, <1>4, RunningGoesOn
<1> QED BY <1>1, <1>3, <1>5

LEMMA PrefetchDataKept ==
  ASSUME Inv, NEW h, NEW k, PrefetchData(h, k) \/ LosePrefetch(h, k) PROVE Inv'
<1> USE DEF PrefetchData, LosePrefetch, Inv
<1>1. UNCHANGED <<phase, result, infoNet, dataNet, userNet, known, serving, backlog, queue,
                  running, parked, runs>> /\ UNCHANGED stateVars
  BY DEF gatewayVars, netVars, inboxVars, greenVars
<1> QED BY <1>1, GatewaySame, NetSame, InboxSame, GreenSame, StateSame, RunSame

(* The running greenlet, and what it is at.                                *)
LEMMA RunningIs ==
  ASSUME GreenInv, NEW h \in Hosts, running[h] # <<>>
  PROVE  LET g == running[h][1] IN
         /\ IsGreenlet(h, g) /\ g.dests # <<>> /\ g.call = <<>>
         /\ g.data \in Data /\ g.data.req \in known[h] /\ g.data.out \in Outs
         /\ Head(g.dests) \in Range(Dest[g.data.out]) /\ WorkFor(h, g.data, Head(g.dests))
         /\ Head(g.dests).block # User =>
              /\ Head(g.dests).block \in Blocks
              /\ Head(g.dests).input \in DOMAIN Inputs[Head(g.dests).block]
<1>1. IsGreenlet(h, running[h][1]) /\ running[h][1].dests # <<>> /\ running[h][1].call = <<>>
  BY DEF GreenInv
<1> QED BY <1>1, HeadType

LEMMA ToUserKept ==
  ASSUME Inv, NEW h \in Hosts, ToUser(h) PROVE Inv'
<1> USE DEF Inv
<1> DEFINE g == running[h][1]
           a == Advance(g)
<1>0. /\ running[h] # <<>> /\ userNet' = userNet \cup {g.data.req}
      /\ running' = [running EXCEPT ![h] = Continue(a)]
      /\ UNCHANGED <<phase, result, infoNet, dataNet, known, serving, backlog, queue, parked, runs>>
      /\ UNCHANGED stateVars
  BY DEF ToUser, gatewayVars, inboxVars
<1>1. IsGreenlet(h, g) /\ g.dests # <<>> /\ g.call = <<>> /\ g.data \in Data
  BY <1>0, RunningIs
<1>2. IsGreenlet(h, a) /\ a.call = <<>>
  BY <1>1, AdvanceType
<1> HIDE DEF g, a
<1>3. GreenInv'
  BY <1>0, <1>2, RunningGoesOn
<1>4. GatewayInv'
  BY <1>0, <1>1 DEF GatewayInv, Data
<1>5. NetInv' /\ InboxInv' /\ StateInv' /\ RunInv'
  BY <1>0, NetSame, InboxSame, StateSame, RunSame
<1> QED BY <1>3, <1>4, <1>5

LEMMA ToRemoteKept ==
  ASSUME Inv, NEW h \in Hosts, ToRemote(h) PROVE Inv'
<1> USE DEF Inv
<1> DEFINE g == running[h][1]
           b == Head(g.dests).block
           m == [to |-> Home[b], sender |-> b, datas |-> <<[g.data EXCEPT !.fromLocal = FALSE]>>]
           w == [g EXCEPT !.sent = @ \cup {Home[b]}]
           a == Advance(w)
<1>0. /\ running[h] # <<>> /\ b # User
      /\ dataNet' = dataNet \/ dataNet' = dataNet \cup {m}
      /\ running' = [running EXCEPT ![h] = Continue(a)]
      /\ UNCHANGED <<phase, result, infoNet, userNet, known, serving, backlog, queue, parked, runs>>
      /\ UNCHANGED stateVars
  BY DEF ToRemote, gatewayVars, inboxVars
<1>1. IsGreenlet(h, g) /\ g.dests # <<>> /\ g.call = <<>> /\ g.data \in Data /\ b \in Blocks
  BY <1>0, RunningIs
<1>2. Home[b] \in Hosts
  BY <1>1, HomeType
<1>3. /\ w.sent = g.sent \cup {Home[b]} /\ w.data = g.data /\ w.call = g.call /\ w.dests = g.dests
      /\ DOMAIN w = DOMAIN g
  BY <1>1 DEF IsGreenlet
<1>4. IsMessage(m)
  <2> DEFINE d == [g.data EXCEPT !.fromLocal = FALSE]
  <2>1. d \in Data
    BY <1>1, RemoteType
  <2>2. m.to = Home[b] /\ m.datas = <<d>>
    OBVIOUS
  <2> HIDE DEF d, m
  <2> QED BY <1>2, <2>1, <2>2 DEF IsMessage
<1> HIDE DEF w, m, a, b, g
<1>5. IsGreenlet(h, w)
  BY <1>1, <1>2, <1>3 DEF IsGreenlet
<1>6. IsGreenlet(h, a) /\ a.call = <<>>
  BY <1>1, <1>3, <1>5, AdvanceType DEF a
<1>7. GreenInv'
  BY <1>0, <1>6, RunningGoesOn
<1>8. NetInv'
  BY <1>0, <1>4 DEF NetInv, IsMessage
<1>9. GatewayInv' /\ InboxInv' /\ StateInv' /\ RunInv'
  BY <1>0, GatewaySame, InboxSame, StateSame, RunSame
<1> QED BY <1>7, <1>8, <1>9

(* The running greenlet is at an input of a local block.                   *)
LEMMA FlowingIs ==
  ASSUME GreenInv, NEW h \in Hosts, NEW t, Flowing(h, t)
  PROVE  LET g == running[h][1]
             x == Head(g.dests)
         IN /\ running[h] # <<>> /\ IsGreenlet(h, g) /\ g.dests # <<>> /\ g.call = <<>>
            /\ g.data.req \in Requests /\ x.block \in Blocks /\ Home[x.block] = h
            /\ OutType[g.data.out] = t /\ x.input \in DOMAIN Inputs[x.block]
            /\ (t = "MERGE") <=> (Inputs[x.block][x.input] = "LIST")
            /\ IsInput(g.data.req, x.block, x.input, g.data)
<1> DEFINE g == running[h][1]
           x == Head(g.dests)
<1>1. running[h] # <<>> /\ x.block # User /\ Home[x.block] = h /\ OutType[g.data.out] = t
  BY DEF Flowing
<1>2. /\ IsGreenlet(h, g) /\ g.dests # <<>> /\ g.call = <<>>
      /\ g.data \in Data /\ g.data.out \in Outs /\ x \in Range(Dest[g.data.out])
      /\ x.block \in Blocks /\ x.input \in DOMAIN Inputs[x.block]
  BY <1>1, RunningIs
<1> HIDE DEF g, x
<1>3. (t = "MERGE") <=> (Inputs[x.block][x.input] = "LIST")
  BY <1>1, <1>2, WorkflowAssumption
<1>4. IsInput(g.data.req, x.block, x.input, g.data) /\ g.data.req \in Requests
  BY <1>2 DEF IsInput, Data
<1> QED BY <1>1, <1>2, <1>3, <1>4 DEF g, x

LEMMA FlowForeachKept ==
  ASSUME Inv, NEW h \in Hosts, FlowForeach(h) PROVE Inv'
<1> USE DEF Inv
<1> DEFINE g == running[h][1]
           x == Head(g.dests)
           a == Advance(g)
           q == g.data.req
           ins == With(inputDatas[q][x.block], x.input, g.data)
<1>0. /\ Flowing(h, "FOREACH") /\ TriggerNormal(h, a, x.block, ins)
      /\ UNCHANGED <<phase, result, infoNet, dataNet, userNet, known, serving, backlog, queue>>
      /\ UNCHANGED stateVars
  BY DEF FlowForeach, gatewayVars, netVars, inboxVars
<1>1. /\ IsGreenlet(h, g) /\ g.dests # <<>> /\ g.call = <<>>
      /\ q \in Requests /\ x.block \in Blocks /\ Home[x.block] = h
      /\ x.input \in DOMAIN Inputs[x.block] /\ Inputs[x.block][x.input] # "LIST"
      /\ IsInput(q, x.block, x.input, g.data)
  <2>1. /\ IsGreenlet(h, g) /\ g.dests # <<>> /\ g.call = <<>>
        /\ q \in Requests /\ x.block \in Blocks /\ Home[x.block] = h
        /\ x.input \in DOMAIN Inputs[x.block]
        /\ IsInput(q, x.block, x.input, g.data)
        /\ ("FOREACH" = "MERGE") <=> (Inputs[x.block][x.input] = "LIST")
    BY <1>0, FlowingIs
  <2> QED BY <2>1
<1>2. IsGreenlet(h, a) /\ a.call = <<>> /\ a.data = g.data
  BY <1>1, AdvanceType
<1> HIDE DEF a, g, x
<1>3. IsInputs(q, x.block, ins)
  BY <1>1, WithInput DEF StateInv
<1> HIDE DEF ins
<1>4. GreenInv' /\ RunInv'
  BY <1>0, <1>1, <1>2, <1>3, Triggers
<1>5. GatewayInv' /\ NetInv' /\ InboxInv' /\ StateInv'
  BY <1>0, GatewaySame, NetSame, InboxSame, StateSame
<1> QED BY <1>4, <1>5

LEMMA FlowNormalKept ==
  ASSUME Inv, NEW h \in Hosts, FlowNormal(h) PROVE Inv'
<1> USE DEF Inv
<1> DEFINE g == running[h][1]
           x == Head(g.dests)
           a == Advance(g)
           q == g.data.req
           ins == With(inputDatas[q][x.block], x.input, g.data)
<1>0. /\ Flowing(h, "NORMAL")
      /\ UNCHANGED <<phase, result, infoNet, dataNet, userNet, known, serving, backlog, queue>>
      /\ \/ /\ running' = [running EXCEPT ![h] = Continue(a)]
            /\ parked' = parked /\ runs' = runs /\ UNCHANGED stateVars
         \/ /\ inputDatas' = [inputDatas EXCEPT ![q][x.block] = ins]
            /\ CountInput(h, a, x.block, ins)
  BY DEF FlowNormal, gatewayVars, netVars, inboxVars
<1>1. /\ IsGreenlet(h, g) /\ g.dests # <<>> /\ g.call = <<>>
      /\ q \in Requests /\ x.block \in Blocks /\ Home[x.block] = h
      /\ x.input \in DOMAIN Inputs[x.block] /\ Inputs[x.block][x.input] # "LIST"
      /\ IsInput(q, x.block, x.input, g.data)
  <2>1. /\ IsGreenlet(h, g) /\ g.dests # <<>> /\ g.call = <<>>
        /\ q \in Requests /\ x.block \in Blocks /\ Home[x.block] = h
        /\ x.input \in DOMAIN Inputs[x.block]
        /\ IsInput(q, x.block, x.input, g.data)
        /\ ("NORMAL" = "MERGE") <=> (Inputs[x.block][x.input] = "LIST")
    BY <1>0, FlowingIs
  <2> QED BY <2>1
<1>2. IsGreenlet(h, a) /\ a.call = <<>> /\ a.data = g.data
  BY <1>1, AdvanceType
<1> HIDE DEF a, g, x
<1>3. IsInputs(q, x.block, ins)
  BY <1>1, WithInput DEF StateInv
<1> HIDE DEF ins
<1>4. GatewayInv' /\ NetInv' /\ InboxInv'
  BY <1>0, GatewaySame, NetSame, InboxSame
<1>5. CASE /\ running' = [running EXCEPT ![h] = Continue(a)]
           /\ parked' = parked /\ runs' = runs /\ UNCHANGED stateVars
  BY <1>0, <1>2, <1>4, <1>5, RunningGoesOn, StateSame, RunSame
<1>6. CASE /\ inputDatas' = [inputDatas EXCEPT ![q][x.block] = ins]
           /\ CountInput(h, a, x.block, ins)
  <2>1. GreenInv' /\ RunInv' /\ inputCnt' \in [Requests -> [Blocks -> Nat]]
    BY <1>0, <1>1, <1>2, <1>3, <1>6, Counts
  <2>2. StateInv'
    BY <1>1, <1>3, <1>6, <2>1, InputsChange
  <2> QED BY <1>4, <2>1, <2>2
<1> QED BY <1>0, <1>5, <1>6

LEMMA ListType ==
  ASSUME StateInv, NEW q \in Requests, NEW x, x.block \in Blocks, Inputs[x.block][x.input] = "LIST"
  PROVE  IsList(q, x.block, x.input, ListInput(q, x))
<1>1. CASE x.input \in DOMAIN inputDatas[q][x.block]
  BY <1>1 DEF StateInv, IsInputs, ListInput
<1>2. CASE x.input \notin DOMAIN inputDatas[q][x.block]
  BY <1>2, FS_EmptySet DEF ListInput, IsList, EmptyFn
<1> QED BY <1>1, <1>2

LEMMA FlowMergeKept ==
  ASSUME Inv, NEW h \in Hosts, FlowMerge(h) PROVE Inv'
<1> USE DEF Inv
<1> DEFINE g == running[h][1]
           x == Head(g.dests)
           a == Advance(g)
           q == g.data.req
           stored == inputDatas[q][x.block]
           counted == Cnt \in DOMAIN stored
           list == IF counted THEN With(ListInput(q, x), g.data.serial, g.data)
                   ELSE ListInput(q, x)
           ins == With(stored, x.input, list)
           full == counted /\ Cardinality(DOMAIN list) = stored[Cnt].val
<1>0. /\ Flowing(h, "MERGE")
      /\ UNCHANGED <<phase, result, infoNet, dataNet, userNet, known, serving, backlog, queue>>
      /\ inputDatas' = [inputDatas EXCEPT ![q][x.block] = ins]
      /\ \/ CountInput(h, a, x.block, ins)
         \/ /\ running' = [running EXCEPT ![h] = Continue(a)]
            /\ parked' = parked /\ runs' = runs /\ inputCnt' = inputCnt
         \/ /\ running' = [running EXCEPT ![h] = <<>>]
            /\ parked' = [parked EXCEPT ![h] = parked[h] \cup {g}]
            /\ runs' = runs /\ inputCnt' = inputCnt
  <2>1. /\ Flowing(h, "MERGE")
        /\ UNCHANGED <<phase, result, infoNet, dataNet, userNet, known, serving, backlog, queue>>
        /\ inputDatas' = [inputDatas EXCEPT ![q][x.block] = ins]
    BY DEF FlowMerge, gatewayVars, netVars, inboxVars
  <2>2. IF full
        THEN CountInput(h, a, x.block, ins)
        ELSE /\ running' = [running EXCEPT ![h] = IF counted THEN Continue(a) ELSE <<>>]
             /\ parked' = IF counted THEN parked ELSE [parked EXCEPT ![h] = @ \cup {g}]
             /\ UNCHANGED <<inputCnt, runs>>
    BY Zenon DEF FlowMerge
  <2> HIDE DEF g, x, a, q, ins, full, list, counted
  <2> QED BY <2>1, <2>2
<1>1. /\ IsGreenlet(h, g) /\ g.dests # <<>> /\ g.call = <<>>
      /\ q \in Requests /\ x.block \in Blocks /\ Home[x.block] = h
      /\ x.input \in DOMAIN Inputs[x.block] /\ Inputs[x.block][x.input] = "LIST"
      /\ IsInput(q, x.block, x.input, g.data)
  BY <1>0, FlowingIs
<1>2. IsGreenlet(h, a) /\ a.call = <<>> /\ a.data = g.data
  BY <1>1, AdvanceType
<1> HIDE DEF a, g, x, counted
<1>3. IsList(q, x.block, x.input, list)
  BY <1>1, ListType, WithItem
<1> HIDE DEF list
<1>4. IsInputs(q, x.block, ins)
  BY <1>1, <1>3, WithInput DEF StateInv
<1> HIDE DEF ins
<1>5. GatewayInv' /\ NetInv' /\ InboxInv'
  BY <1>0, GatewaySame, NetSame, InboxSame
<1>6. inputCnt' = inputCnt => StateInv'
  BY <1>0, <1>1, <1>4, InputsChange DEF StateInv
<1>7. CASE CountInput(h, a, x.block, ins)
  <2>1. GreenInv' /\ RunInv' /\ inputCnt' \in [Requests -> [Blocks -> Nat]]
    BY <1>0, <1>1, <1>2, <1>4, <1>7, Counts
  <2>2. StateInv'
    BY <1>0, <1>1, <1>4, <2>1, InputsChange
  <2> QED BY <1>5, <2>1, <2>2
<1>8. CASE /\ running' = [running EXCEPT ![h] = Continue(a)]
           /\ parked' = parked /\ runs' = runs /\ inputCnt' = inputCnt
  BY <1>0, <1>2, <1>5, <1>6, <1>8, RunningGoesOn, RunSame
<1>9. CASE /\ running' = [running EXCEPT ![h] = <<>>]
           /\ parked' = [parked EXCEPT ![h] = parked[h] \cup {g}]
           /\ runs' = runs /\ inputCnt' = inputCnt
  <2> DEFINE u == <<>>
             P == parked[h] \cup {g}
  <2>1. \A y \in P : /\ IsGreenlet(h, y)
                    /\ IF y.call = <<>> THEN y.dests # <<>> ELSE IsCall(h, y.data.req, y.call[1])
    BY <1>1 DEF GreenInv
  <2>2. u # <<>> => /\ u = <<u[1]>> /\ IsGreenlet(h, u[1])
                    /\ u[1].dests # <<>> /\ u[1].call = <<>>
    OBVIOUS
  <2>3. running' = [running EXCEPT ![h] = u] /\ parked' = [parked EXCEPT ![h] = P] /\ known' = known
    BY <1>0, <1>9
  <2> HIDE DEF P, u
  <2>4. GreenInv'
    BY <2>1, <2>2, <2>3, GreenChanges, Zenon
  <2> QED BY <1>5, <1>6, <1>9, <2>3, <2>4, RunSame
<1> QED BY <1>0, <1>7, <1>8, <1>9

LEMMA ResumeMergeKept ==
  ASSUME Inv, NEW h \in Hosts, NEW g, ResumeMerge(h, g) PROVE Inv'
<1> USE DEF Inv
<1> DEFINE u == <<g>>
           P == parked[h] \ {g}
<1>0. /\ g \in parked[h] /\ g.call = <<>>
      /\ running' = [running EXCEPT ![h] = u] /\ parked' = [parked EXCEPT ![h] = P]
      /\ UNCHANGED <<phase, result, infoNet, dataNet, userNet, known, serving, backlog, queue, runs>>
      /\ UNCHANGED stateVars
  BY DEF ResumeMerge, gatewayVars, netVars, inboxVars
<1>1. IsGreenlet(h, g) /\ g.dests # <<>>
  BY <1>0 DEF GreenInv
<1>2. u # <<>> => /\ u = <<u[1]>> /\ IsGreenlet(h, u[1])
                  /\ u[1].dests # <<>> /\ u[1].call = <<>>
  BY <1>0, <1>1
<1>3. \A y \in P : /\ IsGreenlet(h, y)
                  /\ IF y.call = <<>> THEN y.dests # <<>> ELSE IsCall(h, y.data.req, y.call[1])
  BY DEF GreenInv
<1> HIDE DEF u, P
<1>4. GreenInv'
  BY <1>0, <1>2, <1>3, GreenChanges, Zenon
<1>5. GatewayInv' /\ NetInv' /\ InboxInv' /\ StateInv' /\ RunInv'
  BY <1>0, GatewaySame, NetSame, InboxSame, StateSame, RunSame
<1> QED BY <1>4, <1>5

LEMMA ResumeTriggerKept ==
  ASSUME Inv, NEW h \in Hosts, NEW g, ResumeTrigger(h, g) PROVE Inv'
<1> USE DEF Inv
<1> DEFINE w == [g EXCEPT !.call = <<>>]
           u == Continue(w)
           P == parked[h] \ {g}
           c == g.call[1]
<1>0. /\ g \in parked[h] /\ g.call # <<>> /\ Allocate(g.data.req, c.block, c.inputs)
      /\ running' = [running EXCEPT ![h] = u] /\ parked' = [parked EXCEPT ![h] = P]
      /\ UNCHANGED <<phase, result, infoNet, dataNet, userNet, known, serving, backlog, queue>>
      /\ UNCHANGED stateVars
  BY DEF ResumeTrigger, gatewayVars, netVars, inboxVars
<1>1. IsGreenlet(h, g) /\ IsCall(h, g.data.req, c)
  BY <1>0 DEF GreenInv
<1>2. IsGreenlet(h, w) /\ w.call = <<>>
  <2>1. /\ w.call = <<>> /\ w.data = g.data /\ w.sent = g.sent /\ w.dests = g.dests
        /\ DOMAIN w = DOMAIN g
    BY <1>1 DEF IsGreenlet
  <2> HIDE DEF w
  <2> QED BY <1>1, <2>1 DEF IsGreenlet
<1> HIDE DEF w
<1>3. u # <<>> => /\ u = <<u[1]>> /\ IsGreenlet(h, u[1])
                  /\ u[1].dests # <<>> /\ u[1].call = <<>>
  BY <1>2, Continues, Zenon
<1>4. \A y \in P : /\ IsGreenlet(h, y)
                  /\ IF y.call = <<>> THEN y.dests # <<>> ELSE IsCall(h, y.data.req, y.call[1])
  BY DEF GreenInv
<1> HIDE DEF u, P, c
<1>5. GreenInv'
  BY <1>0, <1>3, <1>4, GreenChanges, Zenon
<1>6. RunInv'
  BY <1>0, <1>1, Allocates DEF IsCall, IsGreenlet
<1>7. GatewayInv' /\ NetInv' /\ InboxInv' /\ StateInv'
  BY <1>0, GatewaySame, NetSame, InboxSame, StateSame
<1> QED BY <1>5, <1>6, <1>7

-----------------------------------------------------------------------------
(* The steps of the containers                                             *)

LEMMA RunType ==
  ASSUME Inv, NEW r \in runs
  PROVE  /\ IsRun(r) /\ Home[r.block] \in Hosts /\ r.req \in Requests
         /\ r.req \in known[Home[r.block]]
<1>1. IsRun(r)
  BY DEF Inv, RunInv
<1>2. Home[r.block] \in Hosts
  BY <1>1, HomeType DEF IsRun
<1> QED BY <1>1, <1>2 DEF IsRun, Inv, InboxInv

(* A run goes on, and sends d to its host or nothing.                      *)
LEMMA RunGoesOn ==
  ASSUME Inv, NEW r \in runs, NEW r2, IsRun(r2), Become(r, r2),
         UNCHANGED <<phase, result, infoNet, dataNet, userNet, known, serving, queue, running, parked>>,
         UNCHANGED stateVars,
         UNCHANGED backlog \/ \E d : /\ d.req = r.req /\ (d.kind # "fetched" => d \in Data)
                                   /\ Send(Home[r.block], d)
  PROVE  Inv'
<1> USE DEF Inv
<1>1. InboxInv'
  <2>1. CASE UNCHANGED backlog
    BY <2>1, InboxSame
  <2>2. CASE ~UNCHANGED backlog
    <3>1. PICK d : /\ d.req = r.req /\ (d.kind # "fetched" => d \in Data)
                   /\ Send(Home[r.block], d)
      BY <2>2
    <3> QED BY <3>1, RunType, BacklogAppend
  <2> QED BY <2>1, <2>2
<1>2. RunInv'
  BY RunBecomes
<1> QED BY <1>1, <1>2, GatewaySame, NetSame, GreenSame, StateSame

LEMMA StartRunKept ==
  ASSUME Inv, NEW r \in runs, StartRun(r) PROVE Inv'
<1>1. IsRun(r)
  BY RunType
<1>0. PICK s \in {"started", "failed"} : \E reads :
        \/ Become(r, [r EXCEPT !.state = s, !.reads = reads])
        \/ \E p \in Programs[r.block] :
             Become(r, [[r EXCEPT !.state = s, !.reads = reads] EXCEPT !.posts = p])
  BY DEF StartRun
<1>2. PICK reads :
        \/ Become(r, [r EXCEPT !.state = s, !.reads = reads])
        \/ \E p \in Programs[r.block] :
             Become(r, [[r EXCEPT !.state = s, !.reads = reads] EXCEPT !.posts = p])
  BY <1>0
<1> DEFINE w == [r EXCEPT !.state = s, !.reads = reads]
<1>3. IsRun(w)
  BY <1>1 DEF IsRun
<1>4. \A p \in Programs[r.block] : IsRun([w EXCEPT !.posts = p])
  <2> SUFFICES ASSUME NEW p \in Programs[r.block] PROVE IsRun([w EXCEPT !.posts = p])
    OBVIOUS
  <2>1. p \in Seq(Outs) /\ r.block \in Blocks
    BY <1>1, WorkflowAssumption DEF IsRun
  <2>2. p \in Seq(Outputs(r.block))
    <3>1. \A i \in 1..Len(p) : p[i] \in Range(p)
      BY <2>1 DEF Range
    <3>2. Range(p) \subseteq Outputs(r.block)
      BY DEF Outputs
    <3> QED BY <2>1, <3>1, <3>2
  <2>3. w.block = r.block
    BY <1>1 DEF IsRun
  <2> HIDE DEF w
  <2> QED BY <1>3, <2>1, <2>2, <2>3 DEF IsRun
<1>5. PICK r2 : IsRun(r2) /\ Become(r, r2)
  BY <1>2, <1>3, <1>4
<1>6. UNCHANGED <<phase, result, infoNet, dataNet, userNet, known, serving, backlog, queue,
                  running, parked>> /\ UNCHANGED stateVars
  BY DEF StartRun, gatewayVars, netVars, inboxVars, greenVars
<1> QED BY <1>5, <1>6, RunGoesOn

LEMMA FetchKept ==
  ASSUME Inv, NEW r \in runs, Fetch(r) PROVE Inv'
<1>1. IsRun(r)
  BY RunType
<1> DEFINE w == [r EXCEPT !.reads = Tail(@)]
           d == Report(r, Head(r.reads))
<1>2. IsRun(w)
  BY <1>1 DEF IsRun
<1>3. d.req = r.req /\ d.kind = "fetched"
  BY DEF Report, Datum
<1>4. /\ Become(r, w) /\ Send(Home[r.block], d)
      /\ UNCHANGED <<phase, result, infoNet, dataNet, userNet, known, serving, queue, running, parked>>
      /\ UNCHANGED stateVars
  BY DEF Fetch, gatewayVars, netVars, greenVars
<1> HIDE DEF w, d
<1> QED BY <1>2, <1>3, <1>4, RunGoesOn

LEMMA CountFailsKept ==
  ASSUME Inv, NEW r \in runs, CountFails(r) \/ Crash(r) PROVE Inv'
<1>1. IsRun(r)
  BY RunType
<1>2. PICK s \in {"failed", "crashed"}, u \in {r.uploads, <<>>} :
        Become(r, [r EXCEPT !.state = s, !.posts = <<>>, !.uploads = u])
  <2>1. CASE CountFails(r)
    <3>1. [r EXCEPT !.state = "failed", !.posts = <<>>]
            = [r EXCEPT !.state = "failed", !.posts = <<>>, !.uploads = r.uploads]
      BY <1>1 DEF IsRun
    <3> QED BY <2>1, <3>1 DEF CountFails
  <2>2. CASE Crash(r)
    BY <2>2 DEF Crash
  <2> QED BY <2>1, <2>2
<1> DEFINE w == [r EXCEPT !.state = s, !.posts = <<>>, !.uploads = u]
<1>3. IsRun(w)
  <2>1. r.uploads \in Seq(Data) /\ \A i \in 1..Len(r.uploads) : r.uploads[i].req = r.req
    BY <1>1 DEF IsRun
  <2>2. u = r.uploads \/ u = <<>>
    OBVIOUS
  <2>3. u \in Seq(Data) /\ \A i \in 1..Len(u) : u[i].req = r.req
    <3>1. CASE u = <<>>
      BY <3>1
    <3>2. CASE u = r.uploads
      BY <2>1, <3>2
    <3> QED BY <2>2, <3>1, <3>2
  <2> QED BY <1>1, <2>3 DEF IsRun
<1>4. UNCHANGED <<phase, result, infoNet, dataNet, userNet, known, serving, backlog, queue,
                  running, parked>> /\ UNCHANGED stateVars
  BY DEF CountFails, Crash, gatewayVars, netVars, inboxVars, greenVars
<1> HIDE DEF w
<1> QED BY <1>2, <1>3, <1>4, RunGoesOn DEF w

LEMMA NextDatumType ==
  ASSUME Inv, NEW r \in runs, r.posts # <<>>, ~NoItems(r), NEW k \in {"direct", "redis", "kafka"},
         k # "direct" => Head(r.posts) \in Big
  PROVE  NextDatum(r, k) \in Data /\ NextDatum(r, k).req = r.req /\ NextDatum(r, k).kind = k
<1>1. IsRun(r) /\ r.req \in Requests
  BY RunType
<1>2. r.posts \in Seq(Outs) /\ r.posted \in Seq(Outs) /\ r.serial \in Nat \cup {NoSerial}
  BY <1>1 DEF IsRun
<1> DEFINE o == Head(r.posts)
           before == {n \in 1..Len(r.posted) : r.posted[n] = o}
           items == {n \in 1..Len(r.posted) : OutType[r.posted[n]] = "FOREACH"}
           s == IF r.serial = NoSerial THEN Cardinality(before) ELSE r.serial
           v == IF o \in CntOuts THEN ForeachCount(r) ELSE 0
<1>3. o \in Outs
  BY <1>2
<1>4. Cardinality(before) \in Nat /\ Cardinality(items) \in Nat
  <2>1. IsFiniteSet(1..Len(r.posted))
    BY <1>2, FS_Interval
  <2>2. IsFiniteSet(before) /\ IsFiniteSet(items)
    BY <2>1, FS_Subset
  <2> QED BY <2>2, FS_CardinalityType
<1>5. s \in Nat /\ v \in Nat
  BY <1>2, <1>4 DEF ForeachCount, NoSerial
<1>6. NextDatum(r, k) = Datum(r.req, o, s, v, k)
  BY DEF NextDatum
<1>7. o \in CntOuts => v > 0
  BY <1>5 DEF NoItems
<1>8. k # "direct" => o \in Big \ Range(GlobalInputs)
  <2>1. o \in Outputs(r.block) /\ r.block \in Blocks
    BY <1>1 DEF IsRun
  <2> QED BY <2>1, PostingAssumption
<1> HIDE DEF s, v, o
<1> QED BY <1>1, <1>3, <1>5, <1>6, <1>7, <1>8, DatumType

LEMMA PostKept ==
  ASSUME Inv, NEW r \in runs, Post(r) PROVE Inv'
<1>1. IsRun(r)
  BY RunType
<1> DEFINE o == Head(r.posts)
           after == [r EXCEPT !.posts = Tail(@), !.posted = Append(@, o)]
           more == [after EXCEPT !.uploads = Append(@, NextDatum(r, "kafka"))]
<1>2. /\ r.posts # <<>> /\ ~NoItems(r)
      /\ UNCHANGED <<phase, result, infoNet, dataNet, userNet, known, serving, queue, running, parked>>
      /\ UNCHANGED stateVars
      /\ \/ UNCHANGED backlog
         \/ o \in Big /\ Send(Home[r.block], NextDatum(r, "redis"))
         \/ Send(Home[r.block], NextDatum(r, "direct"))
      /\ Become(r, after) \/ (o \in Big /\ Become(r, more))
  BY DEF Post, gatewayVars, netVars, greenVars
<1>3. /\ o \in Outs /\ Tail(r.posts) \in Seq(Outs) /\ Append(r.posted, o) \in Seq(Outs)
      /\ Tail(r.posts) \in Seq(Outputs(r.block))
  BY <1>1, <1>2 DEF IsRun
<1>4. /\ after.uploads = r.uploads /\ after.req = r.req
      /\ IsRun(after)
  BY <1>1, <1>3 DEF IsRun
<1>5. o \in Big => IsRun(more)
  <2> SUFFICES ASSUME o \in Big PROVE IsRun(more)
    OBVIOUS
  <2> DEFINE d == NextDatum(r, "kafka")
             us == Append(r.uploads, d)
  <2>1. d \in Data /\ d.req = r.req
    BY <1>2, NextDatumType
  <2>2. r.uploads \in Seq(Data) /\ \A i \in 1..Len(r.uploads) : r.uploads[i].req = r.req
    BY <1>1 DEF IsRun
  <2> HIDE DEF d
  <2>3. us \in Seq(Data) /\ \A i \in 1..Len(us) : us[i].req = r.req
    BY <2>1, <2>2
  <2> HIDE DEF us
  <2>4. more = [after EXCEPT !.uploads = us]
    BY <1>4 DEF us, d
  <2> HIDE DEF after, more
  <2> QED BY <1>4, <2>3, <2>4 DEF IsRun
<1> HIDE DEF after, more
<1>6. UNCHANGED backlog \/ \E d : /\ d.req = r.req /\ (d.kind # "fetched" => d \in Data)
                                /\ Send(Home[r.block], d)
  BY <1>2, NextDatumType
<1> QED BY <1>2, <1>4, <1>5, <1>6, RunGoesOn

LEMMA UploadKept ==
  ASSUME Inv, NEW r \in runs, Upload(r) PROVE Inv'
<1>1. IsRun(r)
  BY RunType
<1> DEFINE us == Tail(r.uploads)
           w == [r EXCEPT !.uploads = us]
           d == Head(r.uploads)
<1>2. r.uploads # <<>> /\ r.uploads \in Seq(Data) /\ \A i \in 1..Len(r.uploads) : r.uploads[i].req = r.req
  BY <1>1 DEF IsRun, Upload
<1>3. d \in Data /\ d.req = r.req /\ us \in Seq(Data) /\ \A i \in 1..Len(us) : us[i].req = r.req
  <2>1. 1 \in 1..Len(r.uploads) /\ d = r.uploads[1]
    BY <1>2
  <2>2. us \in Seq(Data) /\ \A i \in 1..Len(us) : us[i] = r.uploads[i + 1] /\ i + 1 \in 1..Len(r.uploads)
    BY <1>2
  <2> QED BY <1>2, <2>1, <2>2
<1>4. /\ Become(r, w) /\ Send(Home[r.block], d)
      /\ UNCHANGED <<phase, result, infoNet, dataNet, userNet, known, serving, queue, running, parked>>
      /\ UNCHANGED stateVars
  BY DEF Upload, gatewayVars, netVars, greenVars
<1> HIDE DEF us, d
<1>5. IsRun(w)
  BY <1>1, <1>3 DEF IsRun
<1> HIDE DEF w
<1> QED BY <1>3, <1>4, <1>5, RunGoesOn

LEMMA LosePostKept ==
  ASSUME Inv, LosePost PROVE Inv'
<1> USE DEF Inv
<1>1. UNCHANGED <<phase, result, known, serving, backlog, queue, running, parked, runs>>
      /\ UNCHANGED stateVars
  BY DEF LosePost, gatewayVars, inboxVars, greenVars
<1>2. infoNet' \subseteq infoNet /\ dataNet' \subseteq dataNet /\ userNet' \subseteq userNet
  BY DEF LosePost
<1>3. GatewayInv'
  BY <1>1, <1>2 DEF GatewayInv
<1> QED BY <1>1, <1>2, <1>3, NetSame, InboxSame, GreenSame, StateSame, RunSame

LEMMA NextInv == Inv /\ [Next]_vars => Inv'
<1> SUFFICES ASSUME Inv, [Next]_vars PROVE Inv'
  OBVIOUS
<1>1. ASSUME NEW q \in Requests, Run(q) \/ SendInputs(q) \/ Answer(q) \/ PostUserData(q) PROVE Inv'
  BY <1>1, RunInvKept, SendInputsKept, AnswerKept
<1>2. ASSUME NEW h \in Hosts, NEW q \in Requests, RequestInfo(h, q) PROVE Inv'
  BY <1>2, RequestInfoKept
<1>3. ASSUME NEW m \in dataNet, TransferData(m) PROVE Inv'
  BY <1>3, TransferDataKept
<1>4. ASSUME NEW h \in Hosts, SocketServer(h) \/ DispatchFetched(h) \/ Dispatch(h) PROVE Inv'
  BY <1>4, SocketServerKept, DispatchFetchedKept, DispatchKept
<1>5. ASSUME NEW h \in Hosts, ToUser(h) \/ ToRemote(h) \/ FlowForeach(h) \/ FlowMerge(h) \/ FlowNormal(h)
      PROVE  Inv'
  BY <1>5, ToUserKept, ToRemoteKept, FlowForeachKept, FlowMergeKept, FlowNormalKept
<1>6. ASSUME NEW h \in Hosts, NEW k, PrefetchData(h, k) \/ LosePrefetch(h, k) PROVE Inv'
  BY <1>6, PrefetchDataKept
<1>7. ASSUME NEW h \in Hosts, NEW g, ResumeMerge(h, g) \/ ResumeTrigger(h, g) PROVE Inv'
  BY <1>7, ResumeMergeKept, ResumeTriggerKept
<1>8. ASSUME NEW r \in runs, StartRun(r) \/ Fetch(r) \/ Post(r) \/ CountFails(r) \/ Upload(r) \/ Crash(r)
      PROVE  Inv'
  BY <1>8, StartRunKept, FetchKept, PostKept, CountFailsKept, UploadKept
<1>9. CASE Step
  BY <1>1, <1>2, <1>3, <1>4, <1>5, <1>6, <1>7, <1>8, <1>9 DEF Step
<1>10. CASE Fault
  BY <1>6, <1>8, <1>10, LosePostKept DEF Fault
<1>11. CASE UNCHANGED vars
  BY <1>11, GatewaySame, NetSame, InboxSame, GreenSame, StateSame, RunSame
     DEF Inv, vars, gatewayVars, netVars, inboxVars, greenVars
<1> QED BY <1>9, <1>10, <1>11 DEF Next

-----------------------------------------------------------------------------
(* Theorems                                                                *)

(* In every reachable state the inductive invariant holds.                 *)
THEOREM Invariance == Spec => []Inv
BY InitInv, NextInv, PTL DEF Spec

(* The socket_server greenlet of a worker never ends: every message on its *)
(* port is of a request that the worker knows, even when posts are lost.   *)
THEOREM ServerLives == Spec => []SocketServerLives
<1>1. Inv => SocketServerLives
  <2> SUFFICES ASSUME Inv, NEW h \in Hosts
               PROVE  serving[h] /\ \A d \in Range(backlog[h]) : d.req \in known[h]
    BY DEF SocketServerLives
  <2>1. IsInbox(h, backlog[h]) /\ serving[h]
    BY DEF Inv, InboxInv
  <2>2. \A d \in Range(backlog[h]) : \E i \in 1..Len(backlog[h]) : d = backlog[h][i]
    BY <2>1 DEF IsInbox, Range
  <2> QED BY <2>1, <2>2 DEF IsInbox
<1> QED BY <1>1, Invariance, PTL

-----------------------------------------------------------------------------
(***************************************************************************)
(* No instance of a block of WorkerSP is triggered twice, whatever is      *)
(* delayed, reordered or lost.                                             *)
(*                                                                         *)
(* A delivery is a datum on its way to one destination, <<key, dest>>.     *)
(* What the user posts is left aside: it is NORMAL, and a worker ignores a *)
(* NORMAL input that it has.                                               *)
(***************************************************************************)


(* The deliveries that a message d on host h, a list s of messages, the    *)
(* uploads of run r, and a greenlet g of h have still to make.             *)
Due(h, d) ==
  IF d.kind = "fetched" \/ d.out \in Range(GlobalInputs) THEN {}
  ELSE {<<Key(d), x>> : x \in {x \in Range(Dest[d.out]) : x.block # User /\ WorkFor(h, d, x)}}
DueOf(h, s) == UNION {Due(h, s[i]) : i \in 1..Len(s)}
RunDue(r) == DueOf(Home[r.block], r.uploads)
DueBy(h, g) ==
  IF g.data.out \in Range(GlobalInputs) THEN {}
  ELSE {<<Key(g.data), x>> : x \in
          {x \in Range(Dest[g.data.out]) :
             /\ x.block # User
             /\ IF Home[x.block] = h THEN x \in Range(g.dests)
                ELSE WorkFor(h, g.data, x) /\ Home[x.block] \notin g.sent}}

EachOnce(h, s) == \A i, j \in 1..Len(s) : i # j => Due(h, s[i]) \cap Due(h, s[j]) = {}

(* The instances that are in a container's queue or about to be.           *)
RunId(r) == <<r.req, r.block, r.serial>>
CallId(g) == <<g.data.req, g.call[1].block, BlockSerial(g.call[1].block, g.call[1].inputs)>>
Calls(h) == {g \in parked[h] : g.call # <<>>}
Fired == {RunId(r) : r \in runs} \cup UNION {{CallId(g) : g \in Calls(h)} : h \in Hosts}

(* Where a delivery may be, and which ones are there.                      *)
Places == {<<"run", RunId(r)>> : r \in runs}
          \cup {<<"backlog", h>> : h \in Hosts} \cup {<<"queue", h>> : h \in Hosts}
          \cup {<<"net", m>> : m \in dataNet} \cup {<<"running", h>> : h \in Hosts}
          \cup UNION {{<<"parked", <<h, g>>>> : g \in parked[h]} : h \in Hosts}
Held(p) ==
  CASE p[1] = "run"     -> UNION {RunDue(r) : r \in {r \in runs : RunId(r) = p[2]}}
    [] p[1] = "backlog" -> DueOf(p[2], backlog[p[2]])
    [] p[1] = "queue"   -> DueOf(p[2], queue[p[2]])
    [] p[1] = "net"     -> IF p[2] \in dataNet THEN DueOf(p[2].to, p[2].datas) ELSE {}
    [] p[1] = "running" -> IF running[p[2]] = <<>> THEN {} ELSE DueBy(p[2], running[p[2]][1])
    [] p[1] = "parked"  -> IF p[2][2] \in parked[p[2][1]] THEN DueBy(p[2][1], p[2][2]) ELSE {}

(* What the blocks have posted, and the deliveries that have had their     *)
(* effect: an item has triggered its instance, a result is in its list.    *)
ProducedBy(r) == {DatumPosted(r, n) : n \in 1..Len(r.posted)}
Sent == UNION {ProducedBy(r) : r \in runs}
Got(t) ==
  LET q == t[1][1]  o == t[1][2]  s == t[1][3]  x == t[2] IN
  \/ OutType[o] = "FOREACH" /\ <<q, x.block, s>> \in Fired
  \/ /\ OutType[o] = "MERGE" /\ x.input \in DOMAIN inputDatas[q][x.block]
     /\ s \in DOMAIN inputDatas[q][x.block][x.input]

IsDelivery(t) ==
  /\ t = <<<<t[1][1], t[1][2], t[1][3]>>, t[2]>>
  /\ t[1][1] \in Requests /\ t[1][2] \in Outs /\ t[1][3] \in Nat
  /\ t[2] \in Range(Dest[t[1][2]]) /\ t[2].block # User

(* The destination's host has registered the datum, and a greenlet of that *)
(* host has the delivery.                                                  *)
Registers(t) == t[1] \in DOMAIN deps[Home[t[2].block]]
AtHome(p, t) ==
  LET h == Home[t[2].block] IN
  (p[1] = "running" /\ p[2] = h) \/ (p[1] = "parked" /\ p[2][1] = h)

(* What a host has registered for blocks of its own was posted by a block. *)
KeysInv ==
  /\ DOMAIN deps = Hosts
  /\ \A h \in Hosts : \A k \in DOMAIN deps[h] : BlocksAt(k[2], h) # {} => k \in Sent

(* A delivery is in one place, once, and has had no effect yet: its key is *)
(* registered when a greenlet of its host takes it up, and not before.     *)
OnceInv ==
  /\ \A h \in Hosts : EachOnce(h, backlog[h]) /\ EachOnce(h, queue[h])
  /\ \A r \in runs : EachOnce(Home[r.block], r.uploads)
  /\ \A m \in dataNet : EachOnce(m.to, m.datas)
  /\ \A h \in Hosts : running[h] # <<>> => IsInjective(running[h][1].dests)
  /\ \A h \in Hosts : \A g \in parked[h] : IsInjective(g.dests)
ApartInv == \A p, u \in Places : p # u => Held(p) \cap Held(u) = {}
AheadInv ==
  /\ \A p \in Places : \A t \in Held(p) :
       IsDelivery(t) /\ ~Got(t) /\ t[1] \in Sent /\ (Registers(t) => AtHome(p, t))
  /\ KeysInv

(* What has had its effect was posted.                                     *)
GotInv ==
  \A o \in Outs : \A x \in Range(Dest[o]) : x.block # User =>
    /\ OutType[o] = "FOREACH" => \A f \in Fired : f[2] = x.block => <<f[1], o, f[3]>> \in Sent
    /\ OutType[o] = "MERGE" => \A q \in Requests :
         x.input \in DOMAIN inputDatas[q][x.block] =>
           \A s \in DOMAIN inputDatas[q][x.block][x.input] : <<q, o, s>> \in Sent

(* A worker learns of a request once, before anything is sent.             *)
InfoInv ==
  \A q \in Requests, h \in Hosts :
    /\ phase[q] = "idle" => q \notin known[h] /\ <<h, q>> \notin infoNet
    /\ <<h, q>> \in infoNet => q \notin known[h]

(* Items trigger instances with their serial, and are not stored.          *)
InstInv ==
  /\ \A f \in Fired : ForeachBlock(f[2]) <=> f[3] # NoSerial
  /\ \A q \in Requests, b \in Blocks : \A i \in DOMAIN inputDatas[q][b] :
       Inputs[b][i] = "NORMAL" => OutType[inputDatas[q][b][i].out] = "NORMAL"

(* An instance is triggered once: it is in one run or one greenlet's call. *)
FireInv ==
  /\ \A r, s \in runs : RunId(r) = RunId(s) => r = s
  /\ \A r \in runs : r.nth = 1
  /\ \A h \in Hosts : \A g \in Calls(h) : \A r \in runs : RunId(r) # CallId(g)
  /\ \A h, k \in Hosts : \A g \in Calls(h), e \in Calls(k) : CallId(g) = CallId(e) => h = k /\ g = e

(* A run posts the outputs of its block, an item's run each of them once.  *)
PostsOnce(r) ==
  /\ Range(r.posted) \cup Range(r.posts) \subseteq Outputs(r.block)
  /\ ForeachBlock(r.block) => /\ IsInjective(r.posted) /\ IsInjective(r.posts)
                              /\ Range(r.posted) \cap Range(r.posts) = {}
  /\ r.state = "queued" => r.posted = <<>> /\ r.posts = <<>>
PostInv == \A r \in runs : PostsOnce(r)

(* inputCnt counts the complete inputs, and what a count has triggered had *)
(* all of them.                                                            *)
Complete(q, b) ==
  LET ins == inputDatas[q][b] IN
  {i \in DOMAIN ins : Inputs[b][i] = "LIST" =>
     Cnt \in DOMAIN ins /\ Cardinality(DOMAIN ins[i]) >= ins[Cnt].val}
CountInv ==
  /\ \A q \in Requests, b \in Blocks :
       /\ inputCnt[q][b] = Cardinality(Complete(q, b))
       /\ Cnt \notin DOMAIN inputDatas[q][b] =>
            \A i \in DOMAIN inputDatas[q][b] : Inputs[b][i] = "LIST" => DOMAIN inputDatas[q][b][i] = {}
  /\ \A f \in Fired : f[3] = NoSerial => inputCnt[f[1]][f[2]] >= Cardinality(DOMAIN Inputs[f[2]])

DeliveryInv == OnceInv /\ ApartInv /\ AheadInv
HistoryInv == GotInv /\ InfoInv /\ InstInv /\ FireInv /\ PostInv /\ CountInv
IInv == Inv /\ DeliveryInv /\ HistoryInv

-----------------------------------------------------------------------------
(* Deliveries                                                              *)

LEMMA DestType ==
  ASSUME NEW o \in Outs, NEW x \in Range(Dest[o]), x.block # User
  PROVE  /\ x.block \in Blocks /\ x.input \in DOMAIN Inputs[x.block]
         /\ (OutType[o] = "MERGE") <=> (Inputs[x.block][x.input] = "LIST")
BY WorkflowAssumption

LEMMA DueIsDelivery ==
  ASSUME NEW h, NEW d \in Data, NEW t \in Due(h, d)
  PROVE  IsDelivery(t) /\ t[1] = Key(d) /\ WorkFor(h, d, t[2]) /\ d.out \notin Range(GlobalInputs)
<1>1. PICK x \in Range(Dest[d.out]) : t = <<Key(d), x>> /\ x.block # User /\ WorkFor(h, d, x)
  BY DEF Due
<1>2. d.req \in Requests /\ d.out \in Outs /\ d.serial \in Nat
  BY DEF Data
<1>3. t[1] = <<d.req, d.out, d.serial>> /\ t[2] = x
  BY <1>1 DEF Key
<1>4. d.out \notin Range(GlobalInputs)
  BY DEF Due
<1> QED BY <1>1, <1>2, <1>3, <1>4 DEF IsDelivery, Key

LEMMA DueAppend ==
  ASSUME NEW h, NEW s, s \in Seq(Range(s)), NEW d
  PROVE  /\ DueOf(h, Append(s, d)) = DueOf(h, s) \cup Due(h, d)
         /\ EachOnce(h, s) /\ Due(h, d) \cap DueOf(h, s) = {} => EachOnce(h, Append(s, d))
<1> DEFINE a == Append(s, d)
<1>1. Len(a) = Len(s) + 1 /\ a[Len(s) + 1] = d /\ \A i \in 1..Len(s) : a[i] = s[i]
  BY AppendIs
<1>2. Len(s) \in Nat
  OBVIOUS
<1> HIDE DEF a
<1>3. 1..Len(a) = (1..Len(s)) \cup {Len(s) + 1}
  BY <1>1, <1>2
<1>4. DueOf(h, a) = DueOf(h, s) \cup Due(h, d)
  <2>1. DueOf(h, a) = UNION {Due(h, a[i]) : i \in (1..Len(s)) \cup {Len(s) + 1}}
    BY <1>3 DEF DueOf
  <2>2. \A i \in 1..Len(s) : Due(h, a[i]) = Due(h, s[i])
    BY <1>1
  <2>3. Due(h, a[Len(s) + 1]) = Due(h, d)
    BY <1>1
  <2> HIDE DEF a
  <2> QED BY <2>1, <2>2, <2>3, Zenon DEF DueOf
<1>5. ASSUME EachOnce(h, s), Due(h, d) \cap DueOf(h, s) = {} PROVE EachOnce(h, a)
  <2> SUFFICES ASSUME NEW i \in 1..Len(a), NEW j \in 1..Len(a), i # j
               PROVE  Due(h, a[i]) \cap Due(h, a[j]) = {}
    BY DEF EachOnce
  <2>1. \A k \in 1..Len(s) : Due(h, s[k]) \subseteq DueOf(h, s)
    BY DEF DueOf
  <2>2. CASE i \in 1..Len(s) /\ j \in 1..Len(s)
    BY <1>1, <1>5, <2>2 DEF EachOnce
  <2>3. CASE i \in 1..Len(s) /\ j = Len(s) + 1
    BY <1>1, <1>5, <2>1, <2>3
  <2>4. CASE j \in 1..Len(s) /\ i = Len(s) + 1
    BY <1>1, <1>5, <2>1, <2>4
  <2> QED BY <1>3, <2>2, <2>3, <2>4
<1> QED BY <1>4, <1>5 DEF a

LEMMA DueTail ==
  ASSUME NEW h, NEW s, s \in Seq(Range(s)), s # <<>>
  PROVE  /\ DueOf(h, Tail(s)) \subseteq DueOf(h, s) /\ Due(h, Head(s)) \subseteq DueOf(h, s)
         /\ EachOnce(h, s) => /\ EachOnce(h, Tail(s))
                              /\ Due(h, Head(s)) \cap DueOf(h, Tail(s)) = {}
<1> DEFINE a == Tail(s)
<1>1. /\ Len(a) = Len(s) - 1 /\ Len(s) >= 1 /\ Head(s) = s[1]
      /\ \A i \in 1..Len(a) : a[i] = s[i + 1]
  BY TailIs
<1>2. Len(s) \in Nat
  OBVIOUS
<1> HIDE DEF a
<1>3. /\ \A i \in 1..Len(a) : i + 1 \in 1..Len(s) /\ i + 1 # 1
      /\ \A i, j \in 1..Len(a) : i # j => i + 1 # j + 1
      /\ 1 \in 1..Len(s)
  BY <1>1, <1>2
<1>4. DueOf(h, a) \subseteq DueOf(h, s)
  BY <1>1, <1>3 DEF DueOf
<1>5. Due(h, Head(s)) \subseteq DueOf(h, s)
  BY <1>1, <1>3 DEF DueOf
<1>6. ASSUME EachOnce(h, s) PROVE EachOnce(h, a)
  BY <1>1, <1>3, <1>6 DEF EachOnce
<1>7. ASSUME EachOnce(h, s) PROVE Due(h, Head(s)) \cap DueOf(h, a) = {}
  <2>1. \A i \in 1..Len(a) : Due(h, s[1]) \cap Due(h, s[i + 1]) = {}
    BY <1>3, <1>7 DEF EachOnce
  <2> QED BY <1>1, <2>1 DEF DueOf
<1> QED BY <1>4, <1>5, <1>6, <1>7 DEF a

LEMMA DueConcat ==
  ASSUME NEW h, NEW s, s \in Seq(Range(s)), NEW S, NEW t \in Seq(S)
  PROVE  /\ DueOf(h, s \o t) \subseteq DueOf(h, s) \cup DueOf(h, t)
         /\ /\ EachOnce(h, s) /\ EachOnce(h, t)
            /\ DueOf(h, t) \cap DueOf(h, s) = {}
            => EachOnce(h, s \o t)
<1> DEFINE a == s \o t
<1>1. /\ Len(a) = Len(s) + Len(t)
      /\ \A i \in 1..Len(s) : a[i] = s[i]
      /\ \A i \in 1..Len(t) : a[Len(s) + i] = t[i]
  BY ConcatIs
<1>2. Len(s) \in Nat /\ Len(t) \in Nat
  OBVIOUS
<1> HIDE DEF a
<1>3. \A i \in 1..Len(a) : i \notin 1..Len(s) => /\ i - Len(s) \in 1..Len(t)
                                                 /\ Len(s) + (i - Len(s)) = i
  BY <1>1, <1>2
<1>4. \A i \in 1..Len(a) : i \notin 1..Len(s) => a[i] = t[i - Len(s)]
  BY <1>1, <1>3
<1>5. \A i \in 1..Len(a) : \/ i \in 1..Len(s) /\ Due(h, a[i]) \subseteq DueOf(h, s)
                           \/ i \notin 1..Len(s) /\ Due(h, a[i]) \subseteq DueOf(h, t)
  <2> SUFFICES ASSUME NEW i \in 1..Len(a)
               PROVE  \/ i \in 1..Len(s) /\ Due(h, a[i]) \subseteq DueOf(h, s)
                      \/ i \notin 1..Len(s) /\ Due(h, a[i]) \subseteq DueOf(h, t)
    OBVIOUS
  <2>1. CASE i \in 1..Len(s)
    BY <1>1, <2>1 DEF DueOf
  <2>2. CASE i \notin 1..Len(s)
    <3> DEFINE k == i - Len(s)
    <3>1. a[i] = t[k] /\ k \in 1..Len(t)
      BY <1>3, <1>4, <2>2
    <3> HIDE DEF k
    <3> QED BY <2>2, <3>1 DEF DueOf
  <2> QED BY <2>1, <2>2
<1>6. DueOf(h, a) \subseteq DueOf(h, s) \cup DueOf(h, t)
  BY <1>5 DEF DueOf
<1>7. ASSUME EachOnce(h, s), EachOnce(h, t), DueOf(h, t) \cap DueOf(h, s) = {} PROVE EachOnce(h, a)
  <2> SUFFICES ASSUME NEW i \in 1..Len(a), NEW j \in 1..Len(a), i # j
               PROVE  Due(h, a[i]) \cap Due(h, a[j]) = {}
    BY DEF EachOnce
  <2>1. CASE i \in 1..Len(s) /\ j \in 1..Len(s)
    BY <1>1, <1>7, <2>1 DEF EachOnce
  <2>2. CASE i \notin 1..Len(s) /\ j \notin 1..Len(s)
    <3>1. i - Len(s) # j - Len(s)
      BY <1>1, <1>2
    <3> QED BY <1>3, <1>4, <1>7, <2>2, <3>1 DEF EachOnce
  <2>3. CASE i \in 1..Len(s) /\ j \notin 1..Len(s)
    BY <1>5, <1>7, <2>3
  <2>4. CASE i \notin 1..Len(s) /\ j \in 1..Len(s)
    BY <1>5, <1>7, <2>4
  <2> QED BY <2>1, <2>2, <2>3, <2>4
<1> QED BY <1>6, <1>7 DEF a

LEMMA InRange ==
  ASSUME NEW S, NEW s \in Seq(S)
  PROVE  s \in Seq(Range(s)) /\ Range(s) \subseteq S /\ DOMAIN s = 1..Len(s)
<1>1. DOMAIN s = 1..Len(s) /\ \A i \in 1..Len(s) : s[i] \in S
  OBVIOUS
<1>2. \A i \in 1..Len(s) : s[i] \in Range(s)
  BY <1>1 DEF Range
<1>3. s \in Seq(Range(s))
  BY <1>2
<1> QED BY <1>1, <1>3 DEF Range

LEMMA GreenletDue ==
  ASSUME NEW h, NEW d \in Data
  PROVE  /\ IsInjective(Greenlet(h, d).dests) /\ Greenlet(h, d).data = d
         /\ DueBy(h, Greenlet(h, d)) \subseteq Due(h, d)
<1> DEFINE todo == {i \in 1..Len(Dest[d.out]) : WorkFor(h, d, Dest[d.out][i])}
           rest == Subsequence(Dest[d.out], todo)
<1>1. d.out \in Outs /\ d.kind # "fetched"
  BY DEF Data
<1>2. Dest[d.out] \in Seq(Range(Dest[d.out])) /\ IsInjective(Dest[d.out])
  BY <1>1, WorkflowAssumption
<1>7. \A i, j \in todo \cap (1..Len(Dest[d.out])) : Dest[d.out][i] = Dest[d.out][j] => i = j
  BY <1>2 DEF IsInjective
<1>8. ASSUME NEW s \in Seq(Range(Dest[d.out])), NEW P,
             \A i, j \in P \cap (1..Len(s)) : s[i] = s[j] => i = j
      PROVE  Range(Subsequence(s, P)) = {s[i] : i \in P \cap (1..Len(s))} /\ IsInjective(Subsequence(s, P))
  <2>1. Range(Subsequence(s, P)) = {s[i] : i \in P \cap (1..Len(s))}
    BY SubsequenceIs
  <2>2. (\A i, j \in P \cap (1..Len(s)) : s[i] = s[j] => i = j) => IsInjective(Subsequence(s, P))
    BY <1>8, SubsequenceIs, Zenon
  <2> QED BY <1>8, <2>1, <2>2, Zenon
<1>3. /\ Range(rest) = {Dest[d.out][i] : i \in todo \cap (1..Len(Dest[d.out]))}
      /\ IsInjective(rest)
  <2> HIDE DEF todo
  <2> QED BY <1>2, <1>7, <1>8
<1>4. /\ Greenlet(h, d).data = d /\ Greenlet(h, d).dests = rest /\ Greenlet(h, d).sent = {}
  BY DEF Greenlet
<1>5. \A x \in Range(rest) : WorkFor(h, d, x)
  BY <1>3
<1> HIDE DEF rest, todo
<1>6. DueBy(h, Greenlet(h, d)) \subseteq Due(h, d)
  BY <1>1, <1>4, <1>5 DEF DueBy, Due
<1> QED BY <1>3, <1>4, <1>6

(* A greenlet passes a destination.                                        *)
LEMMA AdvanceDue ==
  ASSUME NEW h, NEW g, IsGreenlet(h, g), g.dests # <<>>, IsInjective(g.dests)
  PROVE  /\ IsInjective(Advance(g).dests) /\ DueBy(h, Advance(g)) \subseteq DueBy(h, g)
         /\ Head(g.dests).block # User /\ Home[Head(g.dests).block] = h =>
              /\ <<Key(g.data), Head(g.dests)>> \notin DueBy(h, Advance(g))
              /\ g.data.out \notin Range(GlobalInputs) =>
                   <<Key(g.data), Head(g.dests)>> \in DueBy(h, g)
<1> DEFINE a == Tail(g.dests)
           x == Head(g.dests)
<1>1. g.dests \in Seq(Range(g.dests)) /\ DOMAIN g.dests = 1..Len(g.dests)
  BY InRange DEF IsGreenlet
<1>2. /\ a \in Seq(Range(a)) /\ Len(a) = Len(g.dests) - 1 /\ Len(g.dests) >= 1 /\ x = g.dests[1]
      /\ \A i \in 1..Len(a) : a[i] = g.dests[i + 1]
  BY <1>1, TailIs
<1>3. /\ Advance(g).data = g.data /\ Advance(g).sent = g.sent /\ Advance(g).dests = a
  BY AdvanceType
<1>4. x \in Range(Dest[g.data.out])
  BY HeadType
<1>11. DOMAIN a = 1..Len(a) /\ Len(g.dests) \in Nat
  BY <1>1, <1>2
<1> HIDE DEF a, x
<1>5. /\ \A i \in 1..Len(a) : i + 1 \in 1..Len(g.dests) /\ i + 1 # 1
      /\ \A i, j \in 1..Len(a) : i + 1 = j + 1 => i = j
      /\ 1 \in 1..Len(g.dests)
  BY <1>1, <1>2, <1>11
<1>12. x \in Range(g.dests)
  BY <1>1, <1>2, <1>5 DEF Range
<1>6. \A i, j \in 1..Len(g.dests) : g.dests[i] = g.dests[j] => i = j
  BY <1>1 DEF IsInjective
<1>7. IsInjective(a)
  BY <1>2, <1>5, <1>6, <1>11 DEF IsInjective
<1>8. Range(a) \subseteq Range(g.dests) /\ x \notin Range(a)
  <2> SUFFICES ASSUME NEW i \in 1..Len(a) PROVE a[i] \in Range(g.dests) /\ a[i] # x
    BY <1>11 DEF Range
  <2>1. a[i] = g.dests[i + 1] /\ i + 1 \in 1..Len(g.dests) /\ i + 1 # 1
    BY <1>2, <1>5
  <2> QED BY <1>1, <1>2, <1>5, <1>6, <2>1 DEF Range
<1>9. DueBy(h, Advance(g)) \subseteq DueBy(h, g)
  BY <1>3, <1>8 DEF DueBy
<1>10. ASSUME x.block # User, Home[x.block] = h
       PROVE  /\ <<Key(g.data), x>> \notin DueBy(h, Advance(g))
              /\ g.data.out \notin Range(GlobalInputs) => <<Key(g.data), x>> \in DueBy(h, g)
  BY <1>3, <1>4, <1>8, <1>10, <1>12 DEF DueBy
<1> QED BY <1>3, <1>7, <1>9, <1>10 DEF x

(* A greenlet sends its datum to the remote host k.                        *)
LEMMA RemoteDue ==
  ASSUME NEW h, NEW g, IsGreenlet(h, g), g.dests # <<>>, IsInjective(g.dests),
         NEW k, Head(g.dests).block # User, k = Home[Head(g.dests).block], k # h
  PROVE  LET d == [g.data EXCEPT !.fromLocal = FALSE]
             w == [g EXCEPT !.sent = @ \cup {k}]
         IN /\ Advance(w).dests = Tail(g.dests) /\ IsInjective(Advance(w).dests)
            /\ DueBy(h, Advance(w)) \subseteq DueBy(h, g)
            /\ k \notin g.sent => Due(k, d) \subseteq DueBy(h, g)
            /\ Due(k, d) \cap DueBy(h, Advance(w)) = {}
<1> DEFINE d == [g.data EXCEPT !.fromLocal = FALSE]
           w == [g EXCEPT !.sent = @ \cup {k}]
           x == Head(g.dests)
<1>1. DOMAIN g = {"data", "sent", "call", "dests"} /\ g.data \in Data
  BY DEF IsGreenlet
<1>2. /\ w.sent = g.sent \cup {k} /\ w.data = g.data /\ w.dests = g.dests
      /\ Advance(w).data = g.data /\ Advance(w).sent = g.sent \cup {k}
      /\ Advance(w).dests = Tail(g.dests) /\ Advance(g).dests = Tail(g.dests)
      /\ Advance(g).data = g.data /\ Advance(g).sent = g.sent
  BY <1>1 DEF Advance
<1>3. IsInjective(Advance(g).dests) /\ DueBy(h, Advance(g)) \subseteq DueBy(h, g)
  BY AdvanceDue
<1>4. DueBy(h, Advance(w)) \subseteq DueBy(h, Advance(g))
  <2> DEFINE v == Advance(w)
             u == Advance(g)
  <2>1. v.data = u.data /\ v.dests = u.dests /\ u.sent \subseteq v.sent
    BY <1>2
  <2> HIDE DEF v, u
  <2>2. DueBy(h, v) \subseteq DueBy(h, u)
    BY <2>1 DEF DueBy
  <2> QED BY <2>2 DEF v, u
<1>5. d.out = g.data.out /\ Key(d) = Key(g.data) /\ d.kind = g.data.kind /\ d.fromLocal = FALSE
      /\ d.kind # "fetched"
  BY <1>1 DEF Data, Key
<1> HIDE DEF d, w
<1>6. x \in Range(Dest[g.data.out]) /\ WorkFor(h, g.data, x)
  BY HeadType
<1> HIDE DEF x
<1>7. x.block # User /\ Home[x.block] = k
  BY DEF x
<1>8. \A y : y.block # User /\ WorkFor(k, d, y) => Home[y.block] = k
  BY <1>5 DEF WorkFor
<1>9. \A y : y.block # User /\ Home[y.block] = k => WorkFor(h, g.data, y)
  BY <1>6, <1>7 DEF WorkFor
<1>10. \A y : <<Key(g.data), y>> \in Due(k, d) =>
         /\ y \in Range(Dest[g.data.out]) /\ y.block # User /\ Home[y.block] = k
         /\ g.data.out \notin Range(GlobalInputs)
  BY <1>5, <1>8 DEF Due
<1>11. \A t \in Due(k, d) : t = <<Key(g.data), t[2]>>
  BY <1>5 DEF Due
<1>12. ASSUME k \notin g.sent PROVE Due(k, d) \subseteq DueBy(h, g)
  <2> SUFFICES ASSUME NEW t \in Due(k, d) PROVE t \in DueBy(h, g)
    OBVIOUS
  <2>1. PICK y : t = <<Key(g.data), y>>
    BY <1>11
  <2>2. /\ y \in Range(Dest[g.data.out]) /\ y.block # User /\ Home[y.block] = k
        /\ g.data.out \notin Range(GlobalInputs) /\ WorkFor(h, g.data, y)
    BY <1>9, <1>10, <2>1
  <2> QED BY <1>12, <2>1, <2>2 DEF DueBy
<1>13. Due(k, d) \cap DueBy(h, Advance(w)) = {}
  <2> SUFFICES ASSUME NEW t \in Due(k, d), t \in DueBy(h, Advance(w)) PROVE FALSE
    OBVIOUS
  <2>1. PICK y : t = <<Key(g.data), y>>
    BY <1>11
  <2>2. Home[y.block] = k
    BY <1>10, <2>1
  <2> QED BY <1>2, <2>1, <2>2 DEF DueBy
<1> QED BY <1>2, <1>3, <1>4, <1>12, <1>13 DEF d, w

(* N goes away from place c, and M, a part of it, to place a.              *)
LEMMA Moves ==
  ASSUME NEW P, NEW Q, NEW T, NEW U, NEW a, NEW c, NEW M, NEW N,
         \A p, u \in P \cup Q : p # u => T[p] \cap T[u] = {},
         N \subseteq T[c], M \subseteq N, c \in P,
         \A p \in Q \ {a, c} : U[p] \subseteq T[p],
         c \in Q => U[c] \subseteq (T[c] \ N) \cup (IF a = c THEN M ELSE {}),
         a \in Q /\ a # c => U[a] \subseteq T[a] \cup M
  PROVE  \A p \in Q : \A t \in U[p] : (t \in T[p] /\ t \notin N) \/ (p = a /\ t \in M)
<1>1. \A p \in Q : U[p] \subseteq (T[p] \ N) \cup (IF p = a THEN M ELSE {})
  <2> SUFFICES ASSUME NEW p \in Q
               PROVE  U[p] \subseteq (T[p] \ N) \cup (IF p = a THEN M ELSE {})
    OBVIOUS
  <2>1. CASE p = c
    BY <2>1
  <2>2. CASE p # c
    <3>1. T[p] \cap N = {}
      BY <2>2
    <3> QED BY <2>2, <3>1
  <2> QED BY <2>1, <2>2
<1> QED BY <1>1

-----------------------------------------------------------------------------
(* Places                                                                  *)

HeldFacts ==
  /\ \A h : Held(<<"backlog", h>>) = DueOf(h, backlog[h])
  /\ \A h : Held(<<"queue", h>>) = DueOf(h, queue[h])
  /\ \A m : Held(<<"net", m>>) = IF m \in dataNet THEN DueOf(m.to, m.datas) ELSE {}
  /\ \A h : Held(<<"running", h>>) = IF running[h] = <<>> THEN {} ELSE DueBy(h, running[h][1])
  /\ \A h, g : Held(<<"parked", <<h, g>>>>) = IF g \in parked[h] THEN DueBy(h, g) ELSE {}
  /\ \A i : Held(<<"run", i>>) = UNION {RunDue(r) : r \in {r \in runs : RunId(r) = i}}

LEMMA HeldIs == HeldFacts /\ HeldFacts'
<1>1. HeldFacts
  BY DEF HeldFacts, Held
<1>2. HeldFacts'
  BY DEF HeldFacts, Held
<1> QED BY <1>1, <1>2

PlaceFacts ==
  /\ \A h \in Hosts : /\ <<"backlog", h>> \in Places /\ <<"queue", h>> \in Places
                      /\ <<"running", h>> \in Places
  /\ \A m : <<"net", m>> \in Places <=> m \in dataNet
  /\ \A h, g : <<"parked", <<h, g>>>> \in Places <=> h \in Hosts /\ g \in parked[h]
  /\ \A i : <<"run", i>> \in Places <=> \E r \in runs : i = RunId(r)
  /\ \A p \in Places :
       \/ \E h \in Hosts : p = <<"backlog", h>> \/ p = <<"queue", h>> \/ p = <<"running", h>>
       \/ \E m \in dataNet : p = <<"net", m>>
       \/ \E h \in Hosts : \E g \in parked[h] : p = <<"parked", <<h, g>>>>
       \/ \E r \in runs : p = <<"run", RunId(r)>>

LEMMA PlacesAre == PlaceFacts /\ PlaceFacts'
<1>1. PlaceFacts
  <2>1. \A h \in Hosts : /\ <<"backlog", h>> \in Places /\ <<"queue", h>> \in Places
                         /\ <<"running", h>> \in Places
    BY DEF Places
  <2>2. \A m : <<"net", m>> \in Places <=> m \in dataNet
    BY DEF Places
  <2>3. \A h, g : <<"parked", <<h, g>>>> \in Places <=> h \in Hosts /\ g \in parked[h]
    BY DEF Places
  <2>4. \A i : <<"run", i>> \in Places <=> \E r \in runs : i = RunId(r)
    BY DEF Places
  <2> QED BY <2>1, <2>2, <2>3, <2>4 DEF PlaceFacts, Places
<1>2. PlaceFacts'
  <2>1. \A h \in Hosts : /\ <<"backlog", h>> \in Places' /\ <<"queue", h>> \in Places'
                         /\ <<"running", h>> \in Places'
    BY DEF Places
  <2>2. \A m : <<"net", m>> \in Places' <=> m \in dataNet'
    BY DEF Places
  <2>3. \A h, g : <<"parked", <<h, g>>>> \in Places' <=> h \in Hosts /\ g \in parked'[h]
    BY DEF Places
  <2>4. \A i : <<"run", i>> \in Places' <=> \E r \in runs' : i = RunId(r)
    BY DEF Places
  <2> QED BY <2>1, <2>2, <2>3, <2>4 DEF PlaceFacts, Places
<1> QED BY <1>1, <1>2

(* A place that comes into being was empty.                                *)
LEMMA NewPlaceEmpty ==
  ASSUME NEW p \in Places', p \notin Places PROVE Held(p) = {}
<1>1. \/ \E m : p = <<"net", m>> /\ m \notin dataNet
      \/ \E h \in Hosts : \E g : p = <<"parked", <<h, g>>>> /\ g \notin parked[h]
      \/ \E i : p = <<"run", i>> /\ ~\E r \in runs : i = RunId(r)
  <2>1. \/ \E h \in Hosts : p = <<"backlog", h>> \/ p = <<"queue", h>> \/ p = <<"running", h>>
        \/ \E m \in dataNet' : p = <<"net", m>>
        \/ \E h \in Hosts : \E g \in parked'[h] : p = <<"parked", <<h, g>>>>
        \/ \E r \in runs' : p = <<"run", RunId(r)>>
    BY PlacesAre DEF PlaceFacts
  <2>2. ~\E h \in Hosts : p = <<"backlog", h>> \/ p = <<"queue", h>> \/ p = <<"running", h>>
    BY PlacesAre DEF PlaceFacts
  <2>3. CASE \E m \in dataNet' : p = <<"net", m>>
    BY <2>3, PlacesAre DEF PlaceFacts
  <2>4. CASE \E h \in Hosts : \E g \in parked'[h] : p = <<"parked", <<h, g>>>>
    BY <2>4, PlacesAre DEF PlaceFacts
  <2>5. CASE \E r \in runs' : p = <<"run", RunId(r)>>
    BY <2>5, PlacesAre DEF PlaceFacts
  <2> QED BY <2>1, <2>2, <2>3, <2>4, <2>5
<1>2. ASSUME NEW m, p = <<"net", m>>, m \notin dataNet PROVE Held(p) = {}
  BY <1>2, HeldIs DEF HeldFacts
<1>3. ASSUME NEW h, NEW g, p = <<"parked", <<h, g>>>>, g \notin parked[h] PROVE Held(p) = {}
  BY <1>3, HeldIs DEF HeldFacts
<1>4. ASSUME NEW i, p = <<"run", i>>, ~\E r \in runs : i = RunId(r) PROVE Held(p) = {}
  <2>1. Held(p) = UNION {RunDue(r) : r \in {r \in runs : RunId(r) = i}}
    BY <1>4, HeldIs DEF HeldFacts
  <2>2. {r \in runs : RunId(r) = i} = {}
    BY <1>4
  <2> QED BY <2>1, <2>2
<1> QED BY <1>1, <1>2, <1>3, <1>4

(* A step after which the places outside S hold no more than before, and   *)
(* one in which, besides, N leaves place c and M, a part of it, goes to a. *)
NoMore(S) ==
  /\ \A h \in Hosts : <<"backlog", h>> \in S \/ DueOf(h, backlog'[h]) \subseteq DueOf(h, backlog[h])
  /\ \A h \in Hosts : <<"queue", h>> \in S \/ DueOf(h, queue'[h]) \subseteq DueOf(h, queue[h])
  /\ \A m \in dataNet' : <<"net", m>> \in S \/ m \in dataNet \/ DueOf(m.to, m.datas) = {}
  /\ \A h \in Hosts : \/ <<"running", h>> \in S \/ running'[h] = <<>>
                      \/ /\ running[h] # <<>>
                         /\ DueBy(h, running'[h][1]) \subseteq DueBy(h, running[h][1])
  /\ \A h \in Hosts : \A g \in parked'[h] : <<"parked", <<h, g>>>> \in S \/ g \in parked[h]
  /\ \A r \in runs' : \/ <<"run", RunId(r)>> \in S \/ r.uploads = <<>>
                      \/ \E s \in runs : RunId(s) = RunId(r) /\ RunDue(r) \subseteq RunDue(s)
Moving(a, c, M, N) ==
  /\ N \subseteq Held(c) /\ M \subseteq N /\ NoMore({a, c})
  /\ c \in Places' => Held(c)' \subseteq (Held(c) \ N) \cup (IF a = c THEN M ELSE {})
  /\ a \in Places' /\ a # c => Held(a)' \subseteq Held(a) \cup M

LEMMA Shrinks ==
  ASSUME NEW S, NoMore(S) PROVE \A p \in Places' \ S : Held(p)' \subseteq Held(p)
<1> USE DEF NoMore
<1> SUFFICES ASSUME NEW p \in Places', p \notin S PROVE Held(p)' \subseteq Held(p)
  OBVIOUS
<1>1. ASSUME NEW h \in Hosts, p = <<"backlog", h>> PROVE Held(p)' \subseteq Held(p)
  BY <1>1, HeldIs DEF HeldFacts
<1>2. ASSUME NEW h \in Hosts, p = <<"queue", h>> PROVE Held(p)' \subseteq Held(p)
  BY <1>2, HeldIs DEF HeldFacts
<1>3. ASSUME NEW h \in Hosts, p = <<"running", h>> PROVE Held(p)' \subseteq Held(p)
  BY <1>3, HeldIs DEF HeldFacts
<1>4. ASSUME NEW m \in dataNet', p = <<"net", m>> PROVE Held(p)' \subseteq Held(p)
  BY <1>4, HeldIs DEF HeldFacts
<1>5. ASSUME NEW h \in Hosts, NEW g \in parked'[h], p = <<"parked", <<h, g>>>> PROVE Held(p)' \subseteq Held(p)
  BY <1>5, HeldIs DEF HeldFacts
<1>6. ASSUME NEW i, p = <<"run", i>> PROVE Held(p)' \subseteq Held(p)
  <2>1. /\ Held(p) = UNION {RunDue(r) : r \in {r \in runs : RunId(r) = i}}
        /\ Held(p)' = UNION {RunDue(r) : r \in {r \in runs' : RunId(r) = i}}
    BY <1>6, HeldIs DEF HeldFacts
  <2>2. ASSUME NEW r \in runs', RunId(r) = i PROVE RunDue(r) \subseteq Held(p)
    <3>1. CASE r.uploads = <<>>
      BY <3>1 DEF RunDue, DueOf
    <3>2. CASE \E s \in runs : RunId(s) = RunId(r) /\ RunDue(r) \subseteq RunDue(s)
      BY <2>1, <2>2, <3>2
    <3> QED BY <1>6, <2>2, <3>1, <3>2
  <2> QED BY <2>1, <2>2
<1> QED BY <1>1, <1>2, <1>3, <1>4, <1>5, <1>6, PlacesAre DEF PlaceFacts

LEMMA Moved ==
  ASSUME ApartInv, NEW a, NEW c \in Places, NEW M, NEW N, Moving(a, c, M, N)
  PROVE  /\ ApartInv'
         /\ \A p \in Places' : \A t \in Held(p)' :
              \/ p \in Places /\ t \in Held(p) /\ t \notin N
              \/ p = a /\ t \in M
<1>0. /\ N \subseteq Held(c) /\ M \subseteq N
      /\ \A p \in Places' \ {a, c} : Held(p)' \subseteq Held(p)
      /\ c \in Places' => Held(c)' \subseteq (Held(c) \ N) \cup (IF a = c THEN M ELSE {})
      /\ a \in Places' /\ a # c => Held(a)' \subseteq Held(a) \cup M
  BY Shrinks DEF Moving
<1> DEFINE P == Places
           Q == Places'
           T == [p \in P \cup Q |-> Held(p)]
           U == [p \in P \cup Q |-> Held(p)']
<1>1. \A p, u \in P \cup Q : p # u => T[p] \cap T[u] = {}
  BY NewPlaceEmpty DEF ApartInv
<1>2. /\ \A p \in P \cup Q : T[p] = Held(p) /\ U[p] = Held(p)'
  OBVIOUS
<1> HIDE DEF P, Q, T, U
<1>3. /\ c \in P
      /\ N \subseteq T[c] /\ M \subseteq N
      /\ \A p \in Q \ {a, c} : U[p] \subseteq T[p]
      /\ c \in Q => U[c] \subseteq (T[c] \ N) \cup (IF a = c THEN M ELSE {})
      /\ a \in Q /\ a # c => U[a] \subseteq T[a] \cup M
  BY <1>0, <1>2 DEF P, Q
<1>4. /\ \A p, u \in Q : p # u => U[p] \cap U[u] = {}
      /\ \A p \in Q : \A t \in U[p] : (t \in T[p] /\ t \notin N) \/ (p = a /\ t \in M)
  <2>1. ASSUME NEW p \in Q, NEW t \in U[p] PROVE (t \in T[p] /\ t \notin N) \/ (p = a /\ t \in M)
    BY <1>1, <1>3, Moves
  <2>2. ASSUME NEW p \in Q, NEW u \in Q, p # u, NEW t \in U[p], t \in U[u] PROVE FALSE
    BY <1>1, <1>3, <2>1, <2>2
  <2> QED BY <2>1, <2>2
<1>5. ApartInv'
  BY <1>2, <1>4 DEF ApartInv, Q
<1>6. \A p \in Places' : \A t \in Held(p)' : (t \in Held(p) /\ t \notin N) \/ (p = a /\ t \in M)
  BY <1>2, <1>4 DEF Q
<1>7. \A p \in Places' : p \in Places \/ Held(p) = {}
  BY NewPlaceEmpty
<1> QED BY <1>5, <1>6, <1>7

-----------------------------------------------------------------------------
(* Instances                                                               *)

LEMMA FiredSame ==
  ASSUME \A h \in Hosts : Calls(h)' = Calls(h), UNCHANGED runs PROVE Fired' = Fired
BY DEF Fired, CallId

LEMMA FireSame ==
  ASSUME FireInv, \A h \in Hosts : Calls(h)' = Calls(h), UNCHANGED runs PROVE FireInv'
<1>1. \A r, s \in runs' : RunId(r) = RunId(s) => r = s
  BY DEF FireInv
<1>2. \A r \in runs' : r.nth = 1
  BY DEF FireInv
<1>3. \A h \in Hosts : \A g \in Calls(h)' : \A r \in runs' : RunId(r) # CallId(g)
  BY DEF FireInv
<1>4. \A h, k \in Hosts : \A g \in Calls(h)', e \in Calls(k)' : CallId(g) = CallId(e) => h = k /\ g = e
  BY DEF FireInv
<1> QED BY <1>1, <1>2, <1>3, <1>4 DEF FireInv

(* A run goes on.                                                          *)
LEMMA RunStaysFired ==
  ASSUME FireInv, NEW r \in runs, NEW r2, RunId(r2) = RunId(r), r2.nth = r.nth, Become(r, r2),
         UNCHANGED parked
  PROVE  /\ FireInv' /\ Fired' = Fired
         /\ \A s \in runs' : RunId(s) = RunId(r) => s = r2
<1>1. runs' = (runs \ {r}) \cup {r2}
  BY DEF Become
<1>2. \A h \in Hosts : Calls(h)' = Calls(h)
  BY DEF Calls
<1>3. {RunId(s) : s \in runs'} = {RunId(s) : s \in runs}
  BY <1>1
<1>4. Fired' = Fired
  BY <1>2, <1>3 DEF Fired, CallId
<1>5. \A s, t \in runs' : RunId(s) = RunId(t) => s = t
  BY <1>1 DEF FireInv
<1>6. \A s \in runs' : s.nth = 1
  BY <1>1 DEF FireInv
<1>7. \A h \in Hosts : \A g \in Calls(h)' : \A s \in runs' : RunId(s) # CallId(g)
  BY <1>1, <1>2 DEF FireInv
<1>8. \A h, k \in Hosts : \A g \in Calls(h)', e \in Calls(k)' : CallId(g) = CallId(e) => h = k /\ g = e
  BY <1>2 DEF FireInv
<1>9. FireInv'
  BY <1>5, <1>6, <1>7, <1>8 DEF FireInv
<1> QED BY <1>1, <1>4, <1>5, <1>9

(* An instance that has no run yet gets its first one.                     *)
LEMMA AllocateIs ==
  ASSUME NEW q, NEW b, NEW ins, Allocate(q, b, ins),
         \A r \in runs : RunId(r) # <<q, b, BlockSerial(b, ins)>>
  PROVE  \E new : /\ runs' = runs \cup {new} /\ RunId(new) = <<q, b, BlockSerial(b, ins)>>
                  /\ new.nth = 1 /\ new.uploads = <<>> /\ new.posted = <<>> /\ new.posts = <<>>
                  /\ new.state = "queued" /\ new.block = b /\ new.inputs = ins
<1> DEFINE s == BlockSerial(b, ins)
           before == {r \in runs : r.req = q /\ r.block = b /\ r.serial = s}
           new == [req |-> q, block |-> b, serial |-> s, nth |-> Cardinality(before) + 1,
                   inputs |-> ins, state |-> "queued",
                   reads |-> <<>>, posts |-> <<>>, posted |-> <<>>, uploads |-> <<>>]
<1>1. runs' = runs \cup {new}
  BY DEF Allocate
<1>2. before = {}
  BY DEF RunId
<1>3. Cardinality(before) + 1 = 1
  BY <1>2, FS_EmptySet
<1>4. new.nth = 1
  BY <1>3
<1> HIDE DEF before, s
<1>5. /\ RunId(new) = <<q, b, s>> /\ new.uploads = <<>> /\ new.posted = <<>> /\ new.posts = <<>>
      /\ new.state = "queued" /\ new.block = b /\ new.inputs = ins
  BY DEF RunId
<1> HIDE DEF new
<1> QED BY <1>1, <1>4, <1>5 DEF s

LEMMA NewRunPosts ==
  ASSUME NEW r, r.posted = <<>>, r.posts = <<>> PROVE PostsOnce(r) /\ ProducedBy(r) = {}
<1>1. Range(r.posted) = {} /\ Range(r.posts) = {}
  BY DEF Range
<1>2. IsInjective(r.posted) /\ IsInjective(r.posts)
  BY DEF IsInjective
<1> QED BY <1>1, <1>2 DEF PostsOnce, ProducedBy

(* An instance that has not fired does, now or when its prefetch is done.  *)
LEMMA Fires ==
  ASSUME FireInv, PostInv, GreenInv, NEW h \in Hosts, NEW g, IsGreenlet(h, g), NEW b, NEW ins,
         <<g.data.req, b, BlockSerial(b, ins)>> \notin Fired, TriggerNormal(h, g, b, ins)
  PROVE  /\ FireInv' /\ PostInv' /\ Sent' = Sent
         /\ Fired' = Fired \cup {<<g.data.req, b, BlockSerial(b, ins)>>}
         /\ \/ /\ running' = [running EXCEPT ![h] = Continue(g)] /\ UNCHANGED parked
               /\ \E new : runs' = runs \cup {new} /\ new.uploads = <<>> /\ new.inputs = ins /\ new.block = b
            \/ /\ running' = [running EXCEPT ![h] = <<>>] /\ UNCHANGED runs
               /\ \E w : /\ w.data = g.data /\ w.sent = g.sent /\ w.dests = g.dests
                         /\ parked' = [parked EXCEPT ![h] = @ \cup {w}]
                         /\ w.call # <<>> /\ w.call[1].block = b /\ w.call[1].inputs = ins
<1> DEFINE id == <<g.data.req, b, BlockSerial(b, ins)>>
<1>1. \A r \in runs : RunId(r) # id
  BY DEF Fired
<1>2. \A k \in Hosts : \A e \in Calls(k) : CallId(e) # id
  BY DEF Fired
<1>3. parked = [k \in Hosts |-> parked[k]]
  BY DEF GreenInv
<1> HIDE DEF id
<1>4. CASE Prefetched(h, b, ins)
  <2>1. Allocate(g.data.req, b, ins) /\ running' = [running EXCEPT ![h] = Continue(g)] /\ UNCHANGED parked
    BY <1>4 DEF TriggerNormal
  <2>0. \A r \in runs : RunId(r) # <<g.data.req, b, BlockSerial(b, ins)>>
    BY <1>1 DEF id
  <2>2. PICK new : /\ runs' = runs \cup {new} /\ RunId(new) = id
                   /\ new.nth = 1 /\ new.uploads = <<>> /\ new.posted = <<>> /\ new.posts = <<>>
                   /\ new.state = "queued" /\ new.block = b /\ new.inputs = ins
    BY <2>0, <2>1, AllocateIs DEF id
  <2>3. \A k \in Hosts : Calls(k)' = Calls(k)
    BY <2>1 DEF Calls
  <2>4. FireInv'
    <3>1. \A r, s \in runs' : RunId(r) = RunId(s) => r = s
      BY <1>1, <2>2 DEF FireInv
    <3>2. \A r \in runs' : r.nth = 1
      BY <2>2 DEF FireInv
    <3>3. \A k \in Hosts : \A e \in Calls(k)' : \A r \in runs' : RunId(r) # CallId(e)
      BY <1>2, <2>2, <2>3 DEF FireInv
    <3>4. \A j, k \in Hosts : \A c \in Calls(j)', e \in Calls(k)' : CallId(c) = CallId(e) => j = k /\ c = e
      BY <2>3 DEF FireInv
    <3> QED BY <3>1, <3>2, <3>3, <3>4 DEF FireInv
  <2>5. {RunId(r) : r \in runs'} = {RunId(r) : r \in runs} \cup {id}
    BY <2>2
  <2>6. Fired' = Fired \cup {id}
    BY <2>3, <2>5 DEF Fired, CallId
  <2>7. PostsOnce(new) /\ ProducedBy(new) = {}
    BY <2>2, NewRunPosts
  <2>8. PostInv'
    BY <2>2, <2>7 DEF PostInv, PostsOnce
  <2>9. Sent' = Sent
    BY <2>2, <2>7 DEF Sent, ProducedBy
  <2> QED BY <2>1, <2>2, <2>4, <2>6, <2>8, <2>9 DEF id
<1>5. CASE ~Prefetched(h, b, ins)
  <2> DEFINE w == [g EXCEPT !.call = <<[block |-> b, inputs |-> ins]>>]
  <2>1. parked' = [parked EXCEPT ![h] = @ \cup {w}] /\ running' = [running EXCEPT ![h] = <<>>] /\ UNCHANGED runs
    BY <1>5 DEF TriggerNormal
  <2>2. DOMAIN g = {"data", "sent", "call", "dests"}
    BY DEF IsGreenlet
  <2>3. /\ w.data = g.data /\ w.sent = g.sent /\ w.dests = g.dests
        /\ w.call # <<>> /\ w.call[1].block = b /\ w.call[1].inputs = ins
    BY <2>2
  <2>4. CallId(w) = id
    BY <2>3 DEF CallId, id
  <2> HIDE DEF w
  <2>5. \A k \in Hosts : Calls(k)' = IF k = h THEN Calls(k) \cup {w} ELSE Calls(k)
    BY <1>3, <2>1, <2>3 DEF Calls
  <2>6. FireInv'
    <3>1. \A r, s \in runs' : RunId(r) = RunId(s) => r = s
      BY <2>1 DEF FireInv
    <3>2. \A r \in runs' : r.nth = 1
      BY <2>1 DEF FireInv
    <3>3. \A k \in Hosts : \A e \in Calls(k)' : \A r \in runs' : RunId(r) # CallId(e)
      BY <1>1, <2>1, <2>4, <2>5 DEF FireInv
    <3>4. \A j, k \in Hosts : \A c \in Calls(j)', e \in Calls(k)' : CallId(c) = CallId(e) => j = k /\ c = e
      BY <1>2, <2>4, <2>5 DEF FireInv
    <3> QED BY <3>1, <3>2, <3>3, <3>4 DEF FireInv
  <2>7. Fired' = Fired \cup {id}
    <3>1. UNION {{CallId(e) : e \in Calls(k)'} : k \in Hosts}
            = (UNION {{CallId(e) : e \in Calls(k)} : k \in Hosts}) \cup {id}
      BY <2>4, <2>5
    <3> QED BY <2>1, <3>1 DEF Fired, CallId
  <2>8. PostInv'
    BY <2>1 DEF PostInv, PostsOnce
  <2>9. Sent' = Sent
    BY <2>1 DEF Sent, ProducedBy
  <2> QED BY <2>1, <2>3, <2>6, <2>7, <2>8, <2>9 DEF id
<1> QED BY <1>4, <1>5

-----------------------------------------------------------------------------
(* Steps that leave the history alone                                      *)

LEMMA InfoSame == ASSUME InfoInv, UNCHANGED <<phase, infoNet, known>> PROVE InfoInv'
BY DEF InfoInv

LEMMA GotSame ==
  ASSUME UNCHANGED inputDatas, Fired' = Fired PROVE \A t : Got(t)' = Got(t)
BY DEF Got

LEMMA HistoryGoesOn ==
  ASSUME GotInv, InstInv, CountInv, UNCHANGED stateVars, Fired' = Fired, Sent \subseteq Sent'
  PROVE  GotInv' /\ InstInv' /\ CountInv'
<1>1. inputDatas' = inputDatas /\ inputCnt' = inputCnt
  BY DEF stateVars
<1>2. GotInv'
  BY <1>1 DEF GotInv
<1>3. InstInv'
  BY <1>1 DEF InstInv
<1>4. \A q, b : Complete(q, b)' = Complete(q, b)
  BY <1>1 DEF Complete
<1>5. CountInv'
  BY <1>1, <1>4 DEF CountInv
<1> QED BY <1>2, <1>3, <1>5

LEMMA HistorySame ==
  ASSUME HistoryInv, UNCHANGED <<phase, infoNet, known, runs>>, UNCHANGED stateVars,
         \A h \in Hosts : Calls(h)' = Calls(h)
  PROVE  HistoryInv' /\ Fired' = Fired /\ Sent' = Sent
<1>1. Fired' = Fired /\ FireInv'
  BY FiredSame, FireSame DEF HistoryInv
<1>2. Sent' = Sent
  BY DEF Sent, ProducedBy
<1>3. PostInv' /\ InfoInv'
  BY InfoSame DEF HistoryInv, PostInv, PostsOnce
<1> QED BY <1>1, <1>2, <1>3, HistoryGoesOn DEF HistoryInv

(* The hosts register no key, and a delivery that is at p was somewhere    *)
(* before, and not with a greenlet of its host unless it still is.         *)
SameKeys == DOMAIN deps' = DOMAIN deps /\ \A h \in Hosts : DOMAIN deps'[h] = DOMAIN deps[h]
Onward(p, t) == \E u \in Places : t \in Held(u) /\ (AtHome(u, t) => AtHome(p, t))

LEMMA KeysSame == ASSUME UNCHANGED deps PROVE SameKeys
BY DEF SameKeys

LEMMA AheadKept ==
  ASSUME AheadInv, Sent \subseteq Sent', SameKeys,
         \A p \in Places' : \A t \in Held(p)' : Onward(p, t) /\ (Got(t)' => Got(t))
  PROVE  AheadInv'
<1>1. ASSUME NEW p \in Places', NEW t \in Held(p)'
      PROVE  IsDelivery(t) /\ ~Got(t)' /\ t[1] \in Sent' /\ (Registers(t)' => AtHome(p, t))
  <2>1. PICK u \in Places : t \in Held(u) /\ (AtHome(u, t) => AtHome(p, t))
    BY DEF Onward
  <2>2. IsDelivery(t) /\ ~Got(t) /\ t[1] \in Sent /\ (Registers(t) => AtHome(u, t))
    BY <2>1 DEF AheadInv
  <2>3. Home[t[2].block] \in Hosts
    BY <2>2, DestType DEF IsDelivery, Hosts
  <2>4. Registers(t)' => Registers(t)
    BY <2>3 DEF Registers, SameKeys
  <2> QED BY <2>1, <2>2, <2>4
<1>2. KeysInv'
  BY DEF AheadInv, KeysInv, SameKeys
<1> QED BY <1>1, <1>2 DEF AheadInv, IsDelivery, AtHome

(* Deliveries move and have no effect yet.                                 *)
LEMMA Travels ==
  ASSUME ApartInv, AheadInv, UNCHANGED inputDatas, Fired' = Fired, Sent \subseteq Sent', SameKeys,
         NEW a, NEW c \in Places, NEW M, NEW N, Moving(a, c, M, N),
         \A t \in M : AtHome(c, t) => AtHome(a, t)
  PROVE  ApartInv' /\ AheadInv'
<1>1. /\ ApartInv'
      /\ \A p \in Places' : \A t \in Held(p)' :
           \/ p \in Places /\ t \in Held(p) /\ t \notin N
           \/ p = a /\ t \in M
  BY Moved
<1>2. M \subseteq Held(c)
  BY DEF Moving
<1>3. \A p \in Places' : \A t \in Held(p)' : Onward(p, t)
  BY <1>1, <1>2 DEF Onward
<1>4. \A t : Got(t)' = Got(t)
  BY GotSame
<1> QED BY <1>1, <1>3, <1>4, AheadKept

LEMMA Stays ==
  ASSUME ApartInv, AheadInv, UNCHANGED inputDatas, Fired' = Fired, Sent \subseteq Sent', SameKeys,
         NoMore({})
  PROVE  ApartInv' /\ AheadInv'
<1>1. \A p \in Places' : Held(p)' \subseteq Held(p)
  BY Shrinks
<1>2. \A p \in Places' : p \notin Places => Held(p) = {}
  BY NewPlaceEmpty
<1>3. ApartInv'
  <2> SUFFICES ASSUME NEW p \in Places', NEW u \in Places', p # u PROVE Held(p)' \cap Held(u)' = {}
    BY DEF ApartInv
  <2> QED BY <1>1, <1>2 DEF ApartInv
<1>4. \A t : Got(t)' = Got(t)
  BY GotSame
<1>5. \A p \in Places' : \A t \in Held(p)' : Onward(p, t) /\ (Got(t)' => Got(t))
  BY <1>1, <1>2, <1>4 DEF Onward
<1> QED BY <1>3, <1>5, AheadKept

-----------------------------------------------------------------------------
(* Steps of messages and greenlets                                         *)

LEMMA CallsSame == ASSUME UNCHANGED parked PROVE \A h \in Hosts : Calls(h)' = Calls(h)
BY DEF Calls

(* Messages may be lost, or be sent that have nothing to deliver.          *)
LEMMA NothingMoves ==
  ASSUME IInv, UNCHANGED <<backlog, queue, running, parked, runs, deps>>, UNCHANGED inputDatas,
         \A m \in dataNet' : m \in dataNet \/ (EachOnce(m.to, m.datas) /\ DueOf(m.to, m.datas) = {})
  PROVE  DeliveryInv'
<1>1. OnceInv'
  BY DEF IInv, DeliveryInv, OnceInv
<1>2. Fired' = Fired /\ Sent' = Sent
  BY CallsSame, FiredSame DEF Sent, ProducedBy
<1>3. NoMore({})
  BY DEF NoMore
<1> QED BY <1>1, <1>2, <1>3, KeysSame, Stays DEF IInv, DeliveryInv

LEMMA NetShrinks ==
  ASSUME IInv, UNCHANGED <<backlog, queue, running, parked, runs, deps>>, UNCHANGED inputDatas,
         dataNet' \subseteq dataNet
  PROVE  DeliveryInv'
<1>1. \A m \in dataNet' : m \in dataNet \/ (EachOnce(m.to, m.datas) /\ DueOf(m.to, m.datas) = {})
  OBVIOUS
<1> QED BY <1>1, NothingMoves, Zenon

LEMMA RunOnce ==
  ASSUME IInv, NEW q \in Requests, Run(q) PROVE DeliveryInv' /\ HistoryInv'
<1>1. DeliveryInv'
  <2>1. /\ UNCHANGED <<backlog, queue, running, parked, runs, deps>> /\ UNCHANGED inputDatas
        /\ dataNet' \subseteq dataNet
    BY DEF Run, inboxVars, greenVars, stateVars, keyVars
  <2> QED BY <2>1, NetShrinks, Zenon
<1>2. GotInv' /\ InstInv' /\ CountInv' /\ FireInv' /\ PostInv'
  <2>1. Fired' = Fired /\ Sent' = Sent /\ FireInv'
    BY CallsSame, FiredSame, FireSame DEF Run, greenVars, Sent, ProducedBy, IInv, HistoryInv
  <2>2. PostInv'
    BY DEF Run, PostInv, PostsOnce, IInv, HistoryInv
  <2> QED BY <2>1, <2>2, HistoryGoesOn DEF Run, IInv, HistoryInv
<1>3. InfoInv'
  BY DEF Run, InfoInv, IInv, HistoryInv, Inv, GatewayInv, inboxVars
<1> QED BY <1>1, <1>2, <1>3 DEF HistoryInv

LEMMA InputsDue ==
  ASSUME NEW q \in Requests, NEW h
  PROVE  EachOnce(h, InputsFor(q, h)) /\ DueOf(h, InputsFor(q, h)) = {}
<1>1. \A i \in 1..Len(InputsFor(q, h)) : InputsFor(q, h)[i].out \in Range(GlobalInputs)
  BY InputsForType
<1>2. \A i \in 1..Len(InputsFor(q, h)) : Due(h, InputsFor(q, h)[i]) = {}
  BY <1>1 DEF Due
<1> QED BY <1>2 DEF EachOnce, DueOf

LEMMA SendInputsOnce ==
  ASSUME IInv, NEW q \in Requests, SendInputs(q) PROVE DeliveryInv' /\ HistoryInv'
<1>1. \A m \in dataNet' : m \in dataNet \/ (EachOnce(m.to, m.datas) /\ DueOf(m.to, m.datas) = {})
  <2> SUFFICES ASSUME NEW m \in dataNet', m \notin dataNet
               PROVE  EachOnce(m.to, m.datas) /\ DueOf(m.to, m.datas) = {}
    OBVIOUS
  <2>1. m.datas = InputsFor(q, m.to)
    BY DEF SendInputs
  <2> QED BY <2>1, InputsDue
<1>2. DeliveryInv'
  <2>1. UNCHANGED <<backlog, queue, running, parked, runs, deps>> /\ UNCHANGED inputDatas
    BY DEF SendInputs, inboxVars, greenVars, stateVars, keyVars
  <2> QED BY <1>1, <2>1, NothingMoves, Zenon
<1>3. GotInv' /\ InstInv' /\ CountInv' /\ FireInv' /\ PostInv'
  <2>1. Fired' = Fired /\ Sent' = Sent /\ FireInv'
    BY CallsSame, FiredSame, FireSame DEF SendInputs, greenVars, Sent, ProducedBy, IInv, HistoryInv
  <2>2. PostInv'
    BY DEF SendInputs, PostInv, PostsOnce, IInv, HistoryInv
  <2> QED BY <2>1, <2>2, HistoryGoesOn DEF SendInputs, IInv, HistoryInv
<1>4. InfoInv'
  BY DEF SendInputs, InfoInv, IInv, HistoryInv, Inv, GatewayInv, inboxVars
<1> QED BY <1>2, <1>3, <1>4 DEF HistoryInv

LEMMA AnswerOnce ==
  ASSUME IInv, NEW q \in Requests, Answer(q) \/ PostUserData(q) PROVE DeliveryInv' /\ HistoryInv'
<1>1. DeliveryInv'
  <2>1. /\ UNCHANGED <<backlog, queue, running, parked, runs, deps>> /\ UNCHANGED inputDatas
        /\ dataNet' \subseteq dataNet
    BY DEF Answer, PostUserData, netVars, inboxVars, greenVars, stateVars, keyVars
  <2> QED BY <2>1, NetShrinks, Zenon
<1>2. GotInv' /\ InstInv' /\ CountInv' /\ FireInv' /\ PostInv'
  <2>1. Fired' = Fired /\ Sent' = Sent /\ FireInv'
    BY CallsSame, FiredSame, FireSame
       DEF Answer, PostUserData, greenVars, Sent, ProducedBy, IInv, HistoryInv
  <2>2. PostInv'
    BY DEF Answer, PostUserData, PostInv, PostsOnce, IInv, HistoryInv
  <2> QED BY <2>1, <2>2, HistoryGoesOn DEF Answer, PostUserData, IInv, HistoryInv
<1>3. InfoInv'
  BY DEF Answer, PostUserData, InfoInv, IInv, HistoryInv, Inv, GatewayInv, inboxVars, netVars, gatewayVars
<1> QED BY <1>1, <1>2, <1>3 DEF HistoryInv

LEMMA PrefetchOnce ==
  ASSUME IInv, NEW h, NEW k, PrefetchData(h, k) \/ LosePrefetch(h, k) PROVE DeliveryInv' /\ HistoryInv'
<1>1. UNCHANGED <<phase, infoNet, known, dataNet, backlog, queue, running, parked, runs, deps>>
      /\ UNCHANGED stateVars
  BY DEF PrefetchData, LosePrefetch, gatewayVars, netVars, inboxVars, greenVars
<1>2. /\ UNCHANGED <<backlog, queue, running, parked, runs, deps>> /\ UNCHANGED inputDatas
      /\ dataNet' \subseteq dataNet
  BY <1>1 DEF stateVars
<1>3. DeliveryInv'
  BY <1>2, NetShrinks, Zenon
<1> QED BY <1>1, <1>3, HistorySame, CallsSame DEF IInv

LEMMA LosePostOnce ==
  ASSUME IInv, LosePost PROVE DeliveryInv' /\ HistoryInv'
<1>1. /\ UNCHANGED <<phase, known, backlog, queue, running, parked, runs, deps>> /\ UNCHANGED stateVars
      /\ dataNet' \subseteq dataNet /\ infoNet' \subseteq infoNet
  BY DEF LosePost, gatewayVars, netVars, inboxVars, greenVars, keyVars
<1>2. DeliveryInv'
  <2>1. /\ UNCHANGED <<backlog, queue, running, parked, runs, deps>> /\ UNCHANGED inputDatas
        /\ dataNet' \subseteq dataNet
    BY <1>1 DEF stateVars
  <2> QED BY <2>1, NetShrinks, Zenon
<1>3. GotInv' /\ InstInv' /\ CountInv' /\ FireInv' /\ PostInv'
  <2>1. Fired' = Fired /\ Sent' = Sent /\ FireInv'
    BY <1>1, CallsSame, FiredSame, FireSame DEF Sent, ProducedBy, IInv, HistoryInv
  <2>2. PostInv'
    BY <1>1 DEF PostInv, PostsOnce, IInv, HistoryInv
  <2> QED BY <1>1, <2>1, <2>2, HistoryGoesOn DEF IInv, HistoryInv
<1>4. InfoInv'
  BY <1>1 DEF InfoInv, IInv, HistoryInv
<1> QED BY <1>2, <1>3, <1>4 DEF HistoryInv

(* Deliveries move, and nothing else happens.                              *)
LEMMA Carried ==
  ASSUME IInv, UNCHANGED <<phase, infoNet, known, runs>>, UNCHANGED stateVars,
         \A h \in Hosts : Calls(h)' = Calls(h), OnceInv', SameKeys,
         NEW a, NEW c \in Places, NEW M, NEW N, Moving(a, c, M, N),
         \A t \in M : AtHome(c, t) => AtHome(a, t)
  PROVE  DeliveryInv' /\ HistoryInv'
<1>1. HistoryInv' /\ Fired' = Fired /\ Sent' = Sent
  BY HistorySame DEF IInv
<1>2. UNCHANGED inputDatas /\ Sent \subseteq Sent'
  BY <1>1 DEF stateVars
<1>3. ApartInv /\ AheadInv
  BY DEF IInv, DeliveryInv
<1>4. ApartInv' /\ AheadInv'
  BY <1>1, <1>2, <1>3, Travels
<1> QED BY <1>1, <1>4 DEF DeliveryInv

LEMMA Inboxes ==
  ASSUME IInv, NEW h \in Hosts
  PROVE  /\ backlog[h] \in Seq(Range(backlog[h])) /\ queue[h] \in Seq(Range(queue[h]))
         /\ EachOnce(h, backlog[h]) /\ EachOnce(h, queue[h])
         /\ DueOf(h, backlog[h]) \cap DueOf(h, queue[h]) = {}
<1>1. IsInbox(h, backlog[h]) /\ IsInbox(h, queue[h])
  BY DEF IInv, Inv, InboxInv
<1>2. /\ <<"backlog", h>> \in Places /\ <<"queue", h>> \in Places
      /\ Held(<<"backlog", h>>) = DueOf(h, backlog[h]) /\ Held(<<"queue", h>>) = DueOf(h, queue[h])
  BY PlacesAre, HeldIs DEF PlaceFacts, HeldFacts
<1>3. <<"backlog", h>> # <<"queue", h>>
  OBVIOUS
<1>4. DueOf(h, backlog[h]) \cap DueOf(h, queue[h]) = {}
  BY <1>2, <1>3 DEF IInv, DeliveryInv, ApartInv
<1> QED BY <1>1, <1>4 DEF IsInbox, IInv, DeliveryInv, OnceInv

LEMMA TransferDataOnce ==
  ASSUME IInv, NEW m \in dataNet, TransferData(m) PROVE DeliveryInv' /\ HistoryInv'
<1> DEFINE h == m.to
           D == DueOf(h, m.datas)
           a == <<"queue", h>>
           c == <<"net", m>>
<1>1. h \in Hosts /\ m.datas \in Seq(Data) /\ EachOnce(h, m.datas)
  BY DEF IInv, Inv, NetInv, IsMessage, DeliveryInv, OnceInv
<1>2. /\ dataNet' = dataNet \ {m} /\ UNCHANGED <<phase, infoNet, known, backlog, running, parked, runs>>
      /\ UNCHANGED stateVars
      /\ queue' = [queue EXCEPT ![h] = queue[h] \o m.datas] \/ queue' = queue
  BY DEF TransferData, gatewayVars, greenVars
<1>10. SameKeys
  BY KeysSame DEF TransferData, keyVars
<1>3. queue = [x \in Hosts |-> queue[x]]
  BY DEF IInv, Inv, InboxInv
<1>4. /\ \A x \in Hosts : x # h => queue'[x] = queue[x]
      /\ queue'[h] = queue[h] \o m.datas \/ queue'[h] = queue[h]
  BY <1>1, <1>2, <1>3
<1>5. /\ a \in Places /\ c \in Places /\ a # c /\ c \notin Places'
      /\ Held(a) = DueOf(h, queue[h]) /\ Held(a)' = DueOf(h, queue'[h]) /\ Held(c) = D
  BY <1>1, <1>2, PlacesAre, HeldIs DEF PlaceFacts, HeldFacts
<1>6. D \cap DueOf(h, queue[h]) = {}
  BY <1>5 DEF IInv, DeliveryInv, ApartInv
<1>7. DueOf(h, queue'[h]) \subseteq DueOf(h, queue[h]) \cup D /\ EachOnce(h, queue'[h])
  <2> DEFINE s == queue[h]
             t == m.datas
  <2>1. s \in Seq(Range(s)) /\ EachOnce(h, s)
    BY <1>1, Inboxes
  <2>2. t \in Seq(Data) /\ EachOnce(h, t) /\ DueOf(h, t) \cap DueOf(h, s) = {} /\ D = DueOf(h, t)
    BY <1>1, <1>6
  <2>3. queue'[h] = s \o t \/ queue'[h] = s
    BY <1>4
  <2> HIDE DEF s, t, D, h
  <2>4. DueOf(h, s \o t) \subseteq DueOf(h, s) \cup DueOf(h, t) /\ EachOnce(h, s \o t)
    BY <2>1, <2>2, DueConcat
  <2>5. DueOf(h, queue'[h]) \subseteq DueOf(h, s) \cup D /\ EachOnce(h, queue'[h])
    BY <2>1, <2>2, <2>3, <2>4
  <2> QED BY <2>5 DEF s
<1>11. \A t : ~AtHome(c, t)
  BY DEF AtHome
<1> HIDE DEF h, D, a, c
<1>8. OnceInv'
  BY <1>2, <1>4, <1>7 DEF OnceInv, IInv, DeliveryInv
<1>9. Moving(a, c, D, D)
  <2>1. NoMore({a, c})
    BY <1>2, <1>4 DEF NoMore, a
  <2> QED BY <1>5, <1>7, <2>1 DEF Moving
<1> QED BY <1>2, <1>5, <1>8, <1>9, <1>10, <1>11, Carried, CallsSame

LEMMA SocketServerOnce ==
  ASSUME IInv, NEW h \in Hosts, SocketServer(h) PROVE DeliveryInv' /\ HistoryInv'
<1> DEFINE d == Head(backlog[h])
           D == Due(h, d)
           a == <<"queue", h>>
           c == <<"backlog", h>>
<1>1. /\ backlog[h] # <<>> /\ backlog' = [backlog EXCEPT ![h] = Tail(backlog[h])]
      /\ UNCHANGED <<phase, infoNet, known, dataNet, running, parked, runs>> /\ UNCHANGED stateVars
      /\ queue' = [queue EXCEPT ![h] = Append(queue[h], d)] \/ queue' = queue
  BY DEF SocketServer, gatewayVars, netVars, greenVars
<1>9. SameKeys
  BY KeysSame DEF SocketServer, keyVars
<1>2. queue = [x \in Hosts |-> queue[x]] /\ backlog = [x \in Hosts |-> backlog[x]]
  BY DEF IInv, Inv, InboxInv
<1>3. /\ \A x \in Hosts : x # h => queue'[x] = queue[x] /\ backlog'[x] = backlog[x]
      /\ queue'[h] = Append(queue[h], d) \/ queue'[h] = queue[h]
      /\ backlog'[h] = Tail(backlog[h])
  BY <1>1, <1>2
<1>4. /\ DueOf(h, backlog'[h]) \subseteq DueOf(h, backlog[h]) \ D
      /\ D \subseteq DueOf(h, backlog[h]) /\ EachOnce(h, backlog'[h])
  BY <1>1, <1>3, Inboxes, DueTail
<1>5. DueOf(h, queue'[h]) \subseteq DueOf(h, queue[h]) \cup D /\ EachOnce(h, queue'[h])
  <2>1. D \cap DueOf(h, queue[h]) = {}
    BY <1>4, Inboxes
  <2> DEFINE s == queue[h]
  <2>2. s \in Seq(Range(s)) /\ EachOnce(h, s) /\ D \cap DueOf(h, s) = {}
    BY <2>1, Inboxes
  <2>3. queue'[h] = Append(s, d) \/ queue'[h] = s
    BY <1>3
  <2> HIDE DEF s, d
  <2>4. DueOf(h, Append(s, d)) = DueOf(h, s) \cup D /\ EachOnce(h, Append(s, d))
    BY <2>2, DueAppend
  <2>5. DueOf(h, queue'[h]) \subseteq DueOf(h, s) \cup D /\ EachOnce(h, queue'[h])
    BY <2>2, <2>3, <2>4
  <2> QED BY <2>5 DEF s
<1>6. /\ a \in Places /\ c \in Places /\ a # c
      /\ Held(a) = DueOf(h, queue[h]) /\ Held(a)' = DueOf(h, queue'[h])
      /\ Held(c) = DueOf(h, backlog[h]) /\ Held(c)' = DueOf(h, backlog'[h])
  BY PlacesAre, HeldIs DEF PlaceFacts, HeldFacts
<1>10. \A t : ~AtHome(c, t)
  BY DEF AtHome
<1> HIDE DEF D, a, c
<1>7. OnceInv'
  BY <1>1, <1>3, <1>4, <1>5 DEF OnceInv, IInv, DeliveryInv
<1>8. Moving(a, c, D, D)
  <2>1. NoMore({a, c})
    BY <1>1, <1>3 DEF NoMore, a, c
  <2> QED BY <1>4, <1>5, <1>6, <2>1 DEF Moving
<1> QED BY <1>1, <1>6, <1>7, <1>8, <1>9, <1>10, Carried, CallsSame

LEMMA DispatchFetchedOnce ==
  ASSUME IInv, NEW h \in Hosts, DispatchFetched(h) PROVE DeliveryInv' /\ HistoryInv'
<1>1. /\ queue[h] # <<>> /\ queue' = [queue EXCEPT ![h] = Tail(queue[h])]
      /\ UNCHANGED <<phase, infoNet, known, dataNet, backlog, running, parked, runs>> /\ UNCHANGED stateVars
  BY DEF DispatchFetched, gatewayVars, netVars, greenVars
<1>2. queue = [x \in Hosts |-> queue[x]]
  BY DEF IInv, Inv, InboxInv
<1>3. /\ \A x \in Hosts : x # h => queue'[x] = queue[x]
      /\ queue'[h] = Tail(queue[h])
  BY <1>1, <1>2
<1>4. DueOf(h, queue'[h]) \subseteq DueOf(h, queue[h]) /\ EachOnce(h, queue'[h])
  BY <1>1, <1>3, Inboxes, DueTail
<1>5. OnceInv'
  BY <1>1, <1>3, <1>4 DEF OnceInv, IInv, DeliveryInv
<1>6. NoMore({})
  BY <1>1, <1>3, <1>4 DEF NoMore
<1>7. HistoryInv' /\ Fired' = Fired /\ Sent' = Sent
  BY <1>1, HistorySame, CallsSame DEF IInv
<1>8. SameKeys
  <2>1. DOMAIN deps = Hosts
    BY DEF IInv, DeliveryInv, AheadInv, KeysInv
  <2> QED BY <2>1 DEF DispatchFetched, SameKeys
<1>9. ApartInv' /\ AheadInv'
  BY <1>1, <1>6, <1>7, <1>8, Stays DEF IInv, DeliveryInv, stateVars
<1> QED BY <1>5, <1>7, <1>9 DEF DeliveryInv

LEMMA ContinueIs ==
  ASSUME NEW g PROVE Continue(g) = <<>> \/ (Continue(g) = <<g>> /\ Continue(g)[1] = g)
BY DEF Continue

(* What a dispatch registers, it delivers to the blocks of its host.       *)
LEMMA RegisteredDue ==
  ASSUME NEW h, NEW d \in Data, d.kind = "redis" \/ (d.kind = "kafka" /\ ~d.fromLocal),
         NEW x \in Range(Dest[d.out]), x.block # User, Home[x.block] = h
  PROVE  <<Key(d), x>> \in Due(h, d)
<1>1. d.kind # "fetched" /\ d.out \notin Range(GlobalInputs)
  BY DEF Data, ByReference
<1>2. WorkFor(h, d, x)
  BY DEF WorkFor
<1> QED BY <1>1, <1>2 DEF Due

LEMMA BlockAt ==
  ASSUME NEW o \in Outs, NEW h, NEW b
  PROVE  b \in BlocksAt(o, h) <=>
           b \in Blocks /\ Home[b] = h /\ \E x \in Range(Dest[o]) : x.block = b
<1>1. DOMAIN Dest[o] = 1..Len(Dest[o])
  BY WorkflowAssumption
<1> QED BY <1>1 DEF BlocksAt, Range

LEMMA DispatchOnce ==
  ASSUME IInv, NEW h \in Hosts, Dispatch(h) PROVE DeliveryInv' /\ HistoryInv'
<1> DEFINE d == Head(queue[h])
           w == Greenlet(h, d)
           D == Due(h, d)
           a == <<"running", h>>
           c == <<"queue", h>>
<1>1. /\ queue[h] # <<>> /\ running[h] = <<>> /\ d.kind # "fetched"
      /\ queue' = [queue EXCEPT ![h] = Tail(queue[h])]
      /\ running' = [running EXCEPT ![h] = Continue(w)]
      /\ UNCHANGED <<phase, infoNet, known, dataNet, backlog, parked, runs>> /\ UNCHANGED stateVars
  BY DEF Dispatch, Free, gatewayVars, netVars
<1>12. /\ DOMAIN deps = Hosts /\ DOMAIN deps' = Hosts
       /\ \A x \in Hosts : x # h => deps'[x] = deps[x]
       /\ \A k \in DOMAIN deps'[h] :
            \/ k \in DOMAIN deps[h]
            \/ k = Key(d) /\ (d.kind = "redis" \/ (d.kind = "kafka" /\ ~d.fromLocal))
  <2>1. DOMAIN deps = Hosts
    BY DEF IInv, DeliveryInv, AheadInv, KeysInv
  <2>2. PICK n : n = Counted(h, d)
    OBVIOUS
  <2>3. \/ deps' = deps
        \/ /\ d.kind = "redis" \/ (d.kind = "kafka" /\ ~d.fromLocal)
           /\ deps' = [deps EXCEPT ![h] = With(deps[h], Key(d), n)]
    BY <2>2 DEF Dispatch
  <2>4. DOMAIN With(deps[h], Key(d), n) = DOMAIN deps[h] \cup {Key(d)}
    BY DEF With
  <2> HIDE DEF d
  <2> QED BY <2>1, <2>3, <2>4
<1>2. queue = [x \in Hosts |-> queue[x]] /\ running = [x \in Hosts |-> running[x]]
  BY DEF IInv, Inv, InboxInv, GreenInv
<1>3. /\ \A x \in Hosts : x # h => queue'[x] = queue[x] /\ running'[x] = running[x]
      /\ queue'[h] = Tail(queue[h]) /\ running'[h] = Continue(w)
  BY <1>1, <1>2
<1>4. /\ DueOf(h, queue'[h]) \subseteq DueOf(h, queue[h]) \ D
      /\ D \subseteq DueOf(h, queue[h]) /\ EachOnce(h, queue'[h])
  BY <1>1, <1>3, Inboxes, DueTail
<1>5. d \in Data
  BY <1>1, InboxTail DEF IInv, Inv, InboxInv
<1>6. IsInjective(w.dests) /\ DueBy(h, w) \subseteq D
  BY <1>5, GreenletDue
<1> HIDE DEF d, w, D
<1>7. running'[h] # <<>> => running'[h][1] = w
  BY <1>3, ContinueIs
<1>8. /\ a \in Places /\ c \in Places /\ a # c
      /\ Held(a) = {} /\ Held(c) = DueOf(h, queue[h]) /\ Held(c)' = DueOf(h, queue'[h])
      /\ Held(a)' = IF running'[h] = <<>> THEN {} ELSE DueBy(h, running'[h][1])
  BY <1>1, PlacesAre, HeldIs DEF PlaceFacts, HeldFacts
<1>9. Held(a)' \subseteq Held(a) \cup D
  BY <1>6, <1>7, <1>8
<1>13. \A t : /\ ~AtHome(c, t)
              /\ Home[t[2].block] = h => AtHome(a, t)
  BY DEF AtHome
<1> HIDE DEF a, c
<1>10. OnceInv'
  BY <1>1, <1>3, <1>4, <1>6, <1>7 DEF OnceInv, IInv, DeliveryInv
<1>11. Moving(a, c, D, D)
  <2>1. NoMore({a, c})
    BY <1>1, <1>3 DEF NoMore, a, c
  <2> QED BY <1>4, <1>8, <1>9, <2>1 DEF Moving
<1>14. HistoryInv' /\ Fired' = Fired /\ Sent' = Sent
  BY <1>1, HistorySame, CallsSame DEF IInv
<1>15. ApartInv /\ AheadInv /\ UNCHANGED inputDatas
  BY <1>1 DEF IInv, DeliveryInv, stateVars
<1>16. /\ ApartInv'
       /\ \A p \in Places' : \A t \in Held(p)' :
            \/ p \in Places /\ t \in Held(p) /\ t \notin D
            \/ p = a /\ t \in D
  BY <1>8, <1>11, <1>15, Moved
<1>17. \A t : Got(t)' = Got(t)
  BY <1>14, <1>15, GotSame
<1>18. ASSUME NEW x, d.kind = "redis" \/ (d.kind = "kafka" /\ ~d.fromLocal),
              x \in Range(Dest[d.out]), x.block # User, Home[x.block] = h
       PROVE  <<Key(d), x>> \in D
  BY <1>5, <1>18, RegisteredDue DEF D
<1>19. Key(d)[2] = d.out /\ d.out \in Outs
  BY <1>5 DEF Key, Data
<1>20. KeysInv'
  <2> SUFFICES ASSUME NEW k \in DOMAIN deps'[h], k \notin DOMAIN deps[h], BlocksAt(k[2], h) # {}
               PROVE  k \in Sent
    BY <1>12, <1>14, <1>15 DEF AheadInv, KeysInv
  <2>1. k = Key(d) /\ (d.kind = "redis" \/ (d.kind = "kafka" /\ ~d.fromLocal))
    BY <1>12
  <2>2. PICK x \in Range(Dest[d.out]) : x.block \in Blocks /\ Home[x.block] = h
    BY <1>19, <2>1, BlockAt
  <2>3. x.block # User
    BY <2>2, WorkflowAssumption
  <2>4. <<Key(d), x>> \in Held(c)
    BY <1>4, <1>8, <1>18, <2>1, <2>2, <2>3
  <2>5. <<Key(d), x>>[1] \in Sent
    BY <1>8, <1>15, <2>4 DEF AheadInv
  <2> QED BY <2>1, <2>5
<1>21. ASSUME NEW p \in Places', NEW t \in Held(p)'
       PROVE  IsDelivery(t) /\ ~Got(t) /\ t[1] \in Sent /\ (Registers(t)' => AtHome(p, t))
  <2>1. ASSUME NEW u \in Places, t \in Held(u)
        PROVE  /\ IsDelivery(t) /\ ~Got(t) /\ t[1] \in Sent /\ Home[t[2].block] \in Hosts
               /\ Registers(t) => AtHome(u, t)
    <3>1. IsDelivery(t) /\ ~Got(t) /\ t[1] \in Sent /\ (Registers(t) => AtHome(u, t))
      BY <1>15, <2>1 DEF AheadInv
    <3> QED BY <3>1, DestType DEF IsDelivery, Hosts
  <2>2. CASE p = a /\ t \in D
    <3>1. t \in Held(c)
      BY <1>4, <1>8, <2>2
    <3>2. /\ IsDelivery(t) /\ ~Got(t) /\ t[1] \in Sent /\ Home[t[2].block] \in Hosts
          /\ ~Registers(t)
      <4>1. /\ IsDelivery(t) /\ ~Got(t) /\ t[1] \in Sent /\ Home[t[2].block] \in Hosts
            /\ Registers(t) => AtHome(c, t)
        BY <1>8, <2>1, <3>1
      <4>2. ~AtHome(c, t)
        BY <1>13
      <4> QED BY <4>1, <4>2
    <3>3. CASE Home[t[2].block] = h
      <4>1. AtHome(p, t)
        BY <1>13, <2>2, <3>3
      <4> QED BY <3>2, <4>1
    <3>4. CASE Home[t[2].block] # h
      <4>1. ~Registers(t)'
        BY <1>12, <3>2, <3>4 DEF Registers
      <4> QED BY <3>2, <4>1
    <3> QED BY <3>3, <3>4
  <2>3. CASE p \in Places /\ t \in Held(p) /\ t \notin D
    <3>1. ASSUME Registers(t)', ~Registers(t) PROVE FALSE
      <4>1. /\ Home[t[2].block] = h /\ t[1] = Key(d)
            /\ d.kind = "redis" \/ (d.kind = "kafka" /\ ~d.fromLocal)
        BY <1>12, <2>1, <2>3, <3>1 DEF Registers
      <4>2. t = <<t[1], t[2]>> /\ t[2] \in Range(Dest[t[1][2]]) /\ t[2].block # User
        BY <2>1, <2>3 DEF IsDelivery
      <4>3. t \in D
        BY <1>18, <1>19, <4>1, <4>2
      <4> QED BY <2>3, <4>3
    <3> QED BY <2>1, <2>3, <3>1
  <2> QED BY <1>16, <2>2, <2>3
<1>22. AheadInv'
  BY <1>14, <1>17, <1>20, <1>21 DEF AheadInv, IsDelivery, AtHome
<1> QED BY <1>10, <1>14, <1>16, <1>22 DEF DeliveryInv

LEMMA ToUserOnce ==
  ASSUME IInv, NEW h \in Hosts, ToUser(h) PROVE DeliveryInv' /\ HistoryInv'
<1> DEFINE g == running[h][1]
           w == Advance(g)
<1>1. /\ running[h] # <<>> /\ running' = [running EXCEPT ![h] = Continue(w)]
      /\ UNCHANGED <<phase, infoNet, known, dataNet, backlog, queue, parked, runs>> /\ UNCHANGED stateVars
  BY DEF ToUser, gatewayVars, inboxVars
<1>11. SameKeys
  BY KeysSame DEF ToUser, keyVars
<1>2. running = [x \in Hosts |-> running[x]]
  BY DEF IInv, Inv, GreenInv
<1>3. /\ \A x \in Hosts : x # h => running'[x] = running[x]
      /\ running'[h] = Continue(w)
  BY <1>1, <1>2
<1>4. IsGreenlet(h, g) /\ g.dests # <<>> /\ IsInjective(g.dests)
  BY <1>1, RunningIs DEF IInv, Inv, DeliveryInv, OnceInv
<1>5. IsInjective(w.dests) /\ DueBy(h, w) \subseteq DueBy(h, g)
  BY <1>4, AdvanceDue
<1> HIDE DEF w
<1>6. running'[h] # <<>> => running'[h][1] = w
  BY <1>3, ContinueIs
<1>7. OnceInv'
  BY <1>1, <1>3, <1>5, <1>6 DEF OnceInv, IInv, DeliveryInv
<1>8. NoMore({})
  BY <1>1, <1>3, <1>5, <1>6 DEF NoMore
<1>9. HistoryInv' /\ Fired' = Fired /\ Sent' = Sent
  BY <1>1, HistorySame, CallsSame DEF IInv
<1>10. ApartInv' /\ AheadInv'
  BY <1>1, <1>8, <1>9, <1>11, Stays DEF IInv, DeliveryInv, stateVars
<1> QED BY <1>7, <1>9, <1>10 DEF DeliveryInv

LEMMA ToRemoteOnce ==
  ASSUME IInv, NEW h \in Hosts, ToRemote(h) PROVE DeliveryInv' /\ HistoryInv'
<1> DEFINE g == running[h][1]
           b == Head(g.dests).block
           k == Home[b]
           d == [g.data EXCEPT !.fromLocal = FALSE]
           v == [g EXCEPT !.sent = @ \cup {k}]
           w == Advance(v)
           D == Due(k, d)
           c == <<"running", h>>
<1>0. PICK m : m = [to |-> k, sender |-> b, datas |-> <<d>>]
  OBVIOUS
<1> DEFINE a == <<"net", m>>
<1>1. /\ running[h] # <<>> /\ running' = [running EXCEPT ![h] = Continue(w)]
      /\ UNCHANGED <<phase, infoNet, known, backlog, queue, parked, runs>> /\ UNCHANGED stateVars
      /\ IF k \in g.sent THEN dataNet' = dataNet ELSE dataNet' = dataNet \cup {m}
      /\ b # User /\ k # h
  BY <1>0 DEF ToRemote, gatewayVars, inboxVars
<1>12. SameKeys
  BY KeysSame DEF ToRemote, keyVars
<1>2. running = [x \in Hosts |-> running[x]]
  BY DEF IInv, Inv, GreenInv
<1>3. /\ \A x \in Hosts : x # h => running'[x] = running[x]
      /\ running'[h] = Continue(w)
  BY <1>1, <1>2
<1>4. IsGreenlet(h, g) /\ g.dests # <<>> /\ IsInjective(g.dests)
  BY <1>1, RunningIs DEF IInv, Inv, DeliveryInv, OnceInv
<1>13. d \in Data /\ ~d.fromLocal
  <2> HIDE DEF g
  <2>1. g.data \in Data
    BY <1>4 DEF IsGreenlet
  <2>2. d \in Data
    BY <2>1, RemoteType
  <2> QED BY <2>1, <2>2 DEF Data
<1> HIDE DEF g
<1>5. /\ w.dests = Tail(g.dests) /\ Advance(g).dests = Tail(g.dests) /\ IsInjective(w.dests)
      /\ DueBy(h, w) \subseteq DueBy(h, g)
      /\ k \notin g.sent => D \subseteq DueBy(h, g)
      /\ D \cap DueBy(h, w) = {}
  <2>1. Head(g.dests).block # User /\ k = Home[Head(g.dests).block] /\ k # h
    BY <1>1
  <2>2. Advance(g).dests = Tail(g.dests)
    BY <1>4, AdvanceType
  <2>3. /\ w.dests = Tail(g.dests) /\ IsInjective(w.dests)
        /\ DueBy(h, w) \subseteq DueBy(h, g)
        /\ k \notin g.sent => D \subseteq DueBy(h, g)
        /\ D \cap DueBy(h, w) = {}
    <3> HIDE DEF k
    <3> QED BY <1>4, <2>1, RemoteDue
  <2> QED BY <2>2, <2>3
<1>6. m.to = k /\ m.datas = <<d>>
  BY <1>0
<1>14. ASSUME NEW t \in D PROVE ~AtHome(c, t)
  <2>1. WorkFor(k, d, t[2]) /\ t[2].block # User
    BY <1>13, <1>14, DueIsDelivery DEF IsDelivery
  <2>2. Home[t[2].block] = k
    BY <1>13, <2>1 DEF WorkFor
  <2> QED BY <1>1, <2>2 DEF AtHome
<1> HIDE DEF w, v, d, D
<1>7. EachOnce(k, <<d>>) /\ DueOf(k, <<d>>) = D
  <2>1. Len(<<d>>) = 1 /\ <<d>>[1] = d
    OBVIOUS
  <2>2. \A i \in 1..1 : i = 1
    OBVIOUS
  <2>3. 1 \in 1..1
    OBVIOUS
  <2> QED BY <2>1, <2>2, <2>3 DEF EachOnce, DueOf, D
<1>8. running'[h] # <<>> => running'[h][1] = w
  BY <1>3, ContinueIs
<1>9. OnceInv'
  BY <1>1, <1>3, <1>5, <1>6, <1>7, <1>8 DEF OnceInv, IInv, DeliveryInv
<1>10. CASE k \in g.sent
  <2>1. NoMore({})
    BY <1>1, <1>3, <1>5, <1>8, <1>10 DEF NoMore, g
  <2>2. HistoryInv' /\ Fired' = Fired /\ Sent' = Sent
    BY <1>1, HistorySame, CallsSame DEF IInv
  <2>3. ApartInv' /\ AheadInv'
    BY <1>1, <1>12, <2>1, <2>2, Stays DEF IInv, DeliveryInv, stateVars
  <2> QED BY <1>9, <2>2, <2>3 DEF DeliveryInv
<1>11. CASE k \notin g.sent
  <2>1. dataNet' = dataNet \cup {m}
    BY <1>1, <1>11
  <2>2. /\ a # c /\ c \in Places /\ Held(c) = DueBy(h, g)
        /\ Held(c)' = IF running'[h] = <<>> THEN {} ELSE DueBy(h, running'[h][1])
        /\ Held(a)' = D
    <3>1. a # c /\ c \in Places
      BY PlacesAre DEF PlaceFacts
    <3>2. /\ Held(c) = DueBy(h, g)
          /\ Held(c)' = IF running'[h] = <<>> THEN {} ELSE DueBy(h, running'[h][1])
      BY <1>1, HeldIs DEF HeldFacts, g
    <3>3. m \in dataNet'
      BY <2>1
    <3>4. Held(a)' = DueOf(m.to, m.datas)
      BY <3>3, HeldIs DEF HeldFacts
    <3> QED BY <1>6, <1>7, <3>1, <3>2, <3>4
  <2>3. Held(c)' \subseteq Held(c) \ D /\ D \subseteq Held(c)
    BY <1>5, <1>8, <1>11, <2>2
  <2> HIDE DEF a, c
  <2>4. NoMore({a, c})
    BY <1>1, <1>3, <2>1 DEF NoMore, a, c
  <2>5. Moving(a, c, D, D)
    BY <2>2, <2>3, <2>4 DEF Moving
  <2>6. \A t \in D : AtHome(c, t) => AtHome(a, t)
    BY <1>14
  <2> QED BY <1>1, <1>9, <1>12, <2>2, <2>5, <2>6, Carried, CallsSame
<1> QED BY <1>10, <1>11

LEMMA ResumeMergeOnce ==
  ASSUME IInv, NEW h \in Hosts, NEW g, ResumeMerge(h, g) PROVE DeliveryInv' /\ HistoryInv'
<1> DEFINE a == <<"running", h>>
           c == <<"parked", <<h, g>>>>
           D == DueBy(h, g)
<1>1. /\ running[h] = <<>> /\ g \in parked[h] /\ g.call = <<>>
      /\ running' = [running EXCEPT ![h] = <<g>>] /\ parked' = [parked EXCEPT ![h] = parked[h] \ {g}]
      /\ UNCHANGED <<phase, infoNet, known, dataNet, backlog, queue, runs>> /\ UNCHANGED stateVars
  BY DEF ResumeMerge, Free, gatewayVars, netVars, inboxVars
<1>2. running = [x \in Hosts |-> running[x]] /\ parked = [x \in Hosts |-> parked[x]]
  BY DEF IInv, Inv, GreenInv
<1>3. /\ \A x \in Hosts : x # h => running'[x] = running[x] /\ parked'[x] = parked[x]
      /\ running'[h] = <<g>> /\ parked'[h] = parked[h] \ {g} /\ running'[h][1] = g
  BY <1>1, <1>2
<1>4. \A x \in Hosts : Calls(x)' = Calls(x)
  BY <1>1, <1>3 DEF Calls
<1>5. /\ a \in Places /\ c \in Places /\ a # c /\ c \notin Places'
      /\ Held(a) = {} /\ Held(c) = D /\ Held(a)' = D
  <2>1. g \notin parked'[h]
    BY <1>3
  <2>2. /\ a \in Places /\ c \in Places /\ a # c /\ c \notin Places'
    BY <1>1, <2>1, PlacesAre DEF PlaceFacts
  <2>3. Held(a) = {} /\ Held(c) = D
    BY <1>1, HeldIs DEF HeldFacts
  <2>4. Held(a)' = DueBy(h, running'[h][1])
    BY <1>3, HeldIs DEF HeldFacts
  <2> QED BY <1>3, <2>2, <2>3, <2>4
<1>6. OnceInv'
  BY <1>1, <1>3 DEF OnceInv, IInv, DeliveryInv
<1>8. SameKeys
  BY KeysSame DEF ResumeMerge, keyVars
<1>9. \A t : AtHome(c, t) => AtHome(a, t)
  BY DEF AtHome
<1> HIDE DEF a, c, D
<1>7. Moving(a, c, D, D)
  <2>1. NoMore({a, c})
    BY <1>1, <1>3 DEF NoMore, a, c
  <2> QED BY <1>5, <2>1 DEF Moving
<1> QED BY <1>1, <1>4, <1>5, <1>6, <1>7, <1>8, <1>9, Carried

LEMMA FiredType ==
  ASSUME Inv, NEW f \in Fired
  PROVE  /\ f = <<f[1], f[2], f[3]>> /\ f[1] \in Requests /\ f[2] \in Blocks
         /\ f[1] \in known[Home[f[2]]] /\ f[3] \in Nat \cup {NoSerial}
<1>1. ASSUME NEW r \in runs, f = RunId(r)
      PROVE  /\ f = <<f[1], f[2], f[3]>> /\ f[1] \in Requests /\ f[2] \in Blocks
             /\ f[1] \in known[Home[f[2]]] /\ f[3] \in Nat \cup {NoSerial}
  <2>1. IsRun(r) /\ r.req \in Requests /\ r.req \in known[Home[r.block]]
    BY RunType
  <2> QED BY <1>1, <2>1 DEF RunId, IsRun
<1>2. ASSUME NEW h \in Hosts, NEW g \in Calls(h), f = CallId(g)
      PROVE  /\ f = <<f[1], f[2], f[3]>> /\ f[1] \in Requests /\ f[2] \in Blocks
             /\ f[1] \in known[Home[f[2]]] /\ f[3] \in Nat \cup {NoSerial}
  <2>1. IsGreenlet(h, g) /\ IsCall(h, g.data.req, g.call[1])
    BY DEF Inv, GreenInv, Calls
  <2>2. g.data.req \in Requests /\ g.data.req \in known[h]
    BY <2>1 DEF IsGreenlet, Data
  <2>3. BlockSerial(g.call[1].block, g.call[1].inputs) \in Nat \cup {NoSerial}
    BY <2>1, SerialType DEF IsCall
  <2> QED BY <1>2, <2>1, <2>2, <2>3 DEF CallId, IsCall
<1> QED BY <1>1, <1>2 DEF Fired

LEMMA RequestInfoOnce ==
  ASSUME IInv, NEW h \in Hosts, NEW q \in Requests, RequestInfo(h, q)
  PROVE  DeliveryInv' /\ HistoryInv'
<1>1. /\ <<h, q>> \in infoNet /\ infoNet' = infoNet \ {<<h, q>>}
      /\ known' = [known EXCEPT ![h] = @ \cup {q}]
      /\ inputDatas' = [inputDatas EXCEPT ![q] =
                          [b \in Blocks |-> IF Home[b] = h THEN EmptyFn ELSE @[b]]]
      /\ inputCnt' = [inputCnt EXCEPT ![q] =
                        [b \in Blocks |-> IF Home[b] = h THEN 0 ELSE @[b]]]
      /\ UNCHANGED <<phase, dataNet, backlog, queue, running, parked, runs>>
  BY DEF RequestInfo, gatewayVars, greenVars
<1>2. /\ \A p \in Requests, b \in Blocks :
           /\ inputDatas'[p][b] = IF p = q /\ Home[b] = h THEN EmptyFn ELSE inputDatas[p][b]
           /\ inputCnt'[p][b] = IF p = q /\ Home[b] = h THEN 0 ELSE inputCnt[p][b]
      /\ \A k \in Hosts : known'[k] = IF k = h THEN known[k] \cup {q} ELSE known[k]
  BY <1>1 DEF IInv, Inv, StateInv, InboxInv
<1>3. DOMAIN EmptyFn = {}
  BY DEF EmptyFn
<1> HIDE DEF EmptyFn
<1>4. q \notin known[h] /\ phase[q] # "idle"
  BY <1>1 DEF IInv, HistoryInv, InfoInv
<1>5. Fired' = Fired /\ Sent' = Sent /\ FireInv' /\ PostInv'
  <2>1. Fired' = Fired /\ FireInv'
    BY <1>1, CallsSame, FiredSame, FireSame DEF IInv, HistoryInv
  <2>2. Sent' = Sent
    BY <1>1 DEF Sent, ProducedBy
  <2>3. PostInv'
    BY <1>1 DEF PostInv, PostsOnce, IInv, HistoryInv
  <2> QED BY <2>1, <2>2, <2>3
<1>6. ASSUME NEW t, IsDelivery(t), Got(t)' PROVE Got(t)
  <2>1. t[1][1] \in Requests /\ t[2].block \in Blocks
    BY <1>6, DestType DEF IsDelivery
  <2> DEFINE o == t[1][2]  s == t[1][3]  x == t[2]  p == t[1][1]
  <2>2. CASE OutType[o] = "FOREACH" /\ <<p, x.block, s>> \in Fired'
    BY <1>5, <2>2 DEF Got
  <2>3. CASE /\ OutType[o] = "MERGE" /\ x.input \in DOMAIN inputDatas'[p][x.block]
             /\ s \in DOMAIN inputDatas'[p][x.block][x.input]
    <3>1. inputDatas'[p][x.block] = inputDatas[p][x.block]
      BY <1>2, <1>3, <2>1, <2>3
    <3> QED BY <2>3, <3>1 DEF Got
  <2> QED BY <1>6, <2>2, <2>3 DEF Got
<1>7. DeliveryInv'
  <2>1. OnceInv'
    BY <1>1 DEF IInv, DeliveryInv, OnceInv
  <2>2. NoMore({})
    BY <1>1 DEF NoMore
  <2>3. \A p \in Places' : Held(p)' \subseteq Held(p)
    BY <2>2, Shrinks
  <2>4. \A p \in Places' : p \notin Places => Held(p) = {}
    BY NewPlaceEmpty
  <2>5. ApartInv'
    <3> SUFFICES ASSUME NEW p \in Places', NEW u \in Places', p # u PROVE Held(p)' \cap Held(u)' = {}
      BY DEF ApartInv
    <3> QED BY <2>3, <2>4 DEF ApartInv, IInv, DeliveryInv
  <2>6. \A p \in Places' : \A t \in Held(p)' : Onward(p, t) /\ (Got(t)' => Got(t))
    BY <1>6, <2>3, <2>4 DEF AheadInv, Onward, IInv, DeliveryInv
  <2>7. AheadInv'
    <3>1. SameKeys
      BY KeysSame DEF RequestInfo, keyVars
    <3> QED BY <1>5, <2>6, <3>1, AheadKept DEF IInv, DeliveryInv
  <2> QED BY <2>1, <2>5, <2>7 DEF DeliveryInv
<1>8. GotInv'
  <2> SUFFICES ASSUME NEW o \in Outs, NEW x \in Range(Dest[o]), x.block # User
      PROVE  /\ OutType[o] = "FOREACH" => \A f \in Fired : f[2] = x.block => <<f[1], o, f[3]>> \in Sent
             /\ OutType[o] = "MERGE" => \A p \in Requests :
                  x.input \in DOMAIN inputDatas'[p][x.block] =>
                    \A s \in DOMAIN inputDatas'[p][x.block][x.input] : <<p, o, s>> \in Sent
    BY <1>5 DEF GotInv
  <2>1. x.block \in Blocks
    BY DestType
  <2> QED BY <1>2, <1>3, <2>1 DEF GotInv, IInv, HistoryInv
<1>9. InfoInv'
  <2> SUFFICES ASSUME NEW p \in Requests, NEW k \in Hosts
      PROVE  /\ phase[p] = "idle" => p \notin known'[k] /\ <<k, p>> \notin infoNet'
             /\ <<k, p>> \in infoNet' => p \notin known'[k]
    BY <1>1 DEF InfoInv
  <2>1. /\ phase[p] = "idle" => p \notin known[k] /\ <<k, p>> \notin infoNet
        /\ <<k, p>> \in infoNet => p \notin known[k]
    BY DEF InfoInv, IInv, HistoryInv
  <2>2. CASE k = h /\ p = q
    <3>1. <<k, p>> \notin infoNet'
      BY <1>1, <2>2
    <3> QED BY <1>4, <2>2, <3>1
  <2>3. CASE ~(k = h /\ p = q)
    <3>1. known'[k] = known[k] \/ (known'[k] = known[k] \cup {q} /\ p # q)
      BY <1>2, <2>3
    <3>2. <<k, p>> \in infoNet' => <<k, p>> \in infoNet
      BY <1>1
    <3> QED BY <2>1, <3>1, <3>2
  <2> QED BY <2>2, <2>3
<1>10. InstInv'
  <2>1. \A f \in Fired' : ForeachBlock(f[2]) <=> f[3] # NoSerial
    BY <1>5 DEF InstInv, IInv, HistoryInv
  <2>2. \A p \in Requests, b \in Blocks : \A i \in DOMAIN inputDatas'[p][b] :
          Inputs[b][i] = "NORMAL" => OutType[inputDatas'[p][b][i].out] = "NORMAL"
    BY <1>2, <1>3 DEF InstInv, IInv, HistoryInv
  <2> QED BY <2>1, <2>2 DEF InstInv
<1>11. CountInv'
  <2>1. ASSUME NEW p \in Requests, NEW b \in Blocks
        PROVE  /\ inputCnt'[p][b] = Cardinality(Complete(p, b)')
               /\ Cnt \notin DOMAIN inputDatas'[p][b] =>
                    \A i \in DOMAIN inputDatas'[p][b] : Inputs[b][i] = "LIST" =>
                       DOMAIN inputDatas'[p][b][i] = {}
    <3>1. CASE p = q /\ Home[b] = h
      <4>1. inputDatas'[p][b] = EmptyFn /\ inputCnt'[p][b] = 0
        BY <1>2, <3>1
      <4>2. Complete(p, b)' = {}
        BY <1>3, <4>1 DEF Complete
      <4> QED BY <1>3, <4>1, <4>2, FS_EmptySet
    <3>2. CASE ~(p = q /\ Home[b] = h)
      <4>1. inputDatas'[p][b] = inputDatas[p][b] /\ inputCnt'[p][b] = inputCnt[p][b]
        BY <1>2, <3>2
      <4>2. Complete(p, b)' = Complete(p, b)
        BY <4>1 DEF Complete
      <4> QED BY <4>1, <4>2 DEF CountInv, IInv, HistoryInv
    <3> QED BY <3>1, <3>2
  <2>2. ASSUME NEW f \in Fired, f[3] = NoSerial
        PROVE  inputCnt'[f[1]][f[2]] >= Cardinality(DOMAIN Inputs[f[2]])
    <3>1. f[1] \in Requests /\ f[2] \in Blocks /\ f[1] \in known[Home[f[2]]]
      BY FiredType DEF IInv
    <3>2. ~(f[1] = q /\ Home[f[2]] = h)
      BY <1>4, <3>1
    <3>3. inputCnt'[f[1]][f[2]] = inputCnt[f[1]][f[2]]
      BY <1>2, <3>1, <3>2
    <3> QED BY <2>2, <3>3 DEF CountInv, IInv, HistoryInv
  <2> QED BY <1>5, <2>1, <2>2 DEF CountInv
<1> QED BY <1>5, <1>7, <1>8, <1>9, <1>10, <1>11 DEF HistoryInv

-----------------------------------------------------------------------------
(* Steps of a greenlet at a local destination                              *)

(* The running greenlet leaves its destination, and goes on or waits.      *)
LEMMA GreenletMoves ==
  ASSUME IInv, NEW h \in Hosts, running[h] # <<>>, NEW v, IsInjective(v.dests),
         DueBy(h, v) \subseteq DueBy(h, running[h][1]), UNCHANGED <<dataNet, backlog, queue>>,
         \/ /\ running' = [running EXCEPT ![h] = Continue(v)] /\ UNCHANGED parked
            /\ UNCHANGED runs \/ \E new : runs' = runs \cup {new} /\ new.uploads = <<>>
         \/ /\ running' = [running EXCEPT ![h] = <<>>] /\ UNCHANGED runs
            /\ \E w : /\ w.data = v.data /\ w.sent = v.sent /\ w.dests = v.dests
                      /\ parked' = [parked EXCEPT ![h] = @ \cup {w}]
  PROVE  /\ OnceInv' /\ ApartInv'
         /\ \A p \in Places' : \A t \in Held(p)' :
              t \notin DueBy(h, running[h][1]) \ DueBy(h, v) /\ Onward(p, t)
<1> DEFINE N == DueBy(h, running[h][1])
           M == DueBy(h, v)
           c == <<"running", h>>
<1>1. running = [x \in Hosts |-> running[x]] /\ parked = [x \in Hosts |-> parked[x]]
  BY DEF IInv, Inv, GreenInv
<1>2. ApartInv /\ OnceInv
  BY DEF IInv, DeliveryInv
<1>3. /\ c \in Places /\ Held(c) = N
      /\ Held(c)' = IF running'[h] = <<>> THEN {} ELSE DueBy(h, running'[h][1])
  BY PlacesAre, HeldIs DEF PlaceFacts, HeldFacts
<1>4. CASE /\ running' = [running EXCEPT ![h] = Continue(v)] /\ UNCHANGED parked
           /\ UNCHANGED runs \/ \E new : runs' = runs \cup {new} /\ new.uploads = <<>>
  <2>1. /\ \A x \in Hosts : x # h => running'[x] = running[x]
        /\ running'[h] = Continue(v)
    BY <1>1, <1>4
  <2>2. running'[h] # <<>> => running'[h][1] = v
    BY <2>1, ContinueIs
  <2>3. \A r \in runs' : r \in runs \/ r.uploads = <<>>
    BY <1>4
  <2>4. OnceInv'
    <3>1. \A r : r.uploads = <<>> => EachOnce(Home[r.block], r.uploads)
      BY DEF EachOnce
    <3> QED BY <1>2, <1>4, <2>1, <2>2, <2>3, <3>1 DEF OnceInv
  <2>5. NoMore({c, c})
    BY <1>4, <2>1, <2>3 DEF NoMore
  <2>6. Moving(c, c, M, N)
    <3>1. Held(c)' \subseteq M
      BY <1>3, <2>2
    <3> HIDE DEF c, M, N
    <3>2. M \subseteq N
      BY DEF M, N
    <3> QED BY <1>3, <2>5, <3>1, <3>2 DEF Moving
  <2> HIDE DEF c, M, N
  <2>7. /\ ApartInv'
        /\ \A p \in Places' : \A t \in Held(p)' :
             \/ p \in Places /\ t \in Held(p) /\ t \notin N
             \/ p = c /\ t \in M
    <3>1. ApartInv /\ c \in Places
      BY <1>2, <1>3
    <3>2. ApartInv'
      BY <3>1, <2>6, Moved
    <3>3. ASSUME NEW p \in Places', NEW t \in Held(p)'
          PROVE  \/ p \in Places /\ t \in Held(p) /\ t \notin N
                 \/ p = c /\ t \in M
      BY <3>1, <2>6, Moved
    <3> QED BY <3>2, <3>3
  <2>8. M \subseteq Held(c)
    BY <1>3 DEF M, N
  <2>9. \A p \in Places' : \A t \in Held(p)' : t \notin N \ M /\ Onward(p, t)
    BY <1>3, <2>7, <2>8 DEF Onward
  <2> QED BY <2>4, <2>7, <2>9 DEF M, N
<1>5. CASE /\ running' = [running EXCEPT ![h] = <<>>] /\ UNCHANGED runs
           /\ \E w : /\ w.data = v.data /\ w.sent = v.sent /\ w.dests = v.dests
                     /\ parked' = [parked EXCEPT ![h] = @ \cup {w}]
  <2>1. PICK w : /\ w.data = v.data /\ w.sent = v.sent /\ w.dests = v.dests
                 /\ parked' = [parked EXCEPT ![h] = @ \cup {w}]
    BY <1>5
  <2> DEFINE a == <<"parked", <<h, w>>>>
  <2>2. /\ \A x \in Hosts : x # h => running'[x] = running[x] /\ parked'[x] = parked[x]
        /\ running'[h] = <<>> /\ parked'[h] = parked[h] \cup {w}
    BY <1>1, <1>5, <2>1
  <2>3. DueBy(h, w) = M
    BY <2>1 DEF DueBy
  <2>4. OnceInv'
    BY <1>2, <1>5, <2>1, <2>2 DEF OnceInv
  <2>5. NoMore({a, c})
    BY <1>5, <2>2 DEF NoMore
  <2>6. Held(a)' = M /\ Held(c)' = {} /\ a # c
    BY <1>3, <2>2, <2>3, HeldIs DEF HeldFacts
  <2>7. Moving(a, c, M, N)
    <3> HIDE DEF a, c, M, N
    <3>1. M \subseteq N
      BY DEF M, N
    <3> QED BY <1>3, <2>5, <2>6, <3>1 DEF Moving
  <2>8. \A t : AtHome(c, t) => AtHome(a, t)
    BY DEF AtHome
  <2> HIDE DEF a, c, M, N
  <2>9. /\ ApartInv'
        /\ \A p \in Places' : \A t \in Held(p)' :
             \/ p \in Places /\ t \in Held(p) /\ t \notin N
             \/ p = a /\ t \in M
    <3>1. ApartInv /\ c \in Places
      BY <1>2, <1>3
    <3>2. ApartInv'
      BY <3>1, <2>7, Moved
    <3>3. ASSUME NEW p \in Places', NEW t \in Held(p)'
          PROVE  \/ p \in Places /\ t \in Held(p) /\ t \notin N
                 \/ p = a /\ t \in M
      BY <3>1, <2>7, Moved
    <3> QED BY <3>2, <3>3
  <2>10. M \subseteq Held(c)
    BY <1>3 DEF M, N
  <2>11. \A p \in Places' : \A t \in Held(p)' : t \notin N \ M /\ Onward(p, t)
    BY <1>3, <2>8, <2>9, <2>10 DEF Onward
  <2> QED BY <2>4, <2>9, <2>11 DEF M, N
<1> QED BY <1>4, <1>5

(* What the running greenlet is at.                                        *)
LEMMA FlowingDue ==
  ASSUME IInv, NEW h \in Hosts, NEW y, Flowing(h, y)
  PROVE  LET g == running[h][1]
             t == <<Key(g.data), Head(g.dests)>>
         IN /\ IsInjective(g.dests) /\ IsInjective(Advance(g).dests)
            /\ DueBy(h, Advance(g)) \subseteq DueBy(h, g) /\ t \notin DueBy(h, Advance(g))
            /\ y # "NORMAL" => /\ t \in DueBy(h, g) /\ t[1] \in Sent /\ ~Got(t)
<1> DEFINE g == running[h][1]
           x == Head(g.dests)
           t == <<Key(g.data), x>>
<1>1. /\ running[h] # <<>> /\ IsGreenlet(h, g) /\ g.dests # <<>>
      /\ x.block \in Blocks /\ Home[x.block] = h /\ OutType[g.data.out] = y
  BY FlowingIs DEF IInv, Inv
<1>2. IsInjective(g.dests)
  BY <1>1 DEF IInv, DeliveryInv, OnceInv
<1>3. x.block # User
  BY <1>1, WorkflowAssumption
<1>4. /\ IsInjective(Advance(g).dests)
      /\ DueBy(h, Advance(g)) \subseteq DueBy(h, g) /\ t \notin DueBy(h, Advance(g))
      /\ g.data.out \notin Range(GlobalInputs) => t \in DueBy(h, g)
  <2> HIDE DEF g
  <2> QED BY <1>1, <1>2, <1>3, AdvanceDue
<1>5. ASSUME y # "NORMAL" PROVE t \in DueBy(h, g) /\ t[1] \in Sent /\ ~Got(t)
  <2>1. g.data.out \notin Range(GlobalInputs)
    BY <1>1, <1>5, PostingAssumption
  <2>2. t \in DueBy(h, g)
    BY <1>4, <2>1
  <2> DEFINE c == <<"running", h>>
  <2>3. c \in Places /\ Held(c) = DueBy(h, g)
    BY <1>1, PlacesAre, HeldIs DEF PlaceFacts, HeldFacts
  <2> HIDE DEF t, g, c
  <2> QED BY <2>2, <2>3 DEF IInv, DeliveryInv, AheadInv
<1> QED BY <1>2, <1>4, <1>5

(* The input that a FOREACH item goes to gives the block its serial.       *)
LEMMA SerialOfItem ==
  ASSUME StateInv, InstInv, NEW q \in Requests, NEW d \in Data, OutType[d.out] = "FOREACH",
         NEW x \in Range(Dest[d.out]), x.block # User
  PROVE  BlockSerial(x.block, With(inputDatas[q][x.block], x.input, d)) = d.serial
<1> DEFINE b == x.block
           stored == inputDatas[q][b]
           ins == With(stored, x.input, d)
           foreach == {i \in DOMAIN ins : Inputs[b][i] = "NORMAL" /\ OutType[ins[i].out] = "FOREACH"}
<1>1. d.out \in Outs
  BY DEF Data
<1>2. b \in Blocks /\ x.input \in DOMAIN Inputs[b] /\ Inputs[b][x.input] # "LIST"
  BY <1>1, DestType
<1>3. Inputs[b][x.input] = "NORMAL"
  BY <1>2, ItemsAssumption
<1>4. /\ DOMAIN ins = DOMAIN stored \cup {x.input} /\ ins[x.input] = d
      /\ \A i \in DOMAIN stored \ {x.input} : ins[i] = stored[i]
  <2> HIDE DEF stored, b
  <2> QED BY DEF With
<1>5. \A i \in DOMAIN stored : Inputs[b][i] = "NORMAL" => OutType[stored[i].out] = "NORMAL"
  BY <1>2 DEF InstInv
<1> HIDE DEF ins, stored, b
<1>6. foreach = {x.input}
  BY <1>3, <1>4, <1>5
<1> HIDE DEF foreach
<1>7. (CHOOSE i \in foreach : TRUE) = x.input
  BY <1>6
<1>8. BlockSerial(b, ins) = IF foreach = {} THEN NoSerial ELSE ins[CHOOSE i \in foreach : TRUE].serial
  BY DEF BlockSerial, foreach
<1>9. BlockSerial(b, ins) = d.serial
  BY <1>4, <1>6, <1>7, <1>8
<1> QED BY <1>9 DEF ins, stored, b

LEMMA FlowForeachOnce ==
  ASSUME IInv, NEW h \in Hosts, FlowForeach(h) PROVE DeliveryInv' /\ HistoryInv'
<1> DEFINE g == running[h][1]
           x == Head(g.dests)
           a == Advance(g)
           q == g.data.req
           o == g.data.out
           s == g.data.serial
           ins == With(inputDatas[q][x.block], x.input, g.data)
           t == <<Key(g.data), x>>
           id == <<q, x.block, s>>
<1>1. /\ Flowing(h, "FOREACH") /\ TriggerNormal(h, a, x.block, ins)
      /\ UNCHANGED <<phase, infoNet, known, dataNet, backlog, queue, deps>> /\ UNCHANGED stateVars
  BY DEF FlowForeach, gatewayVars, netVars, inboxVars, keyVars
<1>2. /\ running[h] # <<>> /\ IsGreenlet(h, g) /\ g.dests # <<>>
      /\ q \in Requests /\ x.block \in Blocks /\ OutType[o] = "FOREACH"
      /\ g.data \in Data /\ x \in Range(Dest[o]) /\ x.block # User
  <2>1. /\ running[h] # <<>> /\ IsGreenlet(h, g) /\ g.dests # <<>>
        /\ q \in Requests /\ x.block \in Blocks /\ OutType[o] = "FOREACH"
    BY <1>1, FlowingIs DEF IInv, Inv
  <2> HIDE DEF g
  <2>2. g.data \in Data /\ x \in Range(Dest[o])
    BY <2>1, HeadType
  <2> QED BY <2>1, <2>2, WorkflowAssumption
<1>3. /\ IsInjective(a.dests) /\ DueBy(h, a) \subseteq DueBy(h, g) /\ t \notin DueBy(h, a)
      /\ t \in DueBy(h, g) /\ t[1] \in Sent /\ ~Got(t)
  <2>1. "FOREACH" # "NORMAL"
    OBVIOUS
  <2> HIDE DEF q, o, s, ins, id
  <2> QED BY <1>1, <2>1, FlowingDue
<1>4. IsGreenlet(h, a) /\ a.data = g.data
  <2> HIDE DEF g
  <2> QED BY <1>2, AdvanceType
<1>5. o \in Outs /\ s \in Nat /\ Key(g.data) = <<q, o, s>>
  BY <1>2 DEF Data, Key
<1>6. BlockSerial(x.block, ins) = s
  <2> HIDE DEF x
  <2>1. StateInv /\ InstInv
    BY DEF IInv, Inv, HistoryInv
  <2> QED BY <1>2, <2>1, SerialOfItem DEF ins
<1> HIDE DEF a, x, ins, g
<1>7. id \notin Fired
  BY <1>2, <1>3, <1>5 DEF Got, t
<1>8. /\ FireInv' /\ PostInv' /\ Sent' = Sent /\ Fired' = Fired \cup {id}
      /\ \/ /\ running' = [running EXCEPT ![h] = Continue(a)] /\ UNCHANGED parked
            /\ \E new : runs' = runs \cup {new} /\ new.uploads = <<>> /\ new.inputs = ins /\ new.block = x.block
         \/ /\ running' = [running EXCEPT ![h] = <<>>] /\ UNCHANGED runs
            /\ \E w : /\ w.data = a.data /\ w.sent = a.sent /\ w.dests = a.dests
                      /\ parked' = [parked EXCEPT ![h] = @ \cup {w}]
                      /\ w.call # <<>> /\ w.call[1].block = x.block /\ w.call[1].inputs = ins
  <2>1. FireInv /\ PostInv /\ GreenInv
    BY DEF IInv, Inv, HistoryInv
  <2>2. <<a.data.req, x.block, BlockSerial(x.block, ins)>> = id
    BY <1>4, <1>6
  <2>3. <<a.data.req, x.block, BlockSerial(x.block, ins)>> \notin Fired
    BY <1>7, <2>2
  <2> HIDE DEF id
  <2> QED BY <1>1, <1>4, <2>1, <2>2, <2>3, Fires
<1>9. /\ OnceInv' /\ ApartInv'
      /\ \A p \in Places' : \A u \in Held(p)' :
           u \notin DueBy(h, g) \ DueBy(h, a) /\ Onward(p, u)
  <2>1. UNCHANGED <<dataNet, backlog, queue>>
    BY <1>1
  <2>2. \/ /\ running' = [running EXCEPT ![h] = Continue(a)] /\ UNCHANGED parked
           /\ UNCHANGED runs \/ \E new : runs' = runs \cup {new} /\ new.uploads = <<>>
        \/ /\ running' = [running EXCEPT ![h] = <<>>] /\ UNCHANGED runs
           /\ \E w : /\ w.data = a.data /\ w.sent = a.sent /\ w.dests = a.dests
                     /\ parked' = [parked EXCEPT ![h] = @ \cup {w}]
    BY <1>8
  <2> QED BY <1>2, <1>3, <2>1, <2>2, GreenletMoves DEF g
<1>10. ASSUME NEW u, IsDelivery(u), u # t, Got(u)' PROVE Got(u)
  <2> DEFINE uo == u[1][2]
             y == u[2]
  <2>1. inputDatas' = inputDatas
    BY <1>1 DEF stateVars
  <2>2. CASE OutType[uo] = "FOREACH" /\ <<u[1][1], y.block, u[1][3]>> \in Fired'
    <3>1. CASE <<u[1][1], y.block, u[1][3]>> = id
      <4>1. u[1][1] = q /\ y.block = x.block /\ u[1][3] = s
        BY <3>1
      <4>2. uo \in Outs /\ y \in Range(Dest[uo]) /\ u = <<<<u[1][1], uo, u[1][3]>>, y>>
        BY <1>10 DEF IsDelivery
      <4>3. uo = o /\ y = x
        BY <1>2, <1>5, <2>2, <4>1, <4>2, ItemsAssumption
      <4>4. u = t
        BY <1>5, <4>1, <4>2, <4>3
      <4> QED BY <1>10, <4>4
    <3>2. CASE <<u[1][1], y.block, u[1][3]>> # id
      BY <1>8, <2>2, <3>2 DEF Got
    <3> QED BY <3>1, <3>2
  <2>3. CASE ~(OutType[uo] = "FOREACH" /\ <<u[1][1], y.block, u[1][3]>> \in Fired')
    BY <1>10, <2>1, <2>3 DEF Got
  <2> QED BY <2>2, <2>3
<1>11. AheadInv'
  <2>1. AheadInv /\ Sent \subseteq Sent' /\ SameKeys
    BY <1>1, <1>8, KeysSame DEF IInv, DeliveryInv
  <2>2. ASSUME NEW p \in Places', NEW u \in Held(p)'
        PROVE  Onward(p, u) /\ (Got(u)' => Got(u))
    <3>1. u # t /\ Onward(p, u)
      BY <1>3, <1>9
    <3>2. IsDelivery(u)
      BY <2>1, <3>1 DEF AheadInv, Onward
    <3> QED BY <1>10, <3>1, <3>2
  <2> QED BY <2>1, <2>2, AheadKept
<1>12. GotInv' /\ InstInv' /\ CountInv'
  <2>1. inputDatas' = inputDatas /\ inputCnt' = inputCnt
    BY <1>1 DEF stateVars
  <2>2. GotInv /\ InstInv /\ CountInv
    BY DEF IInv, HistoryInv
  <2>3. GotInv'
    <3> SUFFICES ASSUME NEW uo \in Outs, NEW y \in Range(Dest[uo]), y.block # User
        PROVE  /\ OutType[uo] = "FOREACH" => \A f \in Fired' : f[2] = y.block => <<f[1], uo, f[3]>> \in Sent
               /\ OutType[uo] = "MERGE" => \A p \in Requests :
                    y.input \in DOMAIN inputDatas[p][y.block] =>
                      \A n \in DOMAIN inputDatas[p][y.block][y.input] : <<p, uo, n>> \in Sent
      BY <1>8, <2>1 DEF GotInv
    <3>1. ASSUME OutType[uo] = "FOREACH", id[2] = y.block PROVE <<id[1], uo, id[3]>> \in Sent
      <4>1. uo = o
        BY <1>2, <1>5, <3>1, ItemsAssumption
      <4> QED BY <1>3, <1>5, <4>1
    <3> QED BY <1>8, <2>2, <3>1 DEF GotInv
  <2>4. InstInv'
    <3>1. ForeachBlock(x.block) /\ s # NoSerial
      BY <1>2, <1>5 DEF ForeachBlock, NoSerial
    <3>2. \A f \in Fired' : ForeachBlock(f[2]) <=> f[3] # NoSerial
      BY <1>8, <2>2, <3>1 DEF InstInv
    <3> QED BY <2>1, <2>2, <3>2 DEF InstInv
  <2>5. CountInv'
    <3>1. \A p, b : Complete(p, b)' = Complete(p, b)
      BY <2>1 DEF Complete
    <3>2. s # NoSerial
      BY <1>5 DEF NoSerial
    <3>3. \A f \in Fired' : f[3] = NoSerial => f \in Fired
      BY <1>8, <3>2
    <3> QED BY <2>1, <2>2, <3>1, <3>3 DEF CountInv
  <2> QED BY <2>3, <2>4, <2>5
<1>13. InfoInv'
  BY <1>1, InfoSame DEF IInv, HistoryInv
<1> QED BY <1>8, <1>9, <1>11, <1>12, <1>13 DEF DeliveryInv, HistoryInv

(* The datum d is stored at its destination x, whose block then has ins.   *)
Storing(d, x, ins) ==
  LET stored == inputDatas[d.req][x.block] IN
  /\ d \in Data /\ x \in Range(Dest[d.out]) /\ x.block \in Blocks
  /\ OutType[d.out] = "MERGE" => Key(d) \in Sent
  /\ inputDatas' = [inputDatas EXCEPT ![d.req][x.block] = ins]
  /\ IsInputs(d.req, x.block, ins)
  /\ \A i \in DOMAIN ins : Inputs[x.block][i] = "NORMAL" => OutType[ins[i].out] = "NORMAL"
  /\ \A i \in DOMAIN ins : Inputs[x.block][i] = "LIST" =>
       /\ Cnt \notin DOMAIN ins => DOMAIN ins[i] = {}
       /\ \A s \in DOMAIN ins[i] :
            \/ i \in DOMAIN stored /\ s \in DOMAIN stored[i]
            \/ OutType[d.out] = "MERGE" /\ i = x.input /\ s = d.serial

(* No instance is triggered but that of the block, without a serial.       *)
FiresAtMost(q, b) == \A f \in Fired' : f \in Fired \/ (f = <<q, b, NoSerial>> /\ ~ForeachBlock(b))

LEMMA StoredIs ==
  ASSUME IInv, NEW d, NEW x, NEW ins, Storing(d, x, ins)
  PROVE  \A p \in Requests, b \in Blocks :
           inputDatas'[p][b] = IF p = d.req /\ b = x.block THEN ins ELSE inputDatas[p][b]
<1>1. d.req \in Requests /\ x.block \in Blocks
  BY DEF Storing, Data
<1> QED BY <1>1 DEF Storing, IInv, Inv, StateInv

(* What has its effect by then is the delivery of d to x.                  *)
LEMMA StoredGot ==
  ASSUME IInv, NEW d, NEW x, NEW ins, Storing(d, x, ins), FiresAtMost(d.req, x.block),
         NEW u, IsDelivery(u), Got(u)'
  PROVE  \/ Got(u)
         \/ /\ OutType[d.out] = "MERGE" /\ u = <<Key(d), x>>
            /\ x.input \in DOMAIN ins /\ d.serial \in DOMAIN ins[x.input]
<1> DEFINE p == u[1][1]
           o == u[1][2]
           s == u[1][3]
           y == u[2]
<1>1. /\ p \in Requests /\ o \in Outs /\ s \in Nat /\ y \in Range(Dest[o]) /\ y.block # User
      /\ u = <<<<p, o, s>>, y>>
  BY DEF IsDelivery
<1>2. y.block \in Blocks /\ (OutType[o] = "MERGE" => Inputs[y.block][y.input] = "LIST")
  BY <1>1, DestType
<1>3. CASE OutType[o] = "FOREACH" /\ <<p, y.block, s>> \in Fired'
  <2>1. s # NoSerial
    BY <1>1 DEF NoSerial
  <2>2. <<p, y.block, s>> \in Fired
    BY <1>3, <2>1 DEF FiresAtMost
  <2> QED BY <1>3, <2>2 DEF Got
<1>4. CASE /\ OutType[o] = "MERGE" /\ y.input \in DOMAIN inputDatas'[p][y.block]
           /\ s \in DOMAIN inputDatas'[p][y.block][y.input]
  <2>1. CASE ~(p = d.req /\ y.block = x.block)
    <3>1. inputDatas'[p][y.block] = inputDatas[p][y.block]
      BY <1>1, <1>2, <2>1, StoredIs
    <3> QED BY <1>4, <3>1 DEF Got
  <2>2. CASE p = d.req /\ y.block = x.block
    <3>1. inputDatas'[p][y.block] = ins
      BY <1>1, <1>2, <2>2, StoredIs
    <3>2. y.input \in DOMAIN ins /\ s \in DOMAIN ins[y.input] /\ Inputs[x.block][y.input] = "LIST"
      BY <1>2, <1>4, <2>2, <3>1
    <3>3. \/ y.input \in DOMAIN inputDatas[p][x.block] /\ s \in DOMAIN inputDatas[p][x.block][y.input]
          \/ OutType[d.out] = "MERGE" /\ y.input = x.input /\ s = d.serial
      BY <2>2, <3>2 DEF Storing
    <3>4. CASE y.input \in DOMAIN inputDatas[p][x.block] /\ s \in DOMAIN inputDatas[p][x.block][y.input]
      BY <1>4, <2>2, <3>4 DEF Got
    <3>5. CASE OutType[d.out] = "MERGE" /\ y.input = x.input /\ s = d.serial
      <4>1. d.out \in Outs /\ x \in Range(Dest[d.out])
        BY DEF Storing, Data
      <4>2. o = d.out /\ y = x
        BY <1>1, <1>4, <2>2, <3>5, <4>1, ItemsAssumption
      <4>3. u = <<Key(d), x>>
        BY <1>1, <2>2, <3>5, <4>2 DEF Key
      <4> QED BY <3>2, <3>5, <4>3
    <3> QED BY <3>3, <3>4, <3>5
  <2> QED BY <2>1, <2>2
<1> QED BY <1>3, <1>4 DEF Got

LEMMA StoredHistory ==
  ASSUME IInv, NEW d, NEW x, NEW ins, Storing(d, x, ins), FiresAtMost(d.req, x.block), Sent' = Sent,
         \/ /\ inputCnt' = inputCnt /\ Fired' = Fired
            /\ Complete(d.req, x.block)' = Complete(d.req, x.block)
         \/ /\ inputCnt' = [inputCnt EXCEPT ![d.req][x.block] = @ + 1]
            /\ Cardinality(Complete(d.req, x.block)') = Cardinality(Complete(d.req, x.block)) + 1
            /\ Fired' = Fired \/ inputCnt[d.req][x.block] + 1 = Cardinality(DOMAIN Inputs[x.block])
  PROVE  GotInv' /\ InstInv' /\ CountInv'
<1> DEFINE q == d.req
           b == x.block
<1>1. q \in Requests /\ b \in Blocks /\ d.out \in Outs /\ x \in Range(Dest[d.out])
  BY DEF Storing, Data
<1>2. /\ \A p \in Requests, c \in Blocks : ~(p = q /\ c = b) => inputDatas'[p][c] = inputDatas[p][c]
      /\ inputDatas'[q][b] = ins
  BY <1>1, StoredIs
<1>3. GotInv'
  <2> SUFFICES ASSUME NEW o \in Outs, NEW y \in Range(Dest[o]), y.block # User
      PROVE  /\ OutType[o] = "FOREACH" => \A f \in Fired' : f[2] = y.block => <<f[1], o, f[3]>> \in Sent
             /\ OutType[o] = "MERGE" => \A p \in Requests :
                  y.input \in DOMAIN inputDatas'[p][y.block] =>
                    \A s \in DOMAIN inputDatas'[p][y.block][y.input] : <<p, o, s>> \in Sent
    BY DEF GotInv
  <2>1. GotInv
    BY DEF IInv, HistoryInv
  <2>2. y.block \in Blocks /\ (OutType[o] = "MERGE" => Inputs[y.block][y.input] = "LIST")
    BY DestType
  <2>3. ASSUME OutType[o] = "FOREACH", NEW f \in Fired', f[2] = y.block PROVE <<f[1], o, f[3]>> \in Sent
    <3>1. ForeachBlock(y.block)
      BY <2>3 DEF ForeachBlock
    <3>2. f \in Fired
      BY <2>3, <3>1 DEF FiresAtMost
    <3> QED BY <2>1, <2>3, <3>2 DEF GotInv
  <2>4. ASSUME OutType[o] = "MERGE", NEW p \in Requests, y.input \in DOMAIN inputDatas'[p][y.block],
               NEW s \in DOMAIN inputDatas'[p][y.block][y.input]
        PROVE  <<p, o, s>> \in Sent
    <3>1. CASE ~(p = q /\ y.block = b)
      <4>1. inputDatas'[p][y.block] = inputDatas[p][y.block]
        BY <1>2, <2>2, <3>1
      <4> QED BY <2>1, <2>4, <4>1 DEF GotInv
    <3>2. CASE p = q /\ y.block = b
      <4>1. y.input \in DOMAIN ins /\ s \in DOMAIN ins[y.input] /\ Inputs[b][y.input] = "LIST"
        BY <1>2, <2>2, <2>4, <3>2
      <4>2. \/ y.input \in DOMAIN inputDatas[q][b] /\ s \in DOMAIN inputDatas[q][b][y.input]
            \/ OutType[d.out] = "MERGE" /\ y.input = x.input /\ s = d.serial
        BY <4>1 DEF Storing
      <4>3. CASE y.input \in DOMAIN inputDatas[q][b] /\ s \in DOMAIN inputDatas[q][b][y.input]
        BY <2>1, <2>4, <3>2, <4>3 DEF GotInv
      <4>4. CASE OutType[d.out] = "MERGE" /\ y.input = x.input /\ s = d.serial
        <5>1. o = d.out
          BY <1>1, <2>4, <3>2, <4>4, ItemsAssumption
        <5>2. Key(d) \in Sent
          BY <4>4 DEF Storing
        <5> QED BY <3>2, <4>4, <5>1, <5>2 DEF Key
      <4> QED BY <4>2, <4>3, <4>4
    <3> QED BY <3>1, <3>2
  <2> QED BY <2>3, <2>4
<1>4. InstInv'
  <2>1. InstInv
    BY DEF IInv, HistoryInv
  <2>2. \A f \in Fired' : ForeachBlock(f[2]) <=> f[3] # NoSerial
    BY <2>1 DEF InstInv, FiresAtMost
  <2>3. ASSUME NEW p \in Requests, NEW c \in Blocks, NEW i \in DOMAIN inputDatas'[p][c],
               Inputs[c][i] = "NORMAL"
        PROVE  OutType[inputDatas'[p][c][i].out] = "NORMAL"
    <3>1. CASE p = q /\ c = b
      BY <1>2, <2>3, <3>1 DEF Storing
    <3>2. CASE ~(p = q /\ c = b)
      BY <1>2, <2>1, <2>3, <3>2 DEF InstInv
    <3> QED BY <3>1, <3>2
  <2> QED BY <2>2, <2>3 DEF InstInv
<1>5. CountInv'
  <2>1. CountInv /\ inputCnt \in [Requests -> [Blocks -> Nat]]
    BY DEF IInv, Inv, HistoryInv, StateInv
  <2>2. /\ \A p \in Requests, c \in Blocks : ~(p = q /\ c = b) => inputCnt'[p][c] = inputCnt[p][c]
        /\ \/ /\ inputCnt'[q][b] = inputCnt[q][b] /\ Fired' = Fired
              /\ Complete(q, b)' = Complete(q, b)
           \/ /\ inputCnt'[q][b] = inputCnt[q][b] + 1
              /\ Cardinality(Complete(q, b)') = Cardinality(Complete(q, b)) + 1
              /\ Fired' = Fired \/ inputCnt[q][b] + 1 = Cardinality(DOMAIN Inputs[b])
    BY <1>1, <2>1
  <2>3. \A p \in Requests, c \in Blocks : ~(p = q /\ c = b) => Complete(p, c)' = Complete(p, c)
    BY <1>2 DEF Complete
  <2>4. ASSUME NEW p \in Requests, NEW c \in Blocks
        PROVE  inputCnt'[p][c] = Cardinality(Complete(p, c)') /\ inputCnt'[p][c] >= inputCnt[p][c]
    <3>1. inputCnt[p][c] = Cardinality(Complete(p, c)) /\ inputCnt[p][c] \in Nat
      BY <2>1 DEF CountInv
    <3>2. CASE p = q /\ c = b
      BY <2>2, <3>1, <3>2
    <3>3. CASE ~(p = q /\ c = b)
      BY <2>2, <2>3, <3>1, <3>3
    <3> QED BY <3>2, <3>3
  <2>5. ASSUME NEW p \in Requests, NEW c \in Blocks, Cnt \notin DOMAIN inputDatas'[p][c],
               NEW i \in DOMAIN inputDatas'[p][c], Inputs[c][i] = "LIST"
        PROVE  DOMAIN inputDatas'[p][c][i] = {}
    <3>1. CASE p = q /\ c = b
      BY <1>2, <2>5, <3>1 DEF Storing
    <3>2. CASE ~(p = q /\ c = b)
      BY <1>2, <2>1, <2>5, <3>2 DEF CountInv
    <3> QED BY <3>1, <3>2
  <2>6. ASSUME NEW f \in Fired', f[3] = NoSerial
        PROVE  inputCnt'[f[1]][f[2]] >= Cardinality(DOMAIN Inputs[f[2]])
    <3>1. CASE f \in Fired
      <4>1. f[1] \in Requests /\ f[2] \in Blocks
        BY <3>1, FiredType DEF IInv
      <4>2. inputCnt[f[1]][f[2]] >= Cardinality(DOMAIN Inputs[f[2]])
        BY <2>1, <2>6, <3>1 DEF CountInv
      <4>3. inputCnt'[f[1]][f[2]] >= inputCnt[f[1]][f[2]]
        BY <2>4, <4>1
      <4>4. IsFiniteSet(DOMAIN Inputs[f[2]])
        BY <4>1, ItemsAssumption
      <4>5. Cardinality(DOMAIN Inputs[f[2]]) \in Nat
        BY <4>4, FS_CardinalityType
      <4>6. inputCnt[f[1]][f[2]] \in Nat
        BY <2>1, <4>1
      <4>7. inputCnt'[f[1]][f[2]] = inputCnt[f[1]][f[2]] \/ inputCnt'[f[1]][f[2]] = inputCnt[f[1]][f[2]] + 1
        BY <2>2, <4>1
      <4> QED BY <4>2, <4>3, <4>5, <4>6, <4>7
    <3>2. CASE f \notin Fired
      <4>1. f[1] = q /\ f[2] = b
        BY <3>2 DEF FiresAtMost
      <4>2. inputCnt'[q][b] = Cardinality(DOMAIN Inputs[b])
        BY <2>2, <3>2
      <4>3. IsFiniteSet(DOMAIN Inputs[b])
        BY <1>1, ItemsAssumption
      <4>4. Cardinality(DOMAIN Inputs[b]) \in Nat
        BY <4>3, FS_CardinalityType
      <4> QED BY <4>1, <4>2, <4>4
    <3> QED BY <3>1, <3>2
  <2> QED BY <2>4, <2>5, <2>6 DEF CountInv
<1> QED BY <1>3, <1>4, <1>5

(* An input becomes complete.  If it is the last one then no item triggers *)
(* the block, which has not been triggered yet.                            *)
LEMMA LastIs ==
  ASSUME IInv, NEW d, NEW x, NEW ins, Storing(d, x, ins),
         x.input \notin Complete(d.req, x.block),
         Complete(d.req, x.block)' = Complete(d.req, x.block) \cup {x.input}
  PROVE  /\ Cardinality(Complete(d.req, x.block)') = Cardinality(Complete(d.req, x.block)) + 1
         /\ BlockSerial(x.block, ins) = NoSerial
         /\ LastInput(d.req, x.block) =>
              ~ForeachBlock(x.block) /\ <<d.req, x.block, NoSerial>> \notin Fired
<1> DEFINE q == d.req
           b == x.block
           I == DOMAIN Inputs[b]
           C == Complete(q, b)
           D == Complete(q, b)'
<1>1. q \in Requests /\ b \in Blocks /\ inputDatas'[q][b] = ins
  <2>1. q \in Requests /\ b \in Blocks
    BY DEF Storing, Data
  <2> QED BY <2>1, StoredIs
<1>2. /\ DOMAIN ins \subseteq I /\ IsInputs(q, b, ins)
      /\ \A i \in DOMAIN ins : Inputs[b][i] = "NORMAL" => OutType[ins[i].out] = "NORMAL"
  BY DEF Storing, IsInputs
<1>3. D \subseteq DOMAIN ins
  BY <1>1 DEF Complete
<1>4. IsFiniteSet(I) /\ IsFiniteSet(D) /\ IsFiniteSet(C)
  <2>1. IsFiniteSet(I)
    BY <1>1, ItemsAssumption
  <2>2. D \subseteq I /\ C \subseteq D
    BY <1>2, <1>3
  <2> HIDE DEF C, D, I
  <2> QED BY <2>1, <2>2, FS_Subset
<1>5. Cardinality(D) = Cardinality(C) + 1
  <2>1. D = C \cup {x.input} /\ x.input \notin C
    OBVIOUS
  <2> HIDE DEF C, D
  <2> QED BY <1>4, <2>1, FS_AddElement
<1>6. BlockSerial(b, ins) = NoSerial
  <2>1. {i \in DOMAIN ins : Inputs[b][i] = "NORMAL" /\ OutType[ins[i].out] = "FOREACH"} = {}
    BY <1>2
  <2> QED BY <2>1 DEF BlockSerial
<1>7. ASSUME LastInput(q, b) PROVE ~ForeachBlock(b) /\ <<q, b, NoSerial>> \notin Fired
  <2>1. inputCnt[q][b] = Cardinality(C) /\ inputCnt[q][b] \in Nat
    BY <1>1 DEF IInv, Inv, StateInv, HistoryInv, CountInv
  <2>2. Cardinality(D) = Cardinality(I)
    BY <1>5, <1>7, <2>1 DEF LastInput
  <2>3. D = I
    <3>1. D \subseteq I
      BY <1>2, <1>3
    <3> HIDE DEF D, I
    <3> QED BY <1>4, <2>2, <3>1, FS_Subset
  <2>4. DOMAIN ins = I
    BY <1>2, <1>3, <2>3
  <2>5. ASSUME NEW o \in Outs, OutType[o] = "FOREACH", NEW y \in Range(Dest[o]), y.block = b
        PROVE  FALSE
    <3>1. y.block # User
      BY <1>1, <2>5, WorkflowAssumption
    <3>2. y.input \in I /\ Inputs[b][y.input] # "LIST"
      BY <2>5, <3>1, DestType
    <3>3. y.input \in DOMAIN ins /\ Inputs[b][y.input] = "NORMAL"
      BY <1>1, <2>4, <3>2, ItemsAssumption
    <3>4. IsInput(q, b, y.input, ins[y.input]) /\ OutType[ins[y.input].out] = "NORMAL"
      BY <1>2, <3>2, <3>3 DEF IsInputs
    <3>5. PICK z \in Range(Dest[ins[y.input].out]) : z.block = b /\ z.input = y.input
      BY <3>4 DEF IsInput
    <3>6. ins[y.input].out \in Outs
      BY <3>4 DEF IsInput, Data
    <3> QED BY <2>5, <3>4, <3>5, <3>6, ItemsAssumption
  <2>6. ~ForeachBlock(b)
    BY <2>5 DEF ForeachBlock
  <2>7. <<q, b, NoSerial>> \notin Fired
    <3> SUFFICES ASSUME <<q, b, NoSerial>> \in Fired PROVE FALSE
      OBVIOUS
    <3> DEFINE f == <<q, b, NoSerial>>
    <3>1. f \in Fired /\ f[1] = q /\ f[2] = b /\ f[3] = NoSerial
      OBVIOUS
    <3> HIDE DEF f
    <3>2. inputCnt[q][b] >= Cardinality(I)
      BY <3>1 DEF CountInv, IInv, HistoryInv
    <3>3. Cardinality(I) \in Nat
      BY <1>4, FS_CardinalityType
    <3> HIDE DEF I
    <3>4. inputCnt[q][b] + 1 = Cardinality(I)
      BY <1>7 DEF LastInput, I
    <3> QED BY <2>1, <3>2, <3>3, <3>4
  <2> QED BY <2>6, <2>7
<1> QED BY <1>5, <1>6, <1>7

(* A greenlet stores what completes an input of its destination.           *)
LEMMA CountedOnce ==
  ASSUME IInv, NEW h \in Hosts, NEW y, Flowing(h, y),
         UNCHANGED <<phase, infoNet, known, dataNet, backlog, queue, deps>>,
         NEW g, g = running[h][1], NEW x, x = Head(g.dests),
         NEW ins, Storing(g.data, x, ins), CountInput(h, Advance(g), x.block, ins),
         x.input \notin Complete(g.data.req, x.block),
         Complete(g.data.req, x.block)' = Complete(g.data.req, x.block) \cup {x.input}
  PROVE  DeliveryInv' /\ HistoryInv'
<1> DEFINE a == Advance(g)
           q == g.data.req
           t == <<Key(g.data), x>>
           id == <<q, x.block, NoSerial>>
<1>1. /\ running[h] # <<>> /\ IsGreenlet(h, g) /\ g.dests # <<>>
      /\ OutType[g.data.out] = y
  BY FlowingIs DEF IInv, Inv
<1>2. /\ IsInjective(a.dests) /\ DueBy(h, a) \subseteq DueBy(h, g) /\ t \notin DueBy(h, a)
      /\ y # "NORMAL" => t \in DueBy(h, g)
  <2> HIDE DEF q, id
  <2> QED BY FlowingDue
<1>3. IsGreenlet(h, a) /\ a.data = g.data
  BY <1>1, AdvanceType
<1>4. /\ Storing(g.data, x, ins) /\ CountInput(h, a, x.block, ins)
      /\ x.input \notin Complete(q, x.block)
      /\ Complete(q, x.block)' = Complete(q, x.block) \cup {x.input}
  OBVIOUS
<1> HIDE DEF a
<1>5. /\ Cardinality(Complete(q, x.block)') = Cardinality(Complete(q, x.block)) + 1
      /\ BlockSerial(x.block, ins) = NoSerial
      /\ LastInput(q, x.block) => ~ForeachBlock(x.block) /\ id \notin Fired
  BY <1>4, LastIs
<1>6. inputCnt' = [inputCnt EXCEPT ![q][x.block] = @ + 1]
  BY <1>3, <1>4 DEF CountInput
<1>7. /\ FireInv' /\ PostInv' /\ Sent' = Sent
      /\ \/ Fired' = Fired
         \/ /\ Fired' = Fired \cup {id} /\ LastInput(q, x.block)
      /\ \/ /\ running' = [running EXCEPT ![h] = Continue(a)] /\ UNCHANGED parked
            /\ UNCHANGED runs \/ \E new : runs' = runs \cup {new} /\ new.uploads = <<>>
         \/ /\ running' = [running EXCEPT ![h] = <<>>] /\ UNCHANGED runs
            /\ \E w : /\ w.data = a.data /\ w.sent = a.sent /\ w.dests = a.dests
                      /\ parked' = [parked EXCEPT ![h] = @ \cup {w}]
  <2>1. FireInv /\ PostInv /\ GreenInv
    BY DEF IInv, Inv, HistoryInv
  <2>2. CASE LastInput(q, x.block)
    <3>1. TriggerNormal(h, a, x.block, ins)
      BY <1>3, <1>4, <2>2 DEF CountInput
    <3>2. <<a.data.req, x.block, BlockSerial(x.block, ins)>> = id
      BY <1>3, <1>5
    <3>3. <<a.data.req, x.block, BlockSerial(x.block, ins)>> \notin Fired
      BY <1>5, <2>2, <3>2
    <3>4. /\ FireInv' /\ PostInv' /\ Sent' = Sent /\ Fired' = Fired \cup {id}
          /\ \/ /\ running' = [running EXCEPT ![h] = Continue(a)] /\ UNCHANGED parked
                /\ \E new : runs' = runs \cup {new} /\ new.uploads = <<>> /\ new.inputs = ins /\ new.block = x.block
             \/ /\ running' = [running EXCEPT ![h] = <<>>] /\ UNCHANGED runs
                /\ \E w : /\ w.data = a.data /\ w.sent = a.sent /\ w.dests = a.dests
                          /\ parked' = [parked EXCEPT ![h] = @ \cup {w}]
                          /\ w.call # <<>> /\ w.call[1].block = x.block /\ w.call[1].inputs = ins
      <4> HIDE DEF id
      <4> QED BY <1>3, <2>1, <3>1, <3>2, <3>3, Fires
    <3> QED BY <2>2, <3>4
  <2>3. CASE ~LastInput(q, x.block)
    <3>1. running' = [running EXCEPT ![h] = Continue(a)] /\ UNCHANGED parked /\ UNCHANGED runs
      BY <1>3, <1>4, <2>3 DEF CountInput
    <3>2. FireInv' /\ Fired' = Fired
      BY <2>1, <3>1, CallsSame, FiredSame, FireSame
    <3>3. PostInv' /\ Sent' = Sent
      BY <2>1, <3>1 DEF PostInv, PostsOnce, Sent, ProducedBy
    <3> QED BY <3>1, <3>2, <3>3
  <2> QED BY <2>2, <2>3
<1>8. /\ OnceInv' /\ ApartInv'
      /\ \A p \in Places' : \A u \in Held(p)' :
           u \notin DueBy(h, g) \ DueBy(h, a) /\ Onward(p, u)
  BY <1>1, <1>2, <1>7, GreenletMoves
<1>9. FiresAtMost(q, x.block)
  BY <1>5, <1>7 DEF FiresAtMost
<1>10. GotInv' /\ InstInv' /\ CountInv'
  <2>1. Fired' = Fired \/ inputCnt[q][x.block] + 1 = Cardinality(DOMAIN Inputs[x.block])
    BY <1>7 DEF LastInput
  <2> QED BY <1>4, <1>5, <1>6, <1>7, <1>9, <2>1, StoredHistory
<1>11. AheadInv'
  <2>1. AheadInv /\ Sent \subseteq Sent' /\ SameKeys
    BY <1>7, KeysSame DEF IInv, DeliveryInv
  <2>2. ASSUME NEW p \in Places', NEW u \in Held(p)'
        PROVE  Onward(p, u) /\ (Got(u)' => Got(u))
    <3>1. u \notin DueBy(h, g) \ DueBy(h, a) /\ Onward(p, u)
      BY <1>8
    <3>2. IsDelivery(u)
      BY <2>1, <3>1 DEF AheadInv, Onward
    <3>3. ASSUME Got(u)' PROVE Got(u)
      <4>1. Got(u) \/ (OutType[g.data.out] = "MERGE" /\ u = t)
        BY <1>4, <1>9, <3>2, <3>3, StoredGot
      <4>2. ~(OutType[g.data.out] = "MERGE" /\ u = t)
        BY <1>1, <1>2, <3>1
      <4> QED BY <4>1, <4>2
    <3> QED BY <3>1, <3>3
  <2> QED BY <2>1, <2>2, AheadKept
<1>12. InfoInv'
  BY InfoSame DEF IInv, HistoryInv
<1> QED BY <1>7, <1>8, <1>10, <1>11, <1>12 DEF DeliveryInv, HistoryInv

(* A count that has been announced is not zero.                            *)
LEMMA CountIs ==
  ASSUME NEW q, NEW b \in Blocks, NEW ins, IsInputs(q, b, ins), Cnt \in DOMAIN ins
  PROVE  ins[Cnt].val \in Nat \ {0}
<1>1. Inputs[b][Cnt] = "NORMAL"
  BY ItemsAssumption DEF IsInputs
<1>2. IsInput(q, b, Cnt, ins[Cnt])
  BY <1>1 DEF IsInputs
<1>3. ins[Cnt] \in Data /\ \E x \in Range(Dest[ins[Cnt].out]) : x.input = Cnt
  BY <1>2 DEF IsInput
<1> DEFINE d == ins[Cnt]
<1> HIDE DEF d
<1>4. d.out \in Outs /\ \E x \in Range(Dest[d.out]) : x.input = Cnt
  BY <1>3 DEF Data, d
<1>5. Dest[d.out] \in Seq(Range(Dest[d.out]))
  BY <1>4, WorkflowAssumption
<1>6. DOMAIN Dest[d.out] = 1..Len(Dest[d.out])
  BY <1>5
<1>7. d.out \in CntOuts
  BY <1>4, <1>6 DEF CntOuts, Range
<1> QED BY <1>3, <1>7 DEF Data, d

LEMMA FlowNormalOnce ==
  ASSUME IInv, NEW h \in Hosts, FlowNormal(h) PROVE DeliveryInv' /\ HistoryInv'
<1>1. PICK g : g = running[h][1]
  OBVIOUS
<1>2. PICK x : x = Head(g.dests)
  OBVIOUS
<1> DEFINE q == g.data.req
           b == x.block
           stored == inputDatas[q][b]
           a == Advance(g)
<1>3. PICK ins : ins = With(stored, x.input, g.data)
  OBVIOUS
<1>4. /\ Flowing(h, "NORMAL")
      /\ UNCHANGED <<phase, infoNet, known, dataNet, backlog, queue, deps>>
      /\ \/ /\ x.input \in DOMAIN stored
            /\ running' = [running EXCEPT ![h] = Continue(a)] /\ UNCHANGED <<parked, runs>>
            /\ UNCHANGED stateVars
         \/ /\ x.input \notin DOMAIN stored
            /\ inputDatas' = [inputDatas EXCEPT ![q][b] = ins]
            /\ CountInput(h, a, b, ins)
  BY <1>1, <1>2, <1>3 DEF FlowNormal, Repeated, gatewayVars, netVars, inboxVars, keyVars
<1>5. /\ running[h] # <<>> /\ IsGreenlet(h, g) /\ g.dests # <<>>
      /\ q \in Requests /\ b \in Blocks /\ OutType[g.data.out] = "NORMAL"
      /\ x.input \in DOMAIN Inputs[b] /\ Inputs[b][x.input] # "LIST"
      /\ IsInput(q, b, x.input, g.data)
  <2>1. GreenInv /\ Flowing(h, "NORMAL")
    BY <1>4 DEF IInv, Inv
  <2>2. /\ running[h] # <<>> /\ IsGreenlet(h, g) /\ g.dests # <<>>
        /\ q \in Requests /\ b \in Blocks /\ OutType[g.data.out] = "NORMAL"
        /\ x.input \in DOMAIN Inputs[b] /\ (("NORMAL" = "MERGE") <=> (Inputs[b][x.input] = "LIST"))
        /\ IsInput(q, b, x.input, g.data)
    BY <1>1, <1>2, <2>1, FlowingIs
  <2> QED BY <2>2
<1>6. g.data \in Data /\ x \in Range(Dest[g.data.out]) /\ Inputs[b][x.input] = "NORMAL"
  BY <1>2, <1>5, HeadType, ItemsAssumption
<1>7. IsInjective(a.dests) /\ DueBy(h, a) \subseteq DueBy(h, g)
  BY <1>1, <1>2, <1>4, FlowingDue
<1>8. CASE /\ x.input \in DOMAIN stored
           /\ running' = [running EXCEPT ![h] = Continue(a)] /\ UNCHANGED <<parked, runs>>
           /\ UNCHANGED stateVars
  <2>1. HistoryInv' /\ Fired' = Fired /\ Sent' = Sent
    BY <1>4, <1>8, HistorySame, CallsSame DEF IInv
  <2>2. UNCHANGED runs \/ \E new : runs' = runs \cup {new} /\ new.uploads = <<>>
    BY <1>8
  <2> HIDE DEF a
  <2>3. /\ OnceInv' /\ ApartInv'
        /\ \A p \in Places' : \A u \in Held(p)' : Onward(p, u)
    BY <1>1, <1>4, <1>5, <1>7, <1>8, <2>2, GreenletMoves
  <2>4. \A u : Got(u)' = Got(u)
    BY <1>8, <2>1, GotSame DEF stateVars
  <2>5. AheadInv'
    BY <1>4, <2>1, <2>3, <2>4, KeysSame, AheadKept DEF IInv, DeliveryInv
  <2> QED BY <2>1, <2>3, <2>5 DEF DeliveryInv
<1>9. CASE /\ x.input \notin DOMAIN stored
           /\ inputDatas' = [inputDatas EXCEPT ![q][b] = ins]
           /\ CountInput(h, a, b, ins)
  <2>1. IsInputs(q, b, stored)
    BY <1>5 DEF IInv, Inv, StateInv
  <2>2. /\ DOMAIN ins = DOMAIN stored \cup {x.input} /\ ins[x.input] = g.data
        /\ \A i \in DOMAIN stored : ins[i] = stored[i]
    <3> HIDE DEF stored, b
    <3> QED BY <1>3, <1>9 DEF With
  <2>3. IsInputs(q, b, ins)
    <3> HIDE DEF stored, b, q
    <3> QED BY <1>3, <1>5, <2>1, WithInput
  <2>4. /\ \A i \in DOMAIN stored : Inputs[b][i] = "NORMAL" => OutType[stored[i].out] = "NORMAL"
        /\ Cnt \notin DOMAIN stored =>
             \A i \in DOMAIN stored : Inputs[b][i] = "LIST" => DOMAIN stored[i] = {}
    BY <1>5 DEF IInv, HistoryInv, InstInv, CountInv
  <2>5. Storing(g.data, x, ins)
    <3>1. OutType[g.data.out] # "MERGE"
      BY <1>5
    <3>2. \A i \in DOMAIN ins : Inputs[b][i] = "NORMAL" => OutType[ins[i].out] = "NORMAL"
      BY <1>5, <2>2, <2>4
    <3>3. \A i \in DOMAIN ins : Inputs[b][i] = "LIST" => i \in DOMAIN stored /\ ins[i] = stored[i]
      BY <1>5, <2>2
    <3>4. Cnt \notin DOMAIN ins => Cnt \notin DOMAIN stored
      BY <2>2
    <3> HIDE DEF q
    <3>5. inputDatas' = [inputDatas EXCEPT ![q][b] = ins]
      BY <1>9
    <3> QED BY <1>5, <1>6, <2>3, <2>4, <3>1, <3>2, <3>3, <3>4, <3>5 DEF Storing, q
  <2>6. inputDatas'[q][b] = ins
    BY <1>5, <2>5, StoredIs
  <2>7. \A i \in DOMAIN stored : Inputs[b][i] = "LIST" =>
          ((Cnt \in DOMAIN ins /\ Cardinality(DOMAIN ins[i]) >= ins[Cnt].val)
             <=> (Cnt \in DOMAIN stored /\ Cardinality(DOMAIN stored[i]) >= stored[Cnt].val))
    <3> SUFFICES ASSUME NEW i \in DOMAIN stored, Inputs[b][i] = "LIST"
        PROVE ((Cnt \in DOMAIN ins /\ Cardinality(DOMAIN ins[i]) >= ins[Cnt].val)
                 <=> (Cnt \in DOMAIN stored /\ Cardinality(DOMAIN stored[i]) >= stored[Cnt].val))
      OBVIOUS
    <3>1. CASE Cnt \in DOMAIN stored
      BY <2>2, <3>1
    <3>2. CASE Cnt \notin DOMAIN stored /\ Cnt \in DOMAIN ins
      <4>1. ins[Cnt].val \in Nat \ {0}
        BY <1>5, <2>3, <3>2, CountIs
      <4>2. Cardinality(DOMAIN ins[i]) = 0
        BY <2>2, <2>4, <3>2, FS_EmptySet
      <4>3. ~(Cardinality(DOMAIN ins[i]) >= ins[Cnt].val)
        BY <4>1, <4>2
      <4> QED BY <3>2, <4>3
    <3>3. CASE Cnt \notin DOMAIN ins
      BY <2>2, <3>3
    <3> QED BY <3>1, <3>2, <3>3
  <2>8. /\ x.input \notin Complete(q, b)
        /\ Complete(q, b)' = Complete(q, b) \cup {x.input}
    <3>1. Complete(q, b) = {i \in DOMAIN stored : Inputs[b][i] = "LIST" =>
             Cnt \in DOMAIN stored /\ Cardinality(DOMAIN stored[i]) >= stored[Cnt].val}
      BY DEF Complete
    <3>2. Complete(q, b)' = {i \in DOMAIN ins : Inputs[b][i] = "LIST" =>
             Cnt \in DOMAIN ins /\ Cardinality(DOMAIN ins[i]) >= ins[Cnt].val}
      BY <2>6 DEF Complete
    <3> HIDE DEF stored, b, q
    <3> QED BY <1>5, <1>9, <2>2, <2>7, <3>1, <3>2
  <2> QED BY <1>1, <1>2, <1>4, <1>9, <2>5, <2>8, CountedOnce
<1> QED BY <1>4, <1>8, <1>9

LEMMA FlowMergeOnce ==
  ASSUME IInv, NEW h \in Hosts, FlowMerge(h) PROVE DeliveryInv' /\ HistoryInv'
<1>1. PICK g : g = running[h][1]
  OBVIOUS
<1>2. PICK x : x = Head(g.dests)
  OBVIOUS
<1> DEFINE q == g.data.req
           b == x.block
           s == g.data.serial
           stored == inputDatas[q][b]
           counted == Cnt \in DOMAIN stored
           old == ListInput(q, x)
           a == Advance(g)
           t == <<Key(g.data), x>>
<1>3. PICK list : list = IF counted THEN With(old, s, g.data) ELSE old
  OBVIOUS
<1>4. PICK ins : ins = With(stored, x.input, list)
  OBVIOUS
<1> DEFINE full == counted /\ Cardinality(DOMAIN list) = stored[Cnt].val
<1>5. /\ Flowing(h, "MERGE")
      /\ UNCHANGED <<phase, infoNet, known, dataNet, backlog, queue, deps>>
      /\ inputDatas' = [inputDatas EXCEPT ![q][b] = ins]
      /\ IF full
         THEN CountInput(h, a, b, ins)
         ELSE /\ running' = [running EXCEPT ![h] = IF counted THEN Continue(a) ELSE <<>>]
              /\ parked' = IF counted THEN parked ELSE [parked EXCEPT ![h] = @ \cup {g}]
              /\ UNCHANGED <<inputCnt, runs>>
  <2>1. /\ Flowing(h, "MERGE")
        /\ UNCHANGED <<phase, infoNet, known, dataNet, backlog, queue, deps>>
    BY DEF FlowMerge, gatewayVars, netVars, inboxVars, keyVars
  <2> DEFINE g2 == running[h][1]
             x2 == Head(g2.dests)
             stored2 == inputDatas[g2.data.req][x2.block]
             list2 == IF Cnt \in DOMAIN stored2 THEN With(ListInput(g2.data.req, x2), g2.data.serial, g2.data)
                      ELSE ListInput(g2.data.req, x2)
             ins2 == With(stored2, x2.input, list2)
  <2>2. /\ inputDatas' = [inputDatas EXCEPT ![g2.data.req][x2.block] = ins2]
        /\ IF Cnt \in DOMAIN stored2 /\ Cardinality(DOMAIN list2) = stored2[Cnt].val
           THEN CountInput(h, Advance(g2), x2.block, ins2)
           ELSE /\ running' = [running EXCEPT ![h] = IF Cnt \in DOMAIN stored2 THEN Continue(Advance(g2)) ELSE <<>>]
                /\ parked' = IF Cnt \in DOMAIN stored2 THEN parked ELSE [parked EXCEPT ![h] = @ \cup {g2}]
                /\ UNCHANGED <<inputCnt, runs>>
    BY Zenon DEF FlowMerge
  <2>3. g2 = g
    BY <1>1
  <2> HIDE DEF g2
  <2>4. x2 = x
    BY <1>2, <2>3
  <2> HIDE DEF x2
  <2>5. stored2 = stored /\ list2 = list
    BY <1>3, <2>3, <2>4
  <2> HIDE DEF stored2, list2
  <2>6. ins2 = ins
    BY <1>4, <2>4, <2>5
  <2> HIDE DEF ins2, stored
  <2> QED BY <2>1, <2>2, <2>3, <2>4, <2>5, <2>6
<1>6. /\ running[h] # <<>> /\ IsGreenlet(h, g) /\ g.dests # <<>> /\ g.call = <<>>
      /\ q \in Requests /\ b \in Blocks /\ OutType[g.data.out] = "MERGE"
      /\ x.input \in DOMAIN Inputs[b] /\ Inputs[b][x.input] = "LIST"
      /\ IsInput(q, b, x.input, g.data)
  <2>1. GreenInv /\ Flowing(h, "MERGE")
    BY <1>5 DEF IInv, Inv
  <2>2. /\ running[h] # <<>> /\ IsGreenlet(h, g) /\ g.dests # <<>> /\ g.call = <<>>
        /\ q \in Requests /\ b \in Blocks /\ OutType[g.data.out] = "MERGE"
        /\ x.input \in DOMAIN Inputs[b] /\ (("MERGE" = "MERGE") <=> (Inputs[b][x.input] = "LIST"))
        /\ IsInput(q, b, x.input, g.data)
    BY <1>1, <1>2, <2>1, FlowingIs
  <2> QED BY <2>2
<1>7. g.data \in Data /\ x \in Range(Dest[g.data.out]) /\ s \in Nat /\ Key(g.data) = <<q, g.data.out, s>>
  BY <1>2, <1>6, HeadType DEF Data, Key
<1>8. /\ IsInjective(g.dests) /\ IsInjective(a.dests) /\ DueBy(h, a) \subseteq DueBy(h, g)
      /\ t \notin DueBy(h, a) /\ t \in DueBy(h, g) /\ t[1] \in Sent /\ ~Got(t)
  <2>1. "MERGE" # "NORMAL"
    OBVIOUS
  <2> HIDE DEF q, s, stored, counted, old, full
  <2> QED BY <1>1, <1>2, <1>5, <2>1, FlowingDue
<1>9. /\ IsInputs(q, b, stored) /\ IsList(q, b, x.input, old)
  BY <1>6, ListType DEF IInv, Inv, StateInv
<1>10. s \notin DOMAIN old /\ (x.input \in DOMAIN stored => old = stored[x.input])
       /\ (x.input \notin DOMAIN stored => DOMAIN old = {})
  <2>1. x.input \in DOMAIN stored => s \notin DOMAIN stored[x.input]
    BY <1>6, <1>7, <1>8 DEF Got
  <2>2. x.input \in DOMAIN stored => old = stored[x.input]
    BY DEF ListInput
  <2>3. x.input \notin DOMAIN stored => DOMAIN old = {}
    BY DEF ListInput, EmptyFn
  <2> HIDE DEF stored, s, old
  <2> QED BY <2>1, <2>2, <2>3
<1>11. /\ \A i \in DOMAIN stored : Inputs[b][i] = "NORMAL" => OutType[stored[i].out] = "NORMAL"
       /\ ~counted => \A i \in DOMAIN stored : Inputs[b][i] = "LIST" => DOMAIN stored[i] = {}
  BY <1>6 DEF IInv, HistoryInv, InstInv, CountInv
<1>12. /\ counted => DOMAIN list = DOMAIN old \cup {s}
       /\ ~counted => list = old
  BY <1>3 DEF With
<1>13. IsList(q, b, x.input, list)
  <2> HIDE DEF q, b, old, counted, stored
  <2> QED BY <1>3, <1>6, <1>9, WithItem DEF s
<1>14. IsInputs(q, b, ins)
  <2> HIDE DEF q, b, old, counted, stored
  <2> QED BY <1>4, <1>6, <1>9, <1>13, WithInput
<1>15. /\ DOMAIN ins = DOMAIN stored \cup {x.input} /\ ins[x.input] = list
       /\ \A i \in DOMAIN stored \ {x.input} : ins[i] = stored[i]
  <2> HIDE DEF stored, b
  <2> QED BY <1>4 DEF With
<1>16. Cnt # x.input
  BY <1>6, ItemsAssumption
<1>17. /\ counted <=> Cnt \in DOMAIN ins
       /\ counted => ins[Cnt] = stored[Cnt] /\ stored[Cnt].val \in Nat \ {0}
  <2>1. counted => stored[Cnt].val \in Nat \ {0}
    BY <1>6, <1>9, CountIs
  <2> HIDE DEF stored
  <2> QED BY <1>15, <1>16, <2>1
<1>18. Storing(g.data, x, ins)
  <2>1. Key(g.data) \in Sent
    BY <1>8
  <2>2. \A i \in DOMAIN ins : Inputs[b][i] = "NORMAL" => OutType[ins[i].out] = "NORMAL"
    BY <1>6, <1>11, <1>15
  <2>3. ASSUME NEW i \in DOMAIN ins, Inputs[b][i] = "LIST"
        PROVE  /\ Cnt \notin DOMAIN ins => DOMAIN ins[i] = {}
               /\ \A n \in DOMAIN ins[i] : \/ i \in DOMAIN stored /\ n \in DOMAIN stored[i]
                                           \/ i = x.input /\ n = s
    <3> HIDE DEF stored, old, s
    <3>1. CASE i = x.input
      BY <1>6, <1>10, <1>11, <1>12, <1>15, <1>17, <3>1
    <3>2. CASE i # x.input
      BY <1>11, <1>15, <1>17, <2>3, <3>2
    <3> QED BY <3>1, <3>2
  <2> QED BY <1>5, <1>6, <1>7, <1>14, <2>1, <2>2, <2>3 DEF Storing
<1>19. inputDatas'[q][b] = ins
  BY <1>6, <1>18, StoredIs
<1>20. counted => /\ Cardinality(DOMAIN list) = Cardinality(DOMAIN old) + 1
                  /\ Cardinality(DOMAIN old) \in Nat
                  /\ x.input \in Complete(q, b) <=> Cardinality(DOMAIN old) >= stored[Cnt].val
  <2> SUFFICES ASSUME counted
      PROVE  /\ Cardinality(DOMAIN list) = Cardinality(DOMAIN old) + 1
             /\ Cardinality(DOMAIN old) \in Nat
             /\ x.input \in Complete(q, b) <=> Cardinality(DOMAIN old) >= stored[Cnt].val
    OBVIOUS
  <2>1. IsFiniteSet(DOMAIN old)
    BY <1>9 DEF IsList
  <2>2. DOMAIN list = DOMAIN old \cup {s} /\ s \notin DOMAIN old
    BY <1>10, <1>12
  <2>3. Cardinality(DOMAIN list) = Cardinality(DOMAIN old) + 1 /\ Cardinality(DOMAIN old) \in Nat
    <3> HIDE DEF old, s
    <3> QED BY <2>1, <2>2, FS_AddElement, FS_CardinalityType
  <2>4. x.input \in Complete(q, b) <=>
          x.input \in DOMAIN stored /\ Cardinality(DOMAIN stored[x.input]) >= stored[Cnt].val
    BY <1>6 DEF Complete
  <2>5. x.input \notin DOMAIN stored => Cardinality(DOMAIN old) = 0
    BY <1>10, FS_EmptySet
  <2> HIDE DEF old, stored
  <2>6. stored[Cnt].val \in Nat \ {0}
    BY <1>17
  <2>7. CASE x.input \in DOMAIN stored
    BY <1>10, <2>3, <2>4, <2>7
  <2>8. CASE x.input \notin DOMAIN stored
    BY <2>3, <2>4, <2>5, <2>6, <2>8
  <2> QED BY <2>3, <2>7, <2>8
<1>21. /\ \A i : i # x.input => (i \in Complete(q, b)' <=> i \in Complete(q, b))
       /\ x.input \in Complete(q, b)' <=> counted /\ Cardinality(DOMAIN list) >= stored[Cnt].val
       /\ ~counted => x.input \notin Complete(q, b)
  <2>1. Complete(q, b) = {i \in DOMAIN stored : Inputs[b][i] = "LIST" =>
           Cnt \in DOMAIN stored /\ Cardinality(DOMAIN stored[i]) >= stored[Cnt].val}
    BY DEF Complete
  <2>2. Complete(q, b)' = {i \in DOMAIN ins : Inputs[b][i] = "LIST" =>
           Cnt \in DOMAIN ins /\ Cardinality(DOMAIN ins[i]) >= ins[Cnt].val}
    BY <1>19 DEF Complete
  <2> HIDE DEF stored, b, q
  <2> QED BY <1>6, <1>15, <1>17, <2>1, <2>2
<1>22. CASE full
  <2>1. /\ x.input \notin Complete(q, b)
        /\ Complete(q, b)' = Complete(q, b) \cup {x.input}
    <3>1. Cardinality(DOMAIN list) = stored[Cnt].val /\ counted
      BY <1>22
    <3> HIDE DEF full, stored, old, b, q
    <3>2. x.input \notin Complete(q, b) /\ x.input \in Complete(q, b)'
      BY <1>17, <1>20, <1>21, <3>1
    <3> QED BY <1>21, <3>2
  <2> QED BY <1>1, <1>2, <1>5, <1>18, <1>22, <2>1, CountedOnce
<1>23. CASE ~full
  <2>1. Complete(q, b)' = Complete(q, b)
    <3>1. counted => Cardinality(DOMAIN list) # stored[Cnt].val
      BY <1>23
    <3>2. x.input \in Complete(q, b)' <=> x.input \in Complete(q, b)
      <4> HIDE DEF full, stored, old, b, q
      <4>1. CASE counted
        BY <1>17, <1>20, <1>21, <3>1, <4>1
      <4>2. CASE ~counted
        BY <1>21, <4>2
      <4> QED BY <4>1, <4>2
    <3> QED BY <1>21, <3>2
  <2>2. runs' = runs /\ inputCnt' = inputCnt /\ \A k \in Hosts : Calls(k)' = Calls(k)
    <3>1. parked = [k \in Hosts |-> parked[k]]
      BY DEF IInv, Inv, GreenInv
    <3>2. runs' = runs /\ inputCnt' = inputCnt
          /\ (parked' = parked \/ parked' = [parked EXCEPT ![h] = @ \cup {g}])
      BY <1>5, <1>23
    <3> QED BY <1>6, <3>1, <3>2 DEF Calls
  <2>3. Fired' = Fired /\ Sent' = Sent /\ FireInv' /\ PostInv'
    <3>1. Fired' = Fired /\ FireInv'
      BY <2>2, FiredSame, FireSame DEF IInv, HistoryInv
    <3>2. Sent' = Sent /\ PostInv'
      BY <2>2 DEF Sent, ProducedBy, PostInv, PostsOnce, IInv, HistoryInv
    <3> QED BY <3>1, <3>2
  <2>4. FiresAtMost(q, b)
    BY <2>3 DEF FiresAtMost
  <2>5. GotInv' /\ InstInv' /\ CountInv'
    BY <1>18, <2>1, <2>2, <2>3, <2>4, StoredHistory
  <2>6. InfoInv'
    BY <1>5, InfoSame DEF IInv, HistoryInv
  <2>7. \A u : IsDelivery(u) /\ Got(u)' => Got(u) \/ (counted /\ u = t)
    <3> SUFFICES ASSUME NEW u, IsDelivery(u), Got(u)' PROVE Got(u) \/ (counted /\ u = t)
      OBVIOUS
    <3>1. Got(u) \/ (u = t /\ s \in DOMAIN ins[x.input])
      <4> HIDE DEF stored, b, old
      <4> QED BY <1>18, <2>4, StoredGot DEF b
    <3>2. ~counted => s \notin DOMAIN ins[x.input]
      BY <1>10, <1>12, <1>15
    <3> QED BY <3>1, <3>2
  <2>8. AheadInv /\ Sent \subseteq Sent' /\ SameKeys
    BY <1>5, <2>3, KeysSame DEF IInv, DeliveryInv
  <2>9. CASE counted
    <3>1. running' = [running EXCEPT ![h] = Continue(a)] /\ UNCHANGED parked
      BY <1>5, <1>23, <2>9
    <3> HIDE DEF a, t
    <3>2. /\ OnceInv' /\ ApartInv'
          /\ \A p \in Places' : \A u \in Held(p)' :
               u \notin DueBy(h, running[h][1]) \ DueBy(h, a) /\ Onward(p, u)
      BY <1>1, <1>5, <1>6, <1>8, <2>2, <3>1, GreenletMoves
    <3>3. \A p \in Places' : \A u \in Held(p)' : Onward(p, u) /\ (Got(u)' => Got(u))
      BY <1>1, <1>8, <2>7, <2>8, <3>2 DEF AheadInv, Onward
    <3>4. AheadInv'
      BY <2>8, <3>3, AheadKept
    <3> QED BY <2>3, <2>5, <2>6, <3>2, <3>4 DEF DeliveryInv, HistoryInv
  <2>10. CASE ~counted
    <3>1. /\ running' = [running EXCEPT ![h] = <<>>] /\ UNCHANGED runs
          /\ \E w : /\ w.data = g.data /\ w.sent = g.sent /\ w.dests = g.dests
                    /\ parked' = [parked EXCEPT ![h] = @ \cup {w}]
      BY <1>5, <1>23, <2>10
    <3> HIDE DEF a, t
    <3>2. DueBy(h, g) \subseteq DueBy(h, running[h][1])
      BY <1>1
    <3>3. /\ OnceInv' /\ ApartInv'
          /\ \A p \in Places' : \A u \in Held(p)' : Onward(p, u)
      BY <1>5, <1>6, <1>8, <3>1, <3>2, GreenletMoves
    <3>4. \A p \in Places' : \A u \in Held(p)' : Onward(p, u) /\ (Got(u)' => Got(u))
      BY <2>7, <2>8, <2>10, <3>3 DEF AheadInv, Onward
    <3>5. AheadInv'
      BY <2>8, <3>4, AheadKept
    <3> QED BY <2>3, <2>5, <2>6, <3>3, <3>5 DEF DeliveryInv, HistoryInv
  <2> QED BY <2>9, <2>10
<1> QED BY <1>22, <1>23

LEMMA ResumeTriggerOnce ==
  ASSUME IInv, NEW h \in Hosts, NEW g, ResumeTrigger(h, g) PROVE DeliveryInv' /\ HistoryInv'
<1> DEFINE w == [g EXCEPT !.call = <<>>]
           a == <<"running", h>>
           c == <<"parked", <<h, g>>>>
           D == DueBy(h, g)
           id == CallId(g)
<1>1. /\ running[h] = <<>> /\ g \in parked[h] /\ g.call # <<>>
      /\ Allocate(g.data.req, g.call[1].block, g.call[1].inputs)
      /\ running' = [running EXCEPT ![h] = Continue(w)] /\ parked' = [parked EXCEPT ![h] = parked[h] \ {g}]
      /\ UNCHANGED <<phase, infoNet, known, dataNet, backlog, queue>> /\ UNCHANGED stateVars
  BY DEF ResumeTrigger, Free, gatewayVars, netVars, inboxVars
<1>21. SameKeys
  BY KeysSame DEF ResumeTrigger, keyVars
<1>2. running = [x \in Hosts |-> running[x]] /\ parked = [x \in Hosts |-> parked[x]] /\ IsGreenlet(h, g)
  BY <1>1 DEF IInv, Inv, GreenInv
<1>3. /\ \A x \in Hosts : x # h => running'[x] = running[x] /\ parked'[x] = parked[x]
      /\ running'[h] = Continue(w) /\ parked'[h] = parked[h] \ {g}
  BY <1>1, <1>2
<1>4. w.data = g.data /\ w.sent = g.sent /\ w.dests = g.dests
  BY <1>2 DEF IsGreenlet
<1> HIDE DEF w
<1>5. DueBy(h, w) = D
  BY <1>4 DEF DueBy
<1>6. running'[h] # <<>> => running'[h][1] = w
  BY <1>3, ContinueIs
<1>7. FireInv /\ PostInv
  BY DEF IInv, HistoryInv
<1>8. g \in Calls(h) /\ \A r \in runs : RunId(r) # id
  BY <1>1, <1>7 DEF Calls, FireInv
<1>9. PICK new : /\ runs' = runs \cup {new} /\ RunId(new) = id
                 /\ new.nth = 1 /\ new.uploads = <<>> /\ new.posted = <<>> /\ new.posts = <<>>
                 /\ new.state = "queued"
  <2>1. \A r \in runs : RunId(r) # <<g.data.req, g.call[1].block,
                                      BlockSerial(g.call[1].block, g.call[1].inputs)>>
    BY <1>8 DEF CallId
  <2> QED BY <1>1, <2>1, AllocateIs DEF CallId
<1>10. /\ Calls(h)' = Calls(h) \ {g}
       /\ \A x \in Hosts : x # h => Calls(x)' = Calls(x)
  BY <1>3 DEF Calls
<1> HIDE DEF id
<1>11. FireInv'
  <2>1. \A r, s \in runs' : RunId(r) = RunId(s) => r = s
    BY <1>7, <1>8, <1>9 DEF FireInv
  <2>2. \A r \in runs' : r.nth = 1
    BY <1>7, <1>9 DEF FireInv
  <2>3. ASSUME NEW k \in Hosts, NEW e \in Calls(k)', NEW r \in runs' PROVE RunId(r) # CallId(e)
    <3>1. e \in Calls(k) /\ ~(k = h /\ e = g)
      BY <1>10
    <3>2. CallId(e) # id
      BY <1>7, <1>8, <3>1 DEF FireInv, id
    <3> QED BY <1>7, <1>9, <3>1, <3>2 DEF FireInv
  <2>4. \A j, k \in Hosts : \A f \in Calls(j)', e \in Calls(k)' : CallId(f) = CallId(e) => j = k /\ f = e
    BY <1>7, <1>10 DEF FireInv
  <2> QED BY <2>1, <2>2, <2>3, <2>4 DEF FireInv
<1>12. Fired' = Fired
  <2>1. {RunId(r) : r \in runs'} = {RunId(r) : r \in runs} \cup {id}
    BY <1>9
  <2>2. (UNION {{CallId(e) : e \in Calls(k)'} : k \in Hosts}) \cup {id}
          = UNION {{CallId(e) : e \in Calls(k)} : k \in Hosts}
    BY <1>8, <1>10 DEF id
  <2>3. Fired' = {RunId(r) : r \in runs'} \cup UNION {{CallId(e) : e \in Calls(k)'} : k \in Hosts}
    BY DEF Fired, CallId
  <2> QED BY <2>1, <2>2, <2>3 DEF Fired
<1>13. PostsOnce(new) /\ ProducedBy(new) = {}
  BY <1>9, NewRunPosts
<1>14. PostInv'
  BY <1>7, <1>9, <1>13 DEF PostInv, PostsOnce
<1>15. Sent' = Sent
  BY <1>9, <1>13 DEF Sent, ProducedBy
<1>16. GotInv' /\ InstInv' /\ CountInv' /\ InfoInv'
  BY <1>1, <1>12, <1>15, HistoryGoesOn, InfoSame DEF IInv, HistoryInv
<1>17. OnceInv'
  <2>1. EachOnce(Home[new.block], new.uploads)
    BY <1>9 DEF EachOnce
  <2>2. IsInjective(g.dests)
    BY <1>1 DEF OnceInv, IInv, DeliveryInv
  <2> QED BY <1>1, <1>3, <1>4, <1>6, <1>9, <2>1, <2>2 DEF OnceInv, IInv, DeliveryInv
<1>18. /\ a \in Places /\ c \in Places /\ a # c /\ c \notin Places'
       /\ Held(a) = {} /\ Held(c) = D /\ Held(a)' \subseteq D
  <2>1. g \notin parked'[h]
    BY <1>3
  <2>2. /\ a \in Places /\ c \in Places /\ a # c /\ c \notin Places'
    BY <1>1, <2>1, PlacesAre DEF PlaceFacts
  <2>3. Held(a) = {} /\ Held(c) = D
    BY <1>1, HeldIs DEF HeldFacts
  <2>4. Held(a)' = IF running'[h] = <<>> THEN {} ELSE DueBy(h, running'[h][1])
    BY HeldIs DEF HeldFacts
  <2> QED BY <1>5, <1>6, <2>2, <2>3, <2>4
<1>22. \A t : AtHome(c, t) => AtHome(a, t)
  BY DEF AtHome
<1> HIDE DEF a, c, D
<1>19. Moving(a, c, D, D)
  <2>1. NoMore({a, c})
    BY <1>1, <1>3, <1>9 DEF NoMore, a, c
  <2> QED BY <1>18, <2>1 DEF Moving
<1>20. ApartInv' /\ AheadInv'
  <2>1. ApartInv /\ AheadInv /\ UNCHANGED inputDatas /\ Sent \subseteq Sent'
    BY <1>1, <1>15 DEF IInv, DeliveryInv, stateVars
  <2> QED BY <1>12, <1>18, <1>19, <1>21, <1>22, <2>1, Travels
<1> QED BY <1>11, <1>14, <1>16, <1>17, <1>20 DEF DeliveryInv, HistoryInv

-----------------------------------------------------------------------------
(* Steps of runs                                                           *)

LEMMA IdIs ==
  ASSUME NEW r, NEW s, RunId(r) = RunId(s) PROVE r.req = s.req /\ r.block = s.block /\ r.serial = s.serial
BY DEF RunId

(* A run goes on: what it has posted stays posted.                         *)
LEMMA RunHistory ==
  ASSUME IInv, NEW r \in runs, NEW r2, Become(r, r2), RunId(r2) = RunId(r), r2.nth = r.nth,
         PostsOnce(r2), ProducedBy(r) \subseteq ProducedBy(r2),
         UNCHANGED <<phase, infoNet, known, parked>>, UNCHANGED stateVars
  PROVE  HistoryInv' /\ Fired' = Fired /\ Sent' = Sent \cup ProducedBy(r2)
<1>1. FireInv' /\ Fired' = Fired
  BY RunStaysFired DEF IInv, HistoryInv
<1>2. runs' = (runs \ {r}) \cup {r2}
  BY DEF Become
<1>3. Sent' = Sent \cup ProducedBy(r2)
  BY <1>2 DEF Sent, ProducedBy
<1>4. PostInv'
  <2>1. \A s \in runs' : PostsOnce(s)
    BY <1>2 DEF IInv, HistoryInv, PostInv
  <2> QED BY <2>1 DEF PostInv, PostsOnce
<1>5. GotInv' /\ InstInv' /\ CountInv' /\ InfoInv'
  BY <1>1, <1>3, HistoryGoesOn, InfoSame DEF IInv, HistoryInv
<1> QED BY <1>1, <1>3, <1>4, <1>5 DEF HistoryInv

LEMMA RunStays ==
  ASSUME IInv, NEW r \in runs, NEW r2, Become(r, r2), RunId(r2) = RunId(r), r2.nth = r.nth,
         PostsOnce(r2), ProducedBy(r) \subseteq ProducedBy(r2),
         EachOnce(Home[r2.block], r2.uploads), RunDue(r2) \subseteq RunDue(r),
         UNCHANGED <<phase, infoNet, known, dataNet, queue, running, parked, deps>>, UNCHANGED stateVars,
         UNCHANGED backlog \/ \E d : Send(Home[r.block], d) /\ Due(Home[r.block], d) = {}
  PROVE  DeliveryInv' /\ HistoryInv'
<1>1. HistoryInv' /\ Fired' = Fired /\ Sent \subseteq Sent'
  BY RunHistory
<1>2. runs' = (runs \ {r}) \cup {r2}
  BY DEF Become
<1>3. \A x \in Hosts : EachOnce(x, backlog'[x]) /\ DueOf(x, backlog'[x]) \subseteq DueOf(x, backlog[x])
  <2>1. CASE UNCHANGED backlog
    BY <2>1, Inboxes
  <2>2. CASE ~UNCHANGED backlog
    <3> DEFINE h == Home[r.block]
    <3>1. PICK d : Send(h, d) /\ Due(h, d) = {}
      BY <2>2
    <3>2. h \in Hosts
      BY RunType DEF IInv
    <3>3. backlog = [x \in Hosts |-> backlog[x]]
      BY DEF IInv, Inv, InboxInv
    <3> HIDE DEF h
    <3>4. /\ \A x \in Hosts : x # h => backlog'[x] = backlog[x]
          /\ backlog'[h] = Append(backlog[h], d)
      BY <3>1, <3>2, <3>3 DEF Send
    <3> DEFINE s == backlog[h]
    <3>5. s \in Seq(Range(s)) /\ EachOnce(h, s) /\ backlog'[h] = Append(s, d)
      BY <3>2, <3>4, Inboxes
    <3> HIDE DEF s
    <3>6. DueOf(h, Append(s, d)) = DueOf(h, s) /\ EachOnce(h, Append(s, d))
      <4>1. Due(h, d) \cap DueOf(h, s) = {}
        BY <3>1
      <4>2. DueOf(h, Append(s, d)) = DueOf(h, s) \cup Due(h, d) /\ EachOnce(h, Append(s, d))
        BY <3>5, <4>1, DueAppend
      <4> QED BY <3>1, <4>2
    <3> QED BY <3>4, <3>5, <3>6, Inboxes DEF s
  <2> QED BY <2>1, <2>2
<1>4. OnceInv'
  BY <1>2, <1>3 DEF OnceInv, IInv, DeliveryInv
<1>5. NoMore({})
  BY <1>2, <1>3 DEF NoMore
<1>6. ApartInv' /\ AheadInv'
  BY <1>1, <1>5, KeysSame, Stays DEF IInv, DeliveryInv, stateVars
<1> QED BY <1>1, <1>4, <1>6 DEF DeliveryInv

LEMMA StartRunOnce ==
  ASSUME IInv, NEW r \in runs, StartRun(r) PROVE DeliveryInv' /\ HistoryInv'
<1>1. IsRun(r) /\ PostsOnce(r) /\ EachOnce(Home[r.block], r.uploads) /\ r.state = "queued"
  BY RunType DEF IInv, HistoryInv, PostInv, DeliveryInv, OnceInv, StartRun
<1>2. PICK s \in {"started", "failed"} : \E reads :
        \/ Become(r, [r EXCEPT !.state = s, !.reads = reads])
        \/ \E p \in Programs[r.block] :
             Become(r, [[r EXCEPT !.state = s, !.reads = reads] EXCEPT !.posts = p])
  BY DEF StartRun
<1>3. PICK reads :
        \/ Become(r, [r EXCEPT !.state = s, !.reads = reads])
        \/ \E p \in Programs[r.block] :
             Become(r, [[r EXCEPT !.state = s, !.reads = reads] EXCEPT !.posts = p])
  BY <1>2
<1> DEFINE w == [r EXCEPT !.state = s, !.reads = reads]
<1>4. /\ w.req = r.req /\ w.block = r.block /\ w.serial = r.serial /\ w.nth = r.nth /\ w.state = s
      /\ w.uploads = r.uploads /\ w.posts = <<>> /\ w.posted = <<>> /\ DOMAIN w = DOMAIN r
      /\ r.posted = <<>>
  BY <1>1 DEF IsRun, PostsOnce
<1>5. \A p \in Programs[r.block] : LET v == [w EXCEPT !.posts = p] IN
        /\ v.req = r.req /\ v.block = r.block /\ v.serial = r.serial /\ v.nth = r.nth /\ v.state = s
        /\ v.uploads = r.uploads /\ v.posts = p /\ v.posted = <<>>
  BY <1>1, <1>4 DEF IsRun
<1> HIDE DEF w
<1>6. PICK r2, p :
        /\ Become(r, r2) /\ (p = <<>> \/ p \in Programs[r.block])
        /\ r2.req = r.req /\ r2.block = r.block /\ r2.serial = r.serial /\ r2.nth = r.nth /\ r2.state = s
        /\ r2.uploads = r.uploads /\ r2.posts = p /\ r2.posted = <<>>
  BY <1>3, <1>4, <1>5 DEF w
<1>7. PostsOnce(r2)
  <2>1. Range(r2.posted) = {} /\ IsInjective(r2.posted)
    BY <1>6 DEF Range, IsInjective
  <2>2. Range(p) \subseteq Outputs(r.block) /\ (ForeachBlock(r.block) => IsInjective(p))
    <3>1. CASE p = <<>>
      BY <3>1 DEF Range, IsInjective
    <3>2. CASE p \in Programs[r.block]
      <4>1. Range(p) \subseteq Outputs(r.block)
        BY <3>2 DEF Outputs
      <4> QED BY <1>1, <3>2, <4>1, PostingAssumption DEF IsRun
    <3> QED BY <1>6, <3>1, <3>2
  <2>3. r2.state # "queued"
    BY <1>6
  <2> QED BY <1>6, <2>1, <2>2, <2>3 DEF PostsOnce
<1>8. RunId(r2) = RunId(r) /\ RunDue(r2) = RunDue(r) /\ EachOnce(Home[r2.block], r2.uploads)
  BY <1>1, <1>6 DEF RunId, RunDue
<1>9. ProducedBy(r) = {}
  BY <1>4 DEF ProducedBy
<1>10. UNCHANGED <<phase, infoNet, known, dataNet, backlog, queue, running, parked, deps>> /\ UNCHANGED stateVars
  BY DEF StartRun, gatewayVars, netVars, inboxVars, greenVars, keyVars
<1> QED BY <1>6, <1>7, <1>8, <1>9, <1>10, RunStays

LEMMA FetchOnce ==
  ASSUME IInv, NEW r \in runs, Fetch(r) PROVE DeliveryInv' /\ HistoryInv'
<1>1. IsRun(r) /\ PostsOnce(r) /\ EachOnce(Home[r.block], r.uploads)
  BY RunType DEF IInv, HistoryInv, PostInv, DeliveryInv, OnceInv
<1> DEFINE w == [r EXCEPT !.reads = Tail(@)]
           d == Report(r, Head(r.reads))
<1>2. /\ w.req = r.req /\ w.block = r.block /\ w.serial = r.serial /\ w.nth = r.nth /\ w.state = r.state
      /\ w.uploads = r.uploads /\ w.posts = r.posts /\ w.posted = r.posted
  BY <1>1 DEF IsRun
<1>3. Due(Home[r.block], d) = {}
  BY DEF Report, Datum, Due
<1>4. /\ Become(r, w) /\ Send(Home[r.block], d)
      /\ UNCHANGED <<phase, infoNet, known, dataNet, queue, running, parked, deps>> /\ UNCHANGED stateVars
  BY DEF Fetch, gatewayVars, netVars, greenVars, keyVars
<1> HIDE DEF w, d
<1>5. PostsOnce(w) /\ EachOnce(Home[w.block], w.uploads) /\ RunDue(w) = RunDue(r) /\ RunId(w) = RunId(r)
  BY <1>1, <1>2 DEF PostsOnce, RunDue, RunId
<1>6. ProducedBy(w) = ProducedBy(r)
  BY <1>2 DEF ProducedBy, DatumPosted
<1> QED BY <1>2, <1>3, <1>4, <1>5, <1>6, RunStays

LEMMA StopOnce ==
  ASSUME IInv, NEW r \in runs, CountFails(r) \/ Crash(r) PROVE DeliveryInv' /\ HistoryInv'
<1>1. IsRun(r) /\ PostsOnce(r) /\ EachOnce(Home[r.block], r.uploads)
  BY RunType DEF IInv, HistoryInv, PostInv, DeliveryInv, OnceInv
<1>2. PICK s \in {"failed", "crashed"} : \E u \in {r.uploads, <<>>} :
        Become(r, [r EXCEPT !.state = s, !.posts = <<>>, !.uploads = u])
  <2>1. CASE CountFails(r)
    <3>1. [r EXCEPT !.state = "failed", !.posts = <<>>]
            = [r EXCEPT !.state = "failed", !.posts = <<>>, !.uploads = r.uploads]
      BY <1>1 DEF IsRun
    <3> QED BY <2>1, <3>1 DEF CountFails
  <2>2. CASE Crash(r)
    BY <2>2 DEF Crash
  <2> QED BY <2>1, <2>2
<1>3. PICK u \in {r.uploads, <<>>} : Become(r, [r EXCEPT !.state = s, !.posts = <<>>, !.uploads = u])
  BY <1>2
<1> DEFINE w == [r EXCEPT !.state = s, !.posts = <<>>, !.uploads = u]
<1>4. /\ w.req = r.req /\ w.block = r.block /\ w.serial = r.serial /\ w.nth = r.nth /\ w.state = s
      /\ w.uploads = u /\ w.posts = <<>> /\ w.posted = r.posted
  BY <1>1 DEF IsRun
<1>5. Become(r, w)
  BY <1>3
<1> HIDE DEF w
<1>6. PostsOnce(w)
  <2>1. Range(w.posts) = {} /\ IsInjective(w.posts)
    BY <1>4 DEF Range, IsInjective
  <2> QED BY <1>1, <1>4, <2>1 DEF PostsOnce
<1>7. RunDue(w) \subseteq RunDue(r) /\ EachOnce(Home[w.block], w.uploads) /\ RunId(w) = RunId(r)
  <2>1. CASE u = r.uploads
    BY <1>1, <1>4, <2>1 DEF RunDue, RunId
  <2>2. CASE u = <<>>
    BY <1>4, <2>2 DEF RunDue, DueOf, EachOnce, RunId
  <2> QED BY <2>1, <2>2
<1>8. ProducedBy(w) = ProducedBy(r)
  BY <1>4 DEF ProducedBy, DatumPosted
<1>9. UNCHANGED <<phase, infoNet, known, dataNet, backlog, queue, running, parked, deps>> /\ UNCHANGED stateVars
  BY DEF CountFails, Crash, gatewayVars, netVars, inboxVars, greenVars, keyVars
<1> QED BY <1>4, <1>5, <1>6, <1>7, <1>8, <1>9, RunStays

LEMMA UploadOnce ==
  ASSUME IInv, NEW r \in runs, Upload(r) PROVE DeliveryInv' /\ HistoryInv'
<1>1. IsRun(r) /\ PostsOnce(r) /\ EachOnce(Home[r.block], r.uploads) /\ r.uploads # <<>>
  BY RunType DEF IInv, HistoryInv, PostInv, DeliveryInv, OnceInv, Upload
<1> DEFINE w == [r EXCEPT !.uploads = Tail(r.uploads)]
           d == Head(r.uploads)
           h == Home[r.block]
           D == Due(h, d)
           a == <<"backlog", h>>
           c == <<"run", RunId(r)>>
<1>2. /\ w.req = r.req /\ w.block = r.block /\ w.serial = r.serial /\ w.nth = r.nth /\ w.state = r.state
      /\ w.uploads = Tail(r.uploads) /\ w.posts = r.posts /\ w.posted = r.posted
  BY <1>1 DEF IsRun
<1>3. /\ Become(r, w) /\ Send(h, d)
      /\ UNCHANGED <<phase, infoNet, known, dataNet, queue, running, parked>> /\ UNCHANGED stateVars
  BY DEF Upload, gatewayVars, netVars, greenVars
<1>19. SameKeys
  BY KeysSame DEF Upload, keyVars
<1>20. \A t : ~AtHome(c, t)
  BY DEF AtHome
<1>4. r.uploads \in Seq(Data)
  BY <1>1 DEF IsRun
<1>5. h \in Hosts
  BY RunType DEF IInv
<1>6. /\ DueOf(h, Tail(r.uploads)) \subseteq DueOf(h, r.uploads) \ D
      /\ D \subseteq DueOf(h, r.uploads) /\ EachOnce(h, Tail(r.uploads))
  <2>1. r.uploads \in Seq(Range(r.uploads))
    BY <1>4, InRange
  <2> HIDE DEF h
  <2> QED BY <1>1, <2>1, DueTail DEF h
<1> HIDE DEF w, d, h, D
<1>7. PostsOnce(w) /\ RunId(w) = RunId(r)
  BY <1>1, <1>2 DEF PostsOnce, RunId
<1>8. ProducedBy(w) = ProducedBy(r)
  BY <1>2 DEF ProducedBy, DatumPosted
<1>9. HistoryInv' /\ Fired' = Fired /\ Sent \subseteq Sent'
  BY <1>2, <1>3, <1>7, <1>8, RunHistory
<1>10. runs' = (runs \ {r}) \cup {w} /\ FireInv /\ \A s \in runs' : RunId(s) = RunId(r) => s = w
  BY <1>2, <1>3, <1>7, RunStaysFired DEF IInv, HistoryInv, Become
<1>11. backlog = [x \in Hosts |-> backlog[x]]
  BY DEF IInv, Inv, InboxInv
<1>12. /\ \A x \in Hosts : x # h => backlog'[x] = backlog[x]
       /\ backlog'[h] = Append(backlog[h], d)
  BY <1>3, <1>5, <1>11 DEF Send
<1>13. /\ a \in Places /\ c \in Places /\ a # c
       /\ Held(a) = DueOf(h, backlog[h]) /\ Held(a)' = DueOf(h, backlog'[h])
       /\ Held(c) = DueOf(h, r.uploads) /\ Held(c)' = DueOf(h, Tail(r.uploads))
  <2>1. a \in Places /\ c \in Places /\ a # c
    BY <1>5, PlacesAre DEF PlaceFacts
  <2>2. Held(a) = DueOf(h, backlog[h]) /\ Held(a)' = DueOf(h, backlog'[h])
    BY HeldIs DEF HeldFacts
  <2>3. Held(c) = RunDue(r)
    <3>1. Held(c) = UNION {RunDue(s) : s \in {s \in runs : RunId(s) = RunId(r)}}
      BY HeldIs DEF HeldFacts
    <3>2. {s \in runs : RunId(s) = RunId(r)} = {r}
      BY <1>10 DEF FireInv
    <3> QED BY <3>1, <3>2
  <2>4. Held(c)' = RunDue(w)
    <3>1. Held(c)' = UNION {RunDue(s) : s \in {s \in runs' : RunId(s) = RunId(r)}}
      BY HeldIs DEF HeldFacts
    <3>2. {s \in runs' : RunId(s) = RunId(r)} = {w}
      BY <1>7, <1>10
    <3> QED BY <3>1, <3>2
  <2> QED BY <1>2, <2>1, <2>2, <2>3, <2>4 DEF RunDue, h
<1>14. D \cap DueOf(h, backlog[h]) = {}
  BY <1>6, <1>13 DEF ApartInv, IInv, DeliveryInv
<1>15. DueOf(h, backlog'[h]) = DueOf(h, backlog[h]) \cup D /\ EachOnce(h, backlog'[h])
  <2> DEFINE s == backlog[h]
  <2>1. s \in Seq(Range(s)) /\ EachOnce(h, s) /\ backlog'[h] = Append(s, d) /\ D \cap DueOf(h, s) = {}
    BY <1>5, <1>12, <1>14, Inboxes
  <2> HIDE DEF s
  <2>2. DueOf(h, Append(s, d)) = DueOf(h, s) \cup D /\ EachOnce(h, Append(s, d))
    BY <2>1, DueAppend DEF D
  <2> QED BY <2>1, <2>2 DEF s
<1>16. OnceInv'
  <2>1. EachOnce(Home[w.block], w.uploads)
    BY <1>2, <1>6 DEF h
  <2> QED BY <1>3, <1>10, <1>12, <1>15, <2>1 DEF OnceInv, IInv, DeliveryInv
<1>17. Moving(a, c, D, D)
  <2>1. NoMore({a, c})
    BY <1>3, <1>7, <1>10, <1>12 DEF NoMore
  <2> HIDE DEF a, c
  <2> QED BY <1>6, <1>13, <1>15, <2>1 DEF Moving
<1>18. ApartInv' /\ AheadInv'
  <2>1. ApartInv /\ AheadInv /\ UNCHANGED inputDatas
    BY <1>3 DEF IInv, DeliveryInv, stateVars
  <2> HIDE DEF a, c
  <2> QED BY <1>9, <1>13, <1>17, <1>19, <1>20, <2>1, Travels
<1> QED BY <1>9, <1>16, <1>18 DEF DeliveryInv

-----------------------------------------------------------------------------
(* A run posts                                                             *)

(* What a run posts next, no run has posted before.                        *)
LEMMA PostIsNew ==
  ASSUME IInv, NEW r \in runs, r.posts # <<>>, NEW kind
  PROVE  Key(NextDatum(r, kind)) \notin Sent
<1> DEFINE o == Head(r.posts)
           before == {n \in 1..Len(r.posted) : r.posted[n] = o}
<1>1. IsRun(r) /\ PostsOnce(r)
  BY RunType DEF IInv, HistoryInv, PostInv
<1>2. o \in Range(r.posts) /\ r.posted \in Seq(Outs)
  <2>1. r.posts \in Seq(Outs) /\ r.posted \in Seq(Outs)
    BY <1>1 DEF IsRun
  <2>2. o = r.posts[1] /\ 1 \in DOMAIN r.posts
    BY <2>1
  <2> QED BY <2>1, <2>2 DEF Range
<1>3. Key(NextDatum(r, kind)) =
        <<r.req, o, IF r.serial = NoSerial THEN Cardinality(before) ELSE r.serial>>
  BY DEF Key, NextDatum, Datum
<1> HIDE DEF o
<1> SUFFICES ASSUME NEW s \in runs, NEW n \in 1..Len(s.posted),
                    DatumPosted(s, n) = Key(NextDatum(r, kind))
             PROVE  FALSE
  BY DEF Sent, ProducedBy
<1>4. IsRun(s) /\ PostsOnce(s) /\ s.posted \in Seq(Outs)
  BY RunType DEF IInv, HistoryInv, PostInv, IsRun
<1> DEFINE earlier == {m \in 1..(n - 1) : s.posted[m] = s.posted[n]}
<1>5. /\ s.req = r.req /\ s.posted[n] = o
      /\ (IF s.serial = NoSerial THEN Cardinality(earlier) ELSE s.serial)
           = (IF r.serial = NoSerial THEN Cardinality(before) ELSE r.serial)
  BY <1>3 DEF DatumPosted
<1>6. o \in Range(s.posted)
  BY <1>4, <1>5 DEF Range
<1>7. s.block = r.block
  <2>1. o \in Outputs(s.block) \cap Outputs(r.block)
    BY <1>1, <1>2, <1>4, <1>6 DEF PostsOnce
  <2> QED BY <1>1, <1>4, <2>1, PostingAssumption DEF IsRun
<1>8. /\ ForeachBlock(r.block) <=> r.serial # NoSerial
      /\ ForeachBlock(r.block) <=> s.serial # NoSerial
  <2>1. RunId(r) \in Fired /\ RunId(s) \in Fired
    BY DEF Fired
  <2> QED BY <1>7, <2>1 DEF IInv, HistoryInv, InstInv, RunId
<1>9. s = r
  <2>1. s.serial = r.serial
    BY <1>5, <1>8
  <2> QED BY <1>5, <1>7, <2>1 DEF RunId, IInv, HistoryInv, FireInv
<1>10. CASE ForeachBlock(r.block)
  BY <1>1, <1>2, <1>6, <1>9, <1>10 DEF PostsOnce
<1>11. CASE ~ForeachBlock(r.block)
  <2>1. Cardinality(earlier) = Cardinality(before)
    BY <1>5, <1>8, <1>11
  <2>2. Len(r.posted) \in Nat
    BY <1>2
  <2>3. earlier \subseteq before /\ n \in before /\ n \notin earlier
    BY <1>5, <1>9, <2>2
  <2>4. IsFiniteSet(before)
    <3>1. IsFiniteSet(1..Len(r.posted))
      BY <2>2, FS_Interval
    <3>2. before \subseteq 1..Len(r.posted)
      OBVIOUS
    <3> QED BY <3>1, <3>2, FS_Subset
  <2> HIDE DEF earlier, before
  <2>5. earlier = before
    BY <2>1, <2>3, <2>4, FS_Subset
  <2> QED BY <2>3, <2>5
<1> QED BY <1>10, <1>11

(* A run that has posted o.                                                *)
LEMMA AfterPost ==
  ASSUME NEW r, IsRun(r), PostsOnce(r), r.posts # <<>>, NEW r2,
         RunId(r2) = RunId(r), r2.state = r.state,
         r2.posts = Tail(r.posts), r2.posted = Append(r.posted, Head(r.posts)), NEW kind
  PROVE  /\ PostsOnce(r2)
         /\ ProducedBy(r2) = ProducedBy(r) \cup {Key(NextDatum(r, kind))}
<1> DEFINE o == Head(r.posts)
           s == r.posted
           t == r.posts
           s2 == r2.posted
           t2 == r2.posts
<1>1. s \in Seq(Outs) /\ t \in Seq(Outs) /\ t # <<>> /\ s2 = Append(s, o) /\ t2 = Tail(t)
  BY DEF IsRun
<1>2. r2.req = r.req /\ r2.block = r.block /\ r2.serial = r.serial
  BY IdIs
<1> HIDE DEF s, t, s2, t2
<1>3. /\ DOMAIN s = 1..Len(s) /\ Len(s) \in Nat /\ DOMAIN t = 1..Len(t) /\ Len(t) \in Nat /\ Len(t) >= 1
      /\ DOMAIN s2 = 1..(Len(s) + 1) /\ Len(s2) = Len(s) + 1 /\ s2[Len(s) + 1] = o
      /\ \A i \in 1..Len(s) : s2[i] = s[i]
      /\ DOMAIN t2 = 1..(Len(t) - 1) /\ \A i \in 1..(Len(t) - 1) : t2[i] = t[i + 1]
      /\ o = t[1]
  BY <1>1 DEF t
<1> HIDE DEF o
<1>4. 1..(Len(s) + 1) = (1..Len(s)) \cup {Len(s) + 1}
  BY <1>3
<1>5. /\ o \in Range(t) /\ Range(t2) \subseteq Range(t)
      /\ Range(s2) = Range(s) \cup {o}
  <2>1. o \in Range(t)
    BY <1>3 DEF Range
  <2>2. \A i \in 1..(Len(t) - 1) : i + 1 \in 1..Len(t)
    BY <1>3
  <2>3. Range(t2) \subseteq Range(t)
    BY <1>3, <2>2 DEF Range
  <2>4. Range(s2) = Range(s) \cup {o}
    BY <1>3, <1>4 DEF Range
  <2> QED BY <2>1, <2>3, <2>4
<1>6. ASSUME IsInjective(t) PROVE IsInjective(t2) /\ o \notin Range(t2)
  <2>1. \A i \in 1..(Len(t) - 1) : i + 1 \in 1..Len(t) /\ i + 1 # 1
    BY <1>3
  <2>2. \A i, j \in 1..(Len(t) - 1) : i + 1 = j + 1 => i = j
    BY <1>3
  <2>3. \A i, j \in 1..Len(t) : t[i] = t[j] => i = j
    BY <1>3, <1>6 DEF IsInjective
  <2>4. IsInjective(t2)
    <3>1. ASSUME NEW i \in 1..(Len(t) - 1), NEW j \in 1..(Len(t) - 1), t2[i] = t2[j] PROVE i = j
      <4>1. t[i + 1] = t[j + 1]
        BY <1>3, <3>1
      <4> QED BY <2>1, <2>2, <2>3, <4>1
    <3> QED BY <1>3, <3>1 DEF IsInjective
  <2>5. o \notin Range(t2)
    <3>1. ASSUME NEW i \in 1..(Len(t) - 1) PROVE t2[i] # o
      <4>1. 1 \in 1..Len(t)
        BY <1>3
      <4> QED BY <1>3, <2>1, <2>3, <4>1
    <3> QED BY <1>3, <3>1 DEF Range
  <2> QED BY <2>4, <2>5
<1>7. ASSUME IsInjective(s), o \notin Range(s) PROVE IsInjective(s2)
  <2> SUFFICES ASSUME NEW i \in DOMAIN s2, NEW j \in DOMAIN s2, s2[i] = s2[j] PROVE i = j
    BY DEF IsInjective
  <2>1. \A k \in 1..Len(s) : s[k] \in Range(s)
    BY <1>3 DEF Range
  <2>2. CASE i \in 1..Len(s) /\ j \in 1..Len(s)
    BY <1>3, <1>7, <2>2 DEF IsInjective
  <2>3. CASE ~(i \in 1..Len(s) /\ j \in 1..Len(s))
    BY <1>3, <1>4, <1>7, <2>1, <2>3
  <2> QED BY <2>2, <2>3
<1>8. PostsOnce(r2)
  <2>1. /\ Range(s) \cup Range(t) \subseteq Outputs(r.block)
        /\ ForeachBlock(r.block) => IsInjective(s) /\ IsInjective(t) /\ Range(s) \cap Range(t) = {}
        /\ r.state # "queued"
    BY DEF PostsOnce, s, t
  <2>2. Range(s2) \cup Range(t2) \subseteq Outputs(r.block)
    BY <1>5, <2>1
  <2>3. ForeachBlock(r.block) => IsInjective(s2) /\ IsInjective(t2) /\ Range(s2) \cap Range(t2) = {}
    BY <1>5, <1>6, <1>7, <2>1
  <2> QED BY <1>2, <2>1, <2>2, <2>3 DEF PostsOnce, s2, t2
<1>9. ASSUME NEW n \in 1..Len(s) PROVE DatumPosted(r2, n) = DatumPosted(r, n)
  <2>1. s2[n] = s[n] /\ \A m \in 1..(n - 1) : s2[m] = s[m]
    BY <1>3
  <2>2. {m \in 1..(n - 1) : s2[m] = s2[n]} = {m \in 1..(n - 1) : s[m] = s[n]}
    BY <2>1
  <2> QED BY <1>2, <2>1, <2>2 DEF DatumPosted, s, s2
<1>10. DatumPosted(r2, Len(s) + 1) = Key(NextDatum(r, kind))
  <2>1. (Len(s) + 1) - 1 = Len(s)
    BY <1>3
  <2>2. {m \in 1..((Len(s) + 1) - 1) : s2[m] = s2[Len(s) + 1]} = {m \in 1..Len(s) : s[m] = o}
    BY <1>3, <2>1
  <2>3. Key(NextDatum(r, kind)) =
          <<r.req, o, IF r.serial = NoSerial THEN Cardinality({m \in 1..Len(s) : s[m] = o})
                      ELSE r.serial>>
    BY DEF Key, NextDatum, Datum, o, s
  <2> HIDE DEF s
  <2> QED BY <1>2, <1>3, <2>2, <2>3 DEF DatumPosted, s2
<1>11. ProducedBy(r2) = {DatumPosted(r2, n) : n \in (1..Len(s)) \cup {Len(s) + 1}}
  BY <1>3, <1>4 DEF ProducedBy, s2
<1>12. ProducedBy(r) = {DatumPosted(r, n) : n \in 1..Len(s)}
  BY DEF ProducedBy, s
<1>13. ProducedBy(r2) = ProducedBy(r) \cup {Key(NextDatum(r, kind))}
  BY <1>9, <1>10, <1>11, <1>12
<1> QED BY <1>8, <1>13

(* What has not been sent is in no place and has had no effect.            *)
LEMMA Unsent ==
  ASSUME GotInv, AheadInv, NEW t, IsDelivery(t), t[1] \notin Sent
  PROVE  ~Got(t) /\ \A p \in Places : t \notin Held(p)
<1>1. \A p \in Places : t \notin Held(p)
  BY DEF AheadInv
<1>2. ASSUME Got(t) PROVE FALSE
  <2> DEFINE q == t[1][1]
             o == t[1][2]
             s == t[1][3]
             x == t[2]
  <2>1. /\ t[1] = <<q, o, s>> /\ q \in Requests /\ o \in Outs
        /\ x \in Range(Dest[o]) /\ x.block # User
    BY DEF IsDelivery
  <2>2. CASE OutType[o] = "FOREACH" /\ <<q, x.block, s>> \in Fired
    <3> DEFINE f == <<q, x.block, s>>
    <3>1. f[1] = q /\ f[2] = x.block /\ f[3] = s
      OBVIOUS
    <3> QED BY <2>1, <2>2, <3>1 DEF GotInv
  <2>3. CASE /\ OutType[o] = "MERGE" /\ x.input \in DOMAIN inputDatas[q][x.block]
             /\ s \in DOMAIN inputDatas[q][x.block][x.input]
    BY <2>1, <2>3 DEF GotInv
  <2> QED BY <1>2, <2>2, <2>3 DEF Got
<1> QED BY <1>1, <1>2

LEMMA Unawaited ==
  ASSUME AheadInv, NEW t, IsDelivery(t), t[1] \notin Sent PROVE ~Registers(t)
<1> DEFINE h == Home[t[2].block]
<1>1. t[1][2] \in Outs /\ t[2] \in Range(Dest[t[1][2]]) /\ t[2].block # User
  BY DEF IsDelivery
<1>2. t[2].block \in Blocks /\ h \in Hosts
  BY <1>1, DestType DEF Hosts
<1>3. BlocksAt(t[1][2], h) # {}
  BY <1>1, <1>2, BlockAt
<1> QED BY <1>2, <1>3 DEF AheadInv, KeysInv, Registers

(* New deliveries, B and U, come to two places.                            *)
LEMMA Appears ==
  ASSUME ApartInv, NEW a, NEW c, a # c, NEW B, NEW U, B \cap U = {},
         \A p \in Places : Held(p) \cap (B \cup U) = {},
         NoMore({a, c}), Held(a)' \subseteq Held(a) \cup B, Held(c)' \subseteq Held(c) \cup U
  PROVE  /\ ApartInv'
         /\ \A p \in Places' : \A t \in Held(p)' : t \in B \cup U \/ (p \in Places /\ t \in Held(p))
<1> DEFINE G(p) == IF p = a THEN B ELSE IF p = c THEN U ELSE {}
<1>1. \A p \in Places' \ {a, c} : Held(p)' \subseteq Held(p)
  BY Shrinks
<1>2. \A p \in Places' : p \in Places \/ Held(p) = {}
  BY NewPlaceEmpty
<1>3. \A p \in Places' : Held(p)' \subseteq Held(p) \cup G(p)
  BY <1>1
<1>4. \A p, u : G(p) \subseteq B \cup U /\ (p # u => G(p) \cap G(u) = {})
  OBVIOUS
<1> HIDE DEF G
<1>5. ASSUME NEW p \in Places', NEW u \in Places', p # u PROVE Held(p)' \cap Held(u)' = {}
  <2>1. Held(p) \cap Held(u) = {}
    BY <1>2, <1>5 DEF ApartInv
  <2>2. Held(p) \cap (B \cup U) = {} /\ Held(u) \cap (B \cup U) = {}
    BY <1>2
  <2> QED BY <1>3, <1>4, <1>5, <2>1, <2>2
<1>6. ApartInv'
  BY <1>5 DEF ApartInv
<1>7. ASSUME NEW p \in Places', NEW t \in Held(p)'
      PROVE  t \in B \cup U \/ (p \in Places /\ t \in Held(p))
  BY <1>2, <1>3, <1>4
<1> QED BY <1>6, <1>7

LEMMA PostOnce ==
  ASSUME IInv, NEW r \in runs, Post(r) PROVE DeliveryInv' /\ HistoryInv'
<1>1. /\ IsRun(r) /\ PostsOnce(r) /\ EachOnce(Home[r.block], r.uploads) /\ Inv
      /\ r.posts # <<>> /\ ~NoItems(r)
  BY RunType DEF IInv, HistoryInv, PostInv, DeliveryInv, OnceInv, Post
<1> DEFINE o == Head(r.posts)
           h == Home[r.block]
           after == [r EXCEPT !.posts = Tail(@), !.posted = Append(@, o)]
           kafka == NextDatum(r, "kafka")
           more == [after EXCEPT !.uploads = Append(@, kafka)]
           here == BlocksAt(o, h) # {} \/ Dest[o][1].block = User
<1>2. /\ after.req = r.req /\ after.block = r.block /\ after.serial = r.serial /\ after.nth = r.nth
      /\ after.state = r.state /\ after.posts = Tail(r.posts) /\ after.posted = Append(r.posted, o)
      /\ after.uploads = r.uploads /\ DOMAIN after = DOMAIN r
  BY <1>1 DEF IsRun
<1>3. /\ more.req = r.req /\ more.block = r.block /\ more.serial = r.serial /\ more.nth = r.nth
      /\ more.state = r.state /\ more.posts = Tail(r.posts) /\ more.posted = Append(r.posted, o)
      /\ more.uploads = Append(r.uploads, kafka)
  BY <1>1, <1>2 DEF IsRun
<1>25. SameKeys
  BY KeysSame DEF Post, keyVars
<1>4. /\ UNCHANGED <<phase, infoNet, known, dataNet, queue, running, parked>> /\ UNCHANGED stateVars
      /\ \/ /\ o \in Big /\ (Become(r, after) \/ Become(r, more))
            /\ UNCHANGED backlog \/ Send(h, NextDatum(r, "redis"))
         \/ Send(h, NextDatum(r, "direct")) /\ Become(r, after)
  BY DEF Post, gatewayVars, netVars, greenVars
<1> HIDE DEF after, more, kafka
<1>5. PICK r2 \in {after, more} :
        /\ Become(r, r2)
        /\ \/ o \in Big /\ (UNCHANGED backlog \/ Send(h, NextDatum(r, "redis")))
           \/ Send(h, NextDatum(r, "direct")) /\ r2 = after
  <2>1. CASE o \in Big /\ Become(r, after) /\ (UNCHANGED backlog \/ Send(h, NextDatum(r, "redis")))
    BY <2>1
  <2>2. CASE o \in Big /\ Become(r, more) /\ (UNCHANGED backlog \/ Send(h, NextDatum(r, "redis")))
    BY <2>2
  <2>3. CASE Send(h, NextDatum(r, "direct")) /\ Become(r, after)
    BY <2>3
  <2> QED BY <1>4, <2>1, <2>2, <2>3, Zenon
<1>6. /\ RunId(r2) = RunId(r) /\ r2.nth = r.nth /\ r2.state = r.state /\ r2.block = r.block
      /\ r2.posts = Tail(r.posts) /\ r2.posted = Append(r.posted, o)
      /\ \/ r2.uploads = r.uploads
         \/ r2 = more /\ r2.uploads = Append(r.uploads, kafka)
  BY <1>2, <1>3 DEF RunId
<1> DEFINE key == Key(kafka)
<1>7. PostsOnce(r2) /\ ProducedBy(r2) = ProducedBy(r) \cup {key}
  BY <1>1, <1>6, AfterPost DEF o, kafka
<1>8. HistoryInv' /\ Fired' = Fired /\ Sent' = Sent \cup {key}
  <2>1. HistoryInv' /\ Fired' = Fired /\ Sent' = Sent \cup ProducedBy(r2)
    BY <1>4, <1>5, <1>6, <1>7, RunHistory
  <2>2. ProducedBy(r) \subseteq Sent
    BY DEF Sent
  <2> QED BY <1>7, <2>1, <2>2
<1>9. key \notin Sent
  BY <1>1, PostIsNew DEF kafka
<1>10. \A k \in {"direct", "redis", "kafka"} :
         LET d == NextDatum(r, k) IN
           /\ d.kind = k /\ d.fromLocal /\ Key(d) = key /\ d.out = o
           /\ k = "direct" \/ o \in Big => d \in Data
  <2>1. \A k \in {"direct", "redis", "kafka"} : k = "direct" \/ o \in Big => NextDatum(r, k) \in Data
    BY <1>1, NextDatumType
  <2>2. \A k : /\ NextDatum(r, k).fromLocal /\ Key(NextDatum(r, k)) = key /\ NextDatum(r, k).out = o
               /\ NextDatum(r, k).kind = k
    BY DEF NextDatum, Datum, Key, kafka
  <2> QED BY <2>1, <2>2
<1>11. h \in Hosts /\ backlog = [x \in Hosts |-> backlog[x]]
  BY <1>1, RunType DEF Inv, InboxInv
<1> DEFINE Old(d) == \/ o \in Big /\ d = NextDatum(r, "redis")
                     \/ d = NextDatum(r, "direct") /\ r2 = after
<1>12. PICK B :
         \/ UNCHANGED backlog /\ B = {}
         \/ \E d : Old(d) /\ Send(h, d) /\ B = Due(h, d)
  BY <1>5
<1> DEFINE U == IF r2.uploads = r.uploads THEN {} ELSE Due(h, kafka)
           a == <<"backlog", h>>
           c == <<"run", RunId(r)>>
<1>13. \A t \in B \cup U : IsDelivery(t) /\ t[1] = key
  <2>1. ASSUME NEW t \in B PROVE IsDelivery(t) /\ t[1] = key
    BY <1>10, <1>12, <2>1, DueIsDelivery
  <2>2. ASSUME NEW t \in U PROVE IsDelivery(t) /\ t[1] = key
    <3>1. r2 # after /\ t \in Due(h, kafka)
      BY <1>2, <2>2
    <3>2. o \in Big
      BY <1>5, <3>1
    <3>3. kafka \in Data
      BY <1>10, <3>2 DEF kafka
    <3> QED BY <3>1, <3>3, DueIsDelivery
  <2> QED BY <2>1, <2>2
<1>14. B \cap U = {}
  <2> SUFFICES ASSUME NEW t \in B, t \in U PROVE FALSE
    OBVIOUS
  <2>1. r2.uploads # r.uploads /\ t \in Due(h, kafka) /\ r2 # after
    BY <1>2
  <2>2. t \in Due(h, NextDatum(r, "redis")) /\ o \in Big
    BY <1>12, <2>1
  <2>3. WorkFor(h, kafka, t[2]) /\ WorkFor(h, NextDatum(r, "redis"), t[2]) /\ t[2].block # User
    BY <1>10, <2>1, <2>2, DueIsDelivery DEF kafka, IsDelivery
  <2> QED BY <1>10, <2>3 DEF WorkFor, kafka
<1>15. \A t \in B \cup U : ~Got(t) /\ \A p \in Places : t \notin Held(p)
  BY <1>9, <1>13, Unsent DEF IInv, HistoryInv, DeliveryInv
<1>16. runs' = (runs \ {r}) \cup {r2} /\ FireInv /\ \A s \in runs' : RunId(s) = RunId(r) => s = r2
  BY <1>4, <1>5, <1>6, RunStaysFired DEF IInv, HistoryInv, Become
<1>17. /\ a \in Places /\ c \in Places /\ a # c
       /\ Held(a) = DueOf(h, backlog[h]) /\ Held(a)' = DueOf(h, backlog'[h])
       /\ Held(c) = DueOf(h, r.uploads) /\ Held(c)' = DueOf(h, r2.uploads)
  <2>1. a \in Places /\ c \in Places /\ a # c
    BY <1>11, PlacesAre DEF PlaceFacts
  <2>2. Held(a) = DueOf(h, backlog[h]) /\ Held(a)' = DueOf(h, backlog'[h])
    BY HeldIs DEF HeldFacts
  <2>3. Held(c) = RunDue(r)
    <3>1. Held(c) = UNION {RunDue(s) : s \in {s \in runs : RunId(s) = RunId(r)}}
      BY HeldIs DEF HeldFacts
    <3>2. {s \in runs : RunId(s) = RunId(r)} = {r}
      BY <1>16 DEF FireInv
    <3> QED BY <3>1, <3>2
  <2>4. Held(c)' = RunDue(r2)
    <3>1. Held(c)' = UNION {RunDue(s) : s \in {s \in runs' : RunId(s) = RunId(r)}}
      BY HeldIs DEF HeldFacts
    <3>2. {s \in runs' : RunId(s) = RunId(r)} = {r2}
      BY <1>6, <1>16
    <3> QED BY <3>1, <3>2
  <2> QED BY <1>6, <2>1, <2>2, <2>3, <2>4 DEF RunDue
<1>18. B \cap DueOf(h, backlog[h]) = {} /\ U \cap DueOf(h, r.uploads) = {}
  BY <1>15, <1>17
<1> HIDE DEF o, h, key, Old
<1>19. /\ \A x \in Hosts : x # h => backlog'[x] = backlog[x]
       /\ DueOf(h, backlog'[h]) \subseteq DueOf(h, backlog[h]) \cup B /\ EachOnce(h, backlog'[h])
  <2> DEFINE s == backlog[h]
  <2>1. s \in Seq(Range(s)) /\ EachOnce(h, s) /\ B \cap DueOf(h, s) = {}
    BY <1>11, <1>18, Inboxes
  <2>2. CASE UNCHANGED backlog /\ B = {}
    BY <2>1, <2>2
  <2>3. ASSUME NEW d, Send(h, d), B = Due(h, d)
        PROVE  /\ \A x \in Hosts : x # h => backlog'[x] = backlog[x]
               /\ DueOf(h, backlog'[h]) \subseteq DueOf(h, s) \cup B /\ EachOnce(h, backlog'[h])
    <3>1. (\A x \in Hosts : x # h => backlog'[x] = backlog[x]) /\ backlog'[h] = Append(s, d)
      BY <1>11, <2>3 DEF Send
    <3> HIDE DEF s
    <3>2. DueOf(h, Append(s, d)) = DueOf(h, s) \cup Due(h, d) /\ EachOnce(h, Append(s, d))
      BY <2>1, <2>3, DueAppend
    <3> QED BY <2>3, <3>1, <3>2
  <2> QED BY <1>12, <2>2, <2>3
<1>20. DueOf(h, r2.uploads) \subseteq DueOf(h, r.uploads) \cup U /\ EachOnce(h, r2.uploads)
  <2> DEFINE s == r.uploads
  <2>1. s \in Seq(Range(s)) /\ EachOnce(h, s) /\ U \cap DueOf(h, s) = {}
    <3>1. s \in Seq(Data)
      BY <1>1 DEF IsRun
    <3>2. s \in Seq(Range(s))
      BY <3>1, InRange
    <3> QED BY <1>1, <1>18, <3>2 DEF h
  <2>2. CASE r2.uploads = s
    BY <2>1, <2>2
  <2>3. CASE r2.uploads # s
    <3>1. r2.uploads = Append(s, kafka) /\ U = Due(h, kafka)
      BY <1>6, <2>3
    <3> HIDE DEF s, U
    <3>2. DueOf(h, Append(s, kafka)) = DueOf(h, s) \cup U /\ EachOnce(h, Append(s, kafka))
      BY <2>1, <3>1, DueAppend
    <3> QED BY <3>1, <3>2 DEF s
  <2> QED BY <2>2, <2>3
<1>21. OnceInv'
  <2>1. EachOnce(Home[r2.block], r2.uploads)
    BY <1>6, <1>20 DEF h
  <2> QED BY <1>4, <1>16, <1>19, <2>1 DEF OnceInv, IInv, DeliveryInv
<1>22. NoMore({a, c})
  BY <1>4, <1>6, <1>16, <1>19 DEF NoMore
<1>23. /\ ApartInv'
       /\ \A p \in Places' : \A t \in Held(p)' : t \in B \cup U \/ (p \in Places /\ t \in Held(p))
  <2>1. ApartInv /\ \A p \in Places : Held(p) \cap (B \cup U) = {}
    BY <1>15 DEF IInv, DeliveryInv
  <2> HIDE DEF a, c, U
  <2> QED BY <1>14, <1>17, <1>19, <1>20, <1>22, <2>1, Appears
<1>24. AheadInv'
  <2>1. \A t : Got(t)' = Got(t)
    BY <1>4, <1>8, GotSame DEF stateVars
  <2>2. AheadInv
    BY DEF IInv, DeliveryInv
  <2> HIDE DEF U
  <2>3. ASSUME NEW p \in Places', NEW t \in Held(p)'
        PROVE  IsDelivery(t) /\ ~Got(t) /\ t[1] \in Sent' /\ (Registers(t) => AtHome(p, t))
    <3>1. CASE t \in B \cup U
      BY <1>8, <1>9, <1>13, <1>15, <2>2, <3>1, Unawaited
    <3>2. CASE p \in Places /\ t \in Held(p)
      BY <1>8, <2>2, <3>2 DEF AheadInv
    <3> QED BY <1>23, <3>1, <3>2
  <2>4. \A t : IsDelivery(t) /\ Registers(t)' => Registers(t)
    BY <1>25, DestType DEF IsDelivery, Hosts, Registers, SameKeys
  <2>5. KeysInv'
    BY <1>8, <1>25, <2>2 DEF AheadInv, KeysInv, SameKeys
  <2> QED BY <2>1, <2>3, <2>4, <2>5 DEF AheadInv, IsDelivery, AtHome
<1> QED BY <1>8, <1>21, <1>23, <1>24 DEF DeliveryInv

-----------------------------------------------------------------------------
(* The theorem                                                             *)

LEMMA InitIInv == Init => IInv
<1> SUFFICES ASSUME Init PROVE IInv
  OBVIOUS
<1>1. Inv
  BY InitInv
<1>2. /\ phase = [q \in Requests |-> "idle"] /\ infoNet = {} /\ dataNet = {} /\ runs = {}
      /\ \A h \in Hosts : /\ known[h] = {} /\ backlog[h] = <<>> /\ queue[h] = <<>>
                          /\ running[h] = <<>> /\ parked[h] = {}
      /\ \A q \in Requests, b \in Blocks : inputDatas[q][b] = EmptyFn /\ inputCnt[q][b] = 0
  BY DEF Init
<1>3. Fired = {} /\ Sent = {}
  <2>1. \A h \in Hosts : Calls(h) = {}
    BY <1>2 DEF Calls
  <2> QED BY <1>2, <2>1 DEF Fired, Sent
<1>4. DOMAIN EmptyFn = {}
  BY DEF EmptyFn
<1>5. \A h : DueOf(h, <<>>) = {} /\ EachOnce(h, <<>>)
  BY DEF DueOf, EachOnce
<1>6. \A p \in Places : Held(p) = {}
  <2> SUFFICES ASSUME NEW p \in Places PROVE Held(p) = {}
    OBVIOUS
  <2>1. \E h \in Hosts : p = <<"backlog", h>> \/ p = <<"queue", h>> \/ p = <<"running", h>>
    BY <1>2, PlacesAre DEF PlaceFacts
  <2>2. PICK h \in Hosts : p = <<"backlog", h>> \/ p = <<"queue", h>> \/ p = <<"running", h>>
    BY <2>1
  <2> QED BY <1>2, <1>5, <2>2, HeldIs DEF HeldFacts
<1>7. DeliveryInv
  <2>1. deps = [h \in Hosts |-> EmptyFn]
    BY DEF Init
  <2>2. KeysInv
    BY <1>4, <2>1 DEF KeysInv
  <2> QED BY <1>2, <1>5, <1>6, <2>2 DEF DeliveryInv, OnceInv, ApartInv, AheadInv
<1>8. GotInv
  <2>1. \A o \in Outs : \A x \in Range(Dest[o]) : x.block # User => x.block \in Blocks
    BY DestType
  <2> QED BY <1>2, <1>3, <1>4, <2>1 DEF GotInv
<1>9. InfoInv /\ InstInv /\ PostInv
  BY <1>2, <1>3, <1>4 DEF InfoInv, InstInv, PostInv
<1>10. FireInv
  BY <1>2 DEF FireInv, Calls
<1>11. CountInv
  <2>1. \A q \in Requests, b \in Blocks : Complete(q, b) = {}
    BY <1>2, <1>4 DEF Complete
  <2>2. Cardinality({}) = 0
    BY FS_EmptySet
  <2> QED BY <1>2, <1>3, <1>4, <2>1, <2>2 DEF CountInv
<1> QED BY <1>1, <1>7, <1>8, <1>9, <1>10, <1>11 DEF IInv, HistoryInv

LEMMA StutterOnce == ASSUME IInv, UNCHANGED vars PROVE DeliveryInv' /\ HistoryInv'
<1>1. /\ UNCHANGED <<phase, infoNet, known, dataNet, backlog, queue, running, parked, runs, deps>>
      /\ UNCHANGED stateVars /\ UNCHANGED inputDatas
  BY DEF vars, gatewayVars, netVars, inboxVars, greenVars, stateVars, keyVars
<1>2. HistoryInv'
  BY <1>1, CallsSame, HistorySame DEF IInv
<1> QED BY <1>1, <1>2, NetShrinks

LEMMA NextIInv == IInv /\ [Next]_vars => IInv'
<1> SUFFICES ASSUME IInv, [Next]_vars PROVE IInv'
  OBVIOUS
<1> DEFINE Goal == DeliveryInv' /\ HistoryInv'
<1>1. ASSUME NEW q \in Requests, Run(q) \/ SendInputs(q) \/ Answer(q) \/ PostUserData(q) PROVE Goal
  BY <1>1, RunOnce, SendInputsOnce, AnswerOnce
<1>2. ASSUME NEW h \in Hosts, NEW q \in Requests, RequestInfo(h, q) PROVE Goal
  BY <1>2, RequestInfoOnce
<1>3. ASSUME NEW m \in dataNet, TransferData(m) PROVE Goal
  BY <1>3, TransferDataOnce
<1>4. ASSUME NEW h \in Hosts, SocketServer(h) \/ DispatchFetched(h) \/ Dispatch(h) PROVE Goal
  BY <1>4, SocketServerOnce, DispatchFetchedOnce, DispatchOnce
<1>5. ASSUME NEW h \in Hosts, ToUser(h) \/ ToRemote(h) \/ FlowForeach(h) \/ FlowMerge(h) \/ FlowNormal(h)
      PROVE  Goal
  BY <1>5, ToUserOnce, ToRemoteOnce, FlowForeachOnce, FlowMergeOnce, FlowNormalOnce
<1>6. ASSUME NEW h \in Hosts, NEW k, PrefetchData(h, k) \/ LosePrefetch(h, k) PROVE Goal
  BY <1>6, PrefetchOnce
<1>7. ASSUME NEW h \in Hosts, NEW g, ResumeMerge(h, g) \/ ResumeTrigger(h, g) PROVE Goal
  BY <1>7, ResumeMergeOnce, ResumeTriggerOnce
<1>8. ASSUME NEW r \in runs, StartRun(r) \/ Fetch(r) \/ Post(r) \/ CountFails(r) \/ Upload(r) \/ Crash(r)
      PROVE  Goal
  BY <1>8, StartRunOnce, FetchOnce, PostOnce, StopOnce, UploadOnce
<1>9. ASSUME LosePost PROVE Goal
  BY <1>9, LosePostOnce
<1>10. ASSUME UNCHANGED vars PROVE Goal
  BY <1>10, StutterOnce
<1> HIDE DEF Goal
<1>11. ASSUME Step PROVE Goal
  BY <1>1, <1>2, <1>3, <1>4, <1>5, <1>6, <1>7, <1>8, <1>11 DEF Step
<1>12. ASSUME Fault PROVE Goal
  BY <1>6, <1>8, <1>9, <1>12 DEF Fault
<1>13. Goal
  BY <1>10, <1>11, <1>12 DEF Next
<1>14. Inv'
  BY NextInv DEF IInv
<1> QED BY <1>13, <1>14 DEF IInv, Goal

(* In every reachable state every delivery is in one place, once, and what *)
(* has been delivered was posted.                                          *)
THEOREM DeliveredOnce == Spec => []IInv
BY InitIInv, NextIInv, PTL DEF Spec

(* No instance of a block is handed to a container twice.                  *)
THEOREM InstancesTriggerOnce == Spec => []TriggerOnce
<1>1. IInv => TriggerOnce
  BY DEF IInv, HistoryInv, FireInv, TriggerOnce
<1> QED BY <1>1, DeliveredOnce, PTL

=============================================================================
