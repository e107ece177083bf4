------------------------- MODULE KeptUntilReadProofs -------------------------
(***************************************************************************)
(* The flow monitor of a WorkerSP host counts what is still to be read: a  *)
(* key stays until every local block has read it and has reported so.      *)
(* This is of workflows that join no item with another input, for a block  *)
(* that does is triggered more than once for the datum it joins.           *)
(***************************************************************************)
EXTENDS RunsCompleteProofs

-----------------------------------------------------------------------------
(* Reports in an inbox                                                     *)

IsReport(d, k) == d.kind = "fetched" /\ Key(d) = k
ReportsAt(s, k) == {n \in 1..Len(s) : IsReport(s[n], k)}

LEMMA ReportsAre ==
  ASSUME NEW s, s \in Seq(Range(s)), NEW k
  PROVE  /\ ReportsIn(s, k) = Cardinality(ReportsAt(s, k)) /\ IsFiniteSet(ReportsAt(s, k))
         /\ ReportsIn(s, k) \in Nat
         /\ (\A n \in 1..Len(s) : ~IsReport(s[n], k)) => ReportsIn(s, k) = 0
<1>1. ReportsIn(s, k) = Cardinality(ReportsAt(s, k))
  BY DEF ReportsIn, ReportsAt, IsReport
<1>2. IsFiniteSet(1..Len(s)) /\ ReportsAt(s, k) \subseteq 1..Len(s)
  BY FS_Interval DEF ReportsAt
<1>3. IsFiniteSet(ReportsAt(s, k))
  BY <1>2, FS_Subset
<1>4. ReportsIn(s, k) \in Nat
  BY <1>1, <1>3, FS_CardinalityType
<1>5. ASSUME \A n \in 1..Len(s) : ~IsReport(s[n], k) PROVE ReportsIn(s, k) = 0
  <2>1. ReportsAt(s, k) = {}
    BY <1>5 DEF ReportsAt
  <2> QED BY <2>1, <1>1, FS_EmptySet
<1> QED BY <1>1, <1>3, <1>4, <1>5

LEMMA ReportsAppend ==
  ASSUME NEW s, s \in Seq(Range(s)), NEW d, NEW k
  PROVE  ReportsIn(Append(s, d), k) = IF IsReport(d, k) THEN ReportsIn(s, k) + 1 ELSE ReportsIn(s, k)
<1> DEFINE a == Append(s, d)
<1>1. /\ a \in Seq(Range(a)) /\ Len(a) = Len(s) + 1 /\ a[Len(s) + 1] = d
      /\ \A i \in 1..Len(s) : a[i] = s[i]
  BY AppendIs
<1>2. Len(s) \in Nat
  OBVIOUS
<1> HIDE DEF a
<1>3. ReportsAt(a, k) = IF IsReport(d, k) THEN ReportsAt(s, k) \cup {Len(s) + 1} ELSE ReportsAt(s, k)
  <2>1. 1..Len(a) = (1..Len(s)) \cup {Len(s) + 1}
    BY <1>1, <1>2
  <2> QED BY <2>1, <1>1 DEF ReportsAt
<1>4. Len(s) + 1 \notin ReportsAt(s, k)
  BY <1>2 DEF ReportsAt
<1>5. /\ ReportsIn(s, k) = Cardinality(ReportsAt(s, k)) /\ IsFiniteSet(ReportsAt(s, k))
      /\ ReportsIn(a, k) = Cardinality(ReportsAt(a, k))
  BY <1>1, ReportsAre
<1>6. Cardinality(ReportsAt(s, k) \cup {Len(s) + 1}) = Cardinality(ReportsAt(s, k)) + 1
  BY <1>4, <1>5, FS_AddElement
<1> QED BY <1>3, <1>5, <1>6 DEF a

LEMMA ReportsTail ==
  ASSUME NEW s, s \in Seq(Range(s)), s # <<>>, NEW k
  PROVE  ReportsIn(Tail(s), k) = IF IsReport(Head(s), k) THEN ReportsIn(s, k) - 1 ELSE ReportsIn(s, k)
<1> DEFINE a == Tail(s)
           S == ReportsAt(s, k)
           T == ReportsAt(a, k)
           f == [n \in T |-> n + 1]
<1>1. /\ a \in Seq(Range(a)) /\ Len(a) = Len(s) - 1 /\ Len(s) >= 1 /\ Head(s) = s[1]
      /\ \A i \in 1..Len(a) : a[i] = s[i + 1]
  BY TailIs
<1>2. Len(s) \in Nat
  OBVIOUS
<1>3. /\ ReportsIn(s, k) = Cardinality(S) /\ IsFiniteSet(S)
      /\ ReportsIn(a, k) = Cardinality(T) /\ IsFiniteSet(T)
  BY <1>1, ReportsAre
<1> HIDE DEF a
<1>4. f \in Bijection(T, S \ {1})
  <2>1. ASSUME NEW n \in T PROVE n + 1 \in S \ {1}
    BY <1>1, <1>2, <2>1 DEF ReportsAt
  <2>2. ASSUME NEW m \in S \ {1} PROVE m - 1 \in T /\ (m - 1) + 1 = m
    <3>1. m \in 1..Len(s) /\ m - 1 \in 1..Len(a) /\ (m - 1) + 1 = m
      BY <1>1, <1>2, <2>2 DEF ReportsAt
    <3>2. a[m - 1] = s[m] /\ IsReport(s[m], k)
      BY <1>1, <3>1, <2>2 DEF ReportsAt
    <3> QED BY <3>1, <3>2 DEF ReportsAt
  <2>3. T \subseteq Int /\ S \subseteq Int
    BY DEF ReportsAt
  <2> HIDE DEF S, T
  <2>4. f \in [T -> S \ {1}]
    BY <2>1
  <2>5. \A m, n \in T : f[m] = f[n] => m = n
    BY <2>3
  <2>6. \A m \in S \ {1} : \E n \in T : f[n] = m
    BY <2>2
  <2> HIDE DEF f
  <2> QED BY <2>4, <2>5, <2>6 DEF Bijection, Injection, Surjection, IsInjective
<1>5. Cardinality(T) = Cardinality(S \ {1})
  <2>1. ExistsBijection(T, S \ {1})
    BY <1>4 DEF ExistsBijection
  <2> HIDE DEF S, T
  <2> QED BY <2>1, <1>3, FS_Bijection
<1>6. 1 \in S <=> IsReport(Head(s), k)
  BY <1>1, <1>2 DEF ReportsAt
<1> HIDE DEF S, T
<1>7. Cardinality(S \ {1}) = IF 1 \in S THEN Cardinality(S) - 1 ELSE Cardinality(S)
  BY <1>3, FS_RemoveElement
<1> QED BY <1>3, <1>5, <1>6, <1>7 DEF a

LEMMA ReportsConcat ==
  ASSUME NEW s, s \in Seq(Range(s)), NEW t \in Seq(Data), NEW k
  PROVE  ReportsIn(s \o t, k) = ReportsIn(s, k)
<1> DEFINE a == s \o t
<1>1. /\ a \in Seq(Range(a)) /\ Len(a) = Len(s) + Len(t)
      /\ \A i \in 1..Len(s) : a[i] = s[i]
      /\ \A i \in 1..Len(t) : a[Len(s) + i] = t[i]
  BY ConcatIs
<1>2. Len(s) \in Nat /\ Len(t) \in Nat /\ \A i \in 1..Len(t) : t[i] \in Data
  OBVIOUS
<1> HIDE DEF a
<1>3. ASSUME NEW n \in 1..Len(a), n \notin 1..Len(s) PROVE ~IsReport(a[n], k)
  <2>1. n - Len(s) \in 1..Len(t) /\ n = Len(s) + (n - Len(s))
    BY <1>1, <1>2, <1>3
  <2>2. a[n] \in Data
    BY <1>1, <1>2, <2>1
  <2> QED BY <2>2 DEF Data, IsReport
<1>4. ReportsAt(a, k) = ReportsAt(s, k)
  <2>1. 1..Len(s) \subseteq 1..Len(a)
    BY <1>1, <1>2
  <2> QED BY <2>1, <1>1, <1>3 DEF ReportsAt
<1> QED BY <1>1, <1>4, ReportsAre DEF a

-----------------------------------------------------------------------------
(* The items that a block fetches                                          *)

(* No element of G is twice in s.                                          *)
OnceIn(G, s) == \A m, n \in 1..Len(s) : s[m] \in G /\ s[m] = s[n] => m = n

LEMMA OnceConcat ==
  ASSUME NEW S, NEW s \in Seq(S), NEW t \in Seq(S), NEW G, OnceIn(G, s), OnceIn(G, t),
         Range(s) \cap Range(t) \cap G = {}
  PROVE  /\ s \o t \in Seq(S) /\ Range(s \o t) = Range(s) \cup Range(t)
         /\ OnceIn(G, s \o t)
<1> DEFINE a == s \o t
<1>1. /\ a \in Seq(S) /\ Len(a) = Len(s) + Len(t) /\ Len(s) \in Nat /\ Len(t) \in Nat
      /\ (\A i \in 1..Len(s) : a[i] = s[i])
      /\ \A i \in 1..Len(t) : a[Len(s) + i] = t[i]
  OBVIOUS
<1>2. DOMAIN a = 1..Len(a) /\ DOMAIN s = 1..Len(s) /\ DOMAIN t = 1..Len(t)
  OBVIOUS
<1> HIDE DEF a
<1>3. ASSUME NEW i \in 1..Len(a), i \notin 1..Len(s)
      PROVE  i - Len(s) \in 1..Len(t) /\ a[i] = t[i - Len(s)]
  <2>1. i - Len(s) \in 1..Len(t) /\ i = Len(s) + (i - Len(s))
    BY <1>1, <1>3
  <2> QED BY <2>1, <1>1
<1>4. Range(a) = Range(s) \cup Range(t)
  <2>1. Range(a) \subseteq Range(s) \cup Range(t)
    BY <1>1, <1>2, <1>3 DEF Range
  <2>2. Range(s) \subseteq Range(a)
    <3>1. 1..Len(s) \subseteq 1..Len(a)
      BY <1>1
    <3> QED BY <3>1, <1>1, <1>2 DEF Range
  <2>3. Range(t) \subseteq Range(a)
    <3>1. \A i \in 1..Len(t) : Len(s) + i \in 1..Len(a)
      BY <1>1
    <3> QED BY <3>1, <1>1, <1>2 DEF Range
  <2> QED BY <2>1, <2>2, <2>3
<1>5. ASSUME NEW m \in 1..Len(a), NEW n \in 1..Len(a), a[m] \in G, a[m] = a[n]
      PROVE  m = n
  <2>1. CASE m \in 1..Len(s) /\ n \in 1..Len(s)
    BY <2>1, <1>1, <1>5 DEF OnceIn
  <2>2. CASE m \notin 1..Len(s) /\ n \notin 1..Len(s)
    <3>1. /\ m - Len(s) \in 1..Len(t) /\ n - Len(s) \in 1..Len(t)
          /\ t[m - Len(s)] \in G /\ t[m - Len(s)] = t[n - Len(s)]
      BY <2>2, <1>3, <1>5
    <3>2. m - Len(s) = n - Len(s)
      BY <3>1 DEF OnceIn
    <3> QED BY <3>2, <1>1
  <2>3. \A i \in 1..Len(s), j \in 1..Len(t) : s[i] = t[j] => s[i] \notin G
    BY <1>2 DEF Range
  <2>4. CASE m \in 1..Len(s) /\ n \notin 1..Len(s)
    BY <2>3, <2>4, <1>1, <1>3, <1>5
  <2>5. CASE m \notin 1..Len(s) /\ n \in 1..Len(s)
    BY <2>3, <2>5, <1>1, <1>3, <1>5
  <2> QED BY <2>1, <2>2, <2>4, <2>5
<1> QED BY <1>1, <1>4, <1>5 DEF OnceIn, a

(* FlattenSeq by its prefixes.                                             *)
FlatTo(seqs, n, f) == f = [i \in 1..n |-> IF i = 1 THEN seqs[i] ELSE f[i - 1] \o seqs[i]]

LEMMA FlatPrefixesExist ==
  ASSUME NEW seqs, NEW k \in Nat
  PROVE  \E f : FlatTo(seqs, k, f)
<1> DEFINE Bad == {n \in Nat : ~\E f : FlatTo(seqs, n, f)}
<1> SUFFICES ASSUME Bad # {} PROVE FALSE
  OBVIOUS
<1>1. PICK n \in Bad : \A m \in Bad : n <= m
  BY Least
<1>2. n # 0
  <2> DEFINE f == [i \in 1..0 |-> <<>>]
  <2>1. FlatTo(seqs, 0, f)
    BY DEF FlatTo
  <2> QED BY <2>1
<1>3. n - 1 \in Nat /\ n - 1 \notin Bad
  BY <1>1, <1>2
<1>4. PICK f : FlatTo(seqs, n - 1, f)
  BY <1>3
<1> DEFINE c == IF n = 1 THEN seqs[n] ELSE f[n - 1] \o seqs[n]
           g == [i \in 1..n |-> IF i < n THEN f[i] ELSE c]
           v(i) == IF i = 1 THEN seqs[i] ELSE g[i - 1] \o seqs[i]
<1>5. ASSUME NEW i \in 1..n PROVE g[i] = v(i)
  <2>0. n \in Nat /\ i \in 1..n
    OBVIOUS
  <2>1. CASE i = n
    <3>1. g[i] = c /\ (i # 1 => g[i - 1] = f[i - 1])
      <4> HIDE DEF c
      <4> QED BY <2>0, <2>1
    <3> QED BY <2>1, <3>1, Zenon
  <2>2. CASE i < n
    <3>1. i \in 1..(n - 1) /\ g[i] = f[i]
      BY <2>2
    <3>2. f[i] = IF i = 1 THEN seqs[i] ELSE f[i - 1] \o seqs[i]
      BY <3>1, <1>4 DEF FlatTo
    <3>3. i # 1 => g[i - 1] = f[i - 1]
      BY <2>2
    <3> QED BY <3>1, <3>2, <3>3, Zenon
  <2> QED BY <2>0, <2>1, <2>2
<1>6. FlatTo(seqs, n, g)
  <2>1. g = [i \in 1..n |-> v(i)]
    BY <1>5
  <2> QED BY <2>1 DEF FlatTo
<1> QED BY <1>6, <1>1

(* What it has: the elements of all, an element of G once if it is once in *)
(* one of them.                                                            *)
LEMMA FlattenIs ==
  ASSUME NEW S, NEW seqs \in Seq(Seq(S)), NEW G,
         \A k \in 1..Len(seqs) : OnceIn(G, seqs[k]),
         \A k, j \in 1..Len(seqs) : k # j => Range(seqs[k]) \cap Range(seqs[j]) \cap G = {}
  PROVE  /\ FlattenSeq(seqs) \in Seq(S)
         /\ Range(FlattenSeq(seqs)) = UNION {Range(seqs[k]) : k \in 1..Len(seqs)}
         /\ OnceIn(G, FlattenSeq(seqs))
<1>0. Len(seqs) \in Nat /\ \A k \in 1..Len(seqs) : seqs[k] \in Seq(S)
  OBVIOUS
<1>1. CASE Len(seqs) = 0
  <2>1. seqs = <<>> /\ FlattenSeq(seqs) = <<>>
    BY <1>1 DEF FlattenSeq
  <2>2. Range(<<>>) = {}
    BY DEF Range
  <2>3. {Range(seqs[k]) : k \in 1..Len(seqs)} = {}
    BY <1>1
  <2>4. OnceIn(G, <<>>)
    BY DEF OnceIn
  <2>5. UNION {Range(seqs[k]) : k \in 1..Len(seqs)} = Range(FlattenSeq(seqs))
    BY <2>1, <2>2, <2>3, Zenon
  <2>6. FlattenSeq(seqs) \in Seq(S)
    <3>1. <<>> \in Seq(S)
      OBVIOUS
    <3> QED BY <2>1, <3>1, Zenon
  <2>7. OnceIn(G, FlattenSeq(seqs))
    BY <2>1, <2>4, Zenon
  <2> QED BY <2>5, <2>6, <2>7, Zenon
<1>2. CASE Len(seqs) # 0
  <2> DEFINE f == CHOOSE f : FlatTo(seqs, Len(seqs), f)
             U(n) == UNION {Range(seqs[k]) : k \in 1..n}
             Good(n) == f[n] \in Seq(S) /\ Range(f[n]) = U(n) /\ OnceIn(G, f[n])
             Bad == {n \in 1..Len(seqs) : ~Good(n)}
  <2>1. FlattenSeq(seqs) = f[Len(seqs)]
    BY <1>2 DEF FlattenSeq, FlatTo
  <2>2. FlatTo(seqs, Len(seqs), f)
    BY <1>0, FlatPrefixesExist
  <2> HIDE DEF f
  <2>3. Good(1)
    <3>1. 1 \in 1..Len(seqs)
      BY <1>0, <1>2
    <3>2. f[1] = seqs[1]
      BY <2>2, <3>1 DEF FlatTo
    <3>3. U(1) = Range(seqs[1])
      OBVIOUS
    <3> QED BY <3>1, <3>2, <3>3, <1>0
  <2>4. ASSUME NEW n \in 2..Len(seqs), Good(n - 1) PROVE Good(n)
    <3>1. n \in 1..Len(seqs) /\ n # 1 /\ n - 1 \in 1..Len(seqs)
      BY <1>0
    <3>2. f[n] = f[n - 1] \o seqs[n]
      BY <2>2, <3>1 DEF FlatTo
    <3>3. U(n) = U(n - 1) \cup Range(seqs[n])
      <4>1. 1..n = (1..(n - 1)) \cup {n}
        BY <3>1
      <4> QED BY <4>1
    <3>4. U(n - 1) \cap Range(seqs[n]) \cap G = {}
      <4>1. \A k \in 1..(n - 1) : k \in 1..Len(seqs) /\ k # n
        BY <3>1, <1>0
      <4> QED BY <3>1, <4>1
    <3>5. f[n - 1] \in Seq(S) /\ Range(f[n - 1]) = U(n - 1) /\ OnceIn(G, f[n - 1])
      BY <2>4
    <3>6. seqs[n] \in Seq(S) /\ OnceIn(G, seqs[n])
      BY <3>1, <1>0
    <3> HIDE DEF U
    <3>7. /\ f[n] \in Seq(S) /\ Range(f[n]) = Range(f[n - 1]) \cup Range(seqs[n])
          /\ OnceIn(G, f[n])
      BY <3>2, <3>4, <3>5, <3>6, OnceConcat
    <3> QED BY <3>3, <3>5, <3>7
  <2> HIDE DEF Good, U
  <2>5. Bad = {}
    <3> SUFFICES ASSUME Bad # {} PROVE FALSE
      OBVIOUS
    <3>0. Bad \in SUBSET Nat
      OBVIOUS
    <3>1. PICK n \in Bad : \A m \in Bad : n <= m
      BY <3>0, Least
    <3>2. n \in 2..Len(seqs)
      BY <3>1, <2>3, <1>0
    <3>3. n - 1 \in 1..Len(seqs) /\ n - 1 \notin Bad
      BY <3>1, <3>2, <1>0
    <3> QED BY <3>1, <3>2, <3>3, <2>4
  <2>6. Good(Len(seqs))
    BY <2>5, <1>0, <1>2
  <2> QED BY <2>1, <2>6 DEF Good, U
<1> QED BY <1>1, <1>2

(* The serial numbers of the items of a run, if there is one for each item, *)
(* are the first naturals.                                                 *)
LEMMA FirstSerials ==
  ASSUME NEW p, p.posted \in Seq(Outs), Cardinality(ItemSerials(p)) = ForeachCount(p)
  PROVE  ItemSerials(p) = 0..(ForeachCount(p) - 1)
<1> DEFINE P == {n \in 1..Len(p.posted) : OutType[p.posted[n]] = "FOREACH"}
           E(n) == {m \in 1..(n - 1) : p.posted[m] = p.posted[n]}
           F == ForeachCount(p)
<1>1. IsFiniteSet(P) /\ F = Cardinality(P) /\ F \in Nat
  <2>1. IsFiniteSet(1..Len(p.posted)) /\ P \subseteq 1..Len(p.posted)
    BY FS_Interval
  <2>2. IsFiniteSet(P)
    <3> HIDE DEF P
    <3> QED BY <2>1, FS_Subset
  <2> QED BY <2>2, FS_CardinalityType, ItemsAreCounted DEF ForeachCount
<1>2. ASSUME NEW n \in P PROVE Cardinality(E(n)) \in 0..(F - 1)
  <2>1. E(n) \subseteq P \ {n} /\ n \in P
    <3>1. \A m \in 1..(n - 1) : m \in 1..Len(p.posted) /\ m # n
      OBVIOUS
    <3> QED BY <3>1
  <2> HIDE DEF P, E
  <2>2. IsFiniteSet(P \ {n}) /\ Cardinality(P \ {n}) = F - 1
    BY <1>1, <2>1, FS_RemoveElement
  <2>3. IsFiniteSet(E(n)) /\ Cardinality(E(n)) <= F - 1
    BY <2>1, <2>2, FS_Subset
  <2>4. Cardinality(E(n)) \in Nat
    BY <2>3, FS_CardinalityType
  <2> QED BY <1>1, <2>3, <2>4
<1>3. ItemSerials(p) \subseteq 0..(F - 1)
  BY <1>2 DEF ItemSerials
<1> HIDE DEF F
<1>4. IsFiniteSet(0..(F - 1)) /\ Cardinality(0..(F - 1)) = F
  <2>1. F \in Nat /\ F - 1 \in Int /\ 0 \in Int
    BY <1>1
  <2>2. /\ IsFiniteSet(0..(F - 1))
        /\ Cardinality(0..(F - 1)) = IF 0 > F - 1 THEN 0 ELSE (F - 1) - 0 + 1
    BY <2>1, FS_Interval, Zenon
  <2> QED BY <2>1, <2>2
<1>5. Cardinality(ItemSerials(p)) = F
  BY DEF F
<1>6. ItemSerials(p) = 0..(F - 1)
  BY <1>3, <1>4, <1>5, FS_Subset
<1> QED BY <1>6 DEF F

(* Lists are indexed from zero.                                            *)
Indexed(b, ins) ==
  \A i \in DOMAIN ins : Inputs[b][i] = "LIST" =>
    DOMAIN ins[i] = 0..(Cardinality(DOMAIN ins[i]) - 1)

LEMMA WholeIndexed ==
  ASSUME RunInv, NEW b, NEW ins, Whole(b, ins)
  PROVE  Indexed(b, ins)
<1> SUFFICES ASSUME NEW i \in DOMAIN ins, Inputs[b][i] = "LIST"
             PROVE  DOMAIN ins[i] = 0..(Cardinality(DOMAIN ins[i]) - 1)
  BY DEF Indexed
<1>1. PICK p \in runs : DOMAIN ins[i] = ItemSerials(p) /\ Cardinality(DOMAIN ins[i]) = ForeachCount(p)
  BY DEF Whole, Collects
<1>2. p.posted \in Seq(Outs)
  BY DEF RunInv, IsRun
<1> QED BY <1>1, <1>2, FirstSerials

(* What a block reads of an input: data that go there, no two of one key.  *)
LEMMA ItemsAre ==
  ASSUME NEW q, NEW b, NEW ins, IsInputs(q, b, ins), Indexed(b, ins), NEW i \in DOMAIN ins
  PROVE  LET s == ItemsOf(b, ins, i) IN
         /\ s \in Seq(Data) /\ \A n \in 1..Len(s) : IsInput(q, b, i, s[n])
         /\ \A m, n \in 1..Len(s) : Key(s[m]) = Key(s[n]) => m = n
         /\ Range(s) = IF Inputs[b][i] = "LIST" THEN {ins[i][n] : n \in DOMAIN ins[i]} ELSE {ins[i]}
<1> DEFINE s == ItemsOf(b, ins, i)
<1>1. CASE Inputs[b][i] = "LIST"
  <2> DEFINE l == ins[i]
             c == Cardinality(DOMAIN l)
  <2>1. /\ IsFiniteSet(DOMAIN l) /\ DOMAIN l = 0..(c - 1)
        /\ \A n \in DOMAIN l : IsInput(q, b, i, l[n]) /\ l[n].serial = n
    BY <1>1 DEF IsInputs, IsList, Indexed
  <2>2. c \in Nat
    BY <2>1, FS_CardinalityType
  <2>3. s = [n \in 1..c |-> l[n - 1]]
    BY <1>1 DEF ItemsOf
  <2> HIDE DEF l, c, s
  <2>4. \A n \in 1..c : n - 1 \in DOMAIN l
    BY <2>1, <2>2
  <2>5. \A n \in 1..c : s[n] = l[n - 1] /\ IsInput(q, b, i, s[n]) /\ s[n].serial = n - 1
    BY <2>1, <2>3, <2>4
  <2>6. s \in Seq(Data) /\ Len(s) = c /\ DOMAIN s = 1..c
    BY <2>2, <2>3, <2>5 DEF IsInput
  <2>7. \A m, n \in 1..Len(s) : Key(s[m]) = Key(s[n]) => m = n
    BY <2>2, <2>5, <2>6 DEF Key
  <2>8. Range(s) = {l[n] : n \in DOMAIN l}
    <3>1. \A n \in DOMAIN l : n + 1 \in 1..c /\ (n + 1) - 1 = n
      BY <2>1, <2>2
    <3>2. \A n \in DOMAIN l : l[n] \in Range(s)
      BY <2>5, <2>6, <3>1 DEF Range
    <3>3. \A y \in Range(s) : y \in {l[n] : n \in DOMAIN l}
      BY <2>4, <2>5, <2>6 DEF Range
    <3> QED BY <3>2, <3>3
  <2> QED BY <1>1, <2>5, <2>6, <2>7, <2>8 DEF s, l
<1>2. CASE Inputs[b][i] # "LIST"
  <2>1. s = <<ins[i]>> /\ IsInput(q, b, i, ins[i]) /\ ins[i] \in Data
    BY <1>2 DEF IsInputs, IsInput, ItemsOf
  <2>2. s \in Seq(Data) /\ Len(s) = 1 /\ s[1] = ins[i] /\ DOMAIN s = 1..1
    BY <2>1
  <2> HIDE DEF s
  <2>3. Range(s) = {ins[i]}
    BY <2>2 DEF Range
  <2> QED BY <1>2, <2>1, <2>2, <2>3 DEF s
<1> QED BY <1>1, <1>2

(* The large data among the inputs: each is fetched, and no two have a key. *)
LEMMA ReferencesAre ==
  ASSUME NEW q, NEW b \in Blocks, NEW ins, IsInputs(q, b, ins), Indexed(b, ins)
  PROVE  /\ \A d \in ReferencesIn(b, ins) :
              /\ d \in Data /\ ByReference(d) /\ d.req = q /\ b \in BlocksAt(d.out, Home[b])
              /\ \E i \in DOMAIN ins :
                   i \in Range(Fetches[b]) /\ IsInput(q, b, i, d) /\ d \in Range(ItemsOf(b, ins, i))
         /\ \A d, e \in ReferencesIn(b, ins) : Key(d) = Key(e) => d = e
<1>1. ASSUME NEW d \in ReferencesIn(b, ins)
      PROVE  /\ d \in Data /\ ByReference(d) /\ d.req = q /\ d.out \in Big \cap Outs
             /\ \E i \in DOMAIN ins : \E x \in Range(Dest[d.out]) :
                  /\ IsInput(q, b, i, d) /\ d \in Range(ItemsOf(b, ins, i))
                  /\ x.block = b /\ x.input = i
  <2>1. PICK i \in DOMAIN ins : d \in Range(ItemsOf(b, ins, i)) /\ ByReference(d)
    BY DEF ReferencesIn
  <2>2. IsInput(q, b, i, d)
    <3> DEFINE s == ItemsOf(b, ins, i)
    <3>1. s \in Seq(Data) /\ \A n \in 1..Len(s) : IsInput(q, b, i, s[n])
      BY ItemsAre
    <3> HIDE DEF s
    <3>2. d \in Range(s)
      BY <2>1 DEF s
    <3>3. PICK n \in 1..Len(s) : d = s[n]
      BY <3>1, <3>2 DEF Range
    <3> QED BY <3>1, <3>3
  <2> QED BY <2>1, <2>2 DEF IsInput, Data
<1>2. ASSUME NEW d \in ReferencesIn(b, ins), NEW i, NEW x \in Range(Dest[d.out]), x.block = b, x.input = i
      PROVE  i \in Range(Fetches[b]) /\ b \in BlocksAt(d.out, Home[b])
  <2>1. d.out \in Big \cap Outs
    BY <1>1
  <2>2. b # User
    BY WorkflowAssumption
  <2> QED BY <1>2, <2>1, <2>2, FetchesAssumption, BlockAt
<1>3. ASSUME NEW d \in ReferencesIn(b, ins), NEW e \in ReferencesIn(b, ins), Key(d) = Key(e)
      PROVE  d = e
  <2>1. d.out = e.out /\ d.out \in Big \cap Outs
    BY <1>1, <1>3 DEF Key
  <2>2. PICK i \in DOMAIN ins, x \in Range(Dest[d.out]) :
          d \in Range(ItemsOf(b, ins, i)) /\ x.block = b /\ x.input = i
    BY <1>1
  <2>3. PICK j \in DOMAIN ins, y \in Range(Dest[e.out]) :
          e \in Range(ItemsOf(b, ins, j)) /\ y.block = b /\ y.input = j
    BY <1>1
  <2>4. i = j
    BY <2>1, <2>2, <2>3, FetchesAssumption
  <2> DEFINE s == ItemsOf(b, ins, i)
  <2>5. s \in Seq(Data) /\ \A m, n \in 1..Len(s) : Key(s[m]) = Key(s[n]) => m = n
    BY ItemsAre
  <2> HIDE DEF s
  <2>6. d \in Range(s) /\ e \in Range(s)
    BY <2>2, <2>3, <2>4 DEF s
  <2>7. PICK m \in 1..Len(s) : d = s[m]
    BY <2>5, <2>6 DEF Range
  <2>8. PICK n \in 1..Len(s) : e = s[n]
    BY <2>5, <2>6 DEF Range
  <2> QED BY <2>5, <2>7, <2>8, <1>3
<1>4. ASSUME NEW d \in ReferencesIn(b, ins)
      PROVE  /\ d \in Data /\ ByReference(d) /\ d.req = q /\ b \in BlocksAt(d.out, Home[b])
             /\ \E i \in DOMAIN ins :
                  i \in Range(Fetches[b]) /\ IsInput(q, b, i, d) /\ d \in Range(ItemsOf(b, ins, i))
  <2>1. PICK i \in DOMAIN ins, x \in Range(Dest[d.out]) :
          /\ IsInput(q, b, i, d) /\ d \in Range(ItemsOf(b, ins, i)) /\ x.block = b /\ x.input = i
    BY <1>1
  <2> QED BY <1>1, <1>2, <2>1
<1> QED BY <1>3, <1>4

(* A run that starts has all that it must fetch still to read, each once.  *)
LEMMA StartRunReads ==
  ASSUME RunInv, NEW r \in runs, StartRun(r), Indexed(r.block, r.inputs),
         DOMAIN r.inputs = DOMAIN Inputs[r.block]
  PROVE  /\ r.state = "queued"
         /\ \E r2 : /\ Become(r, r2) /\ r2.req = r.req /\ r2.block = r.block
                    /\ r2.serial = r.serial /\ r2.inputs = r.inputs /\ r2.state = "started"
                    /\ r2.reads \in Seq(ReferencesIn(r.block, r.inputs))
                    /\ Range(r2.reads) = ReferencesIn(r.block, r.inputs) /\ IsInjective(r2.reads)
<1> DEFINE b == r.block
           ins == r.inputs
           F == Fetches[b]
           absent == {k \in 1..Len(F) : F[k] \notin DOMAIN ins}
           seqs == [k \in 1..Len(F) |-> ItemsOf(b, ins, F[k])]
           items == FlattenSeq(seqs)
           refs == {n \in 1..Len(items) : ByReference(items[n])}
           reads == Subsequence(items, refs)
           G == {d \in Data : ByReference(d)}
<1>1. b \in Blocks /\ IsInputs(r.req, b, ins) /\ DOMAIN r = {"req", "block", "serial", "nth", "inputs",
        "state", "reads", "posts", "posted", "uploads"}
  BY DEF RunInv, IsRun
<1>2. F \in Seq(DOMAIN ins) /\ IsInjective(F) /\ absent = {}
  <2>1. F \in Seq(DOMAIN ins) /\ IsInjective(F)
    BY <1>1, FetchesAssumption
  <2>2. \A k \in 1..Len(F) : F[k] \in DOMAIN ins
    BY <2>1
  <2> QED BY <2>1, <2>2
<1>3. /\ r.state = "queued"
      /\ \E r2 : /\ Become(r, r2) /\ r2.req = r.req /\ r2.block = r.block
                 /\ r2.serial = r.serial /\ r2.inputs = r.inputs /\ r2.state = "started"
                 /\ r2.reads = reads
  <2> DEFINE started == [r EXCEPT !.state = "started", !.reads = reads]
  <2>1. r.state = "queued" /\ \E p \in Programs[b] : Become(r, [started EXCEPT !.posts = p])
    BY <1>2, Zenon DEF StartRun
  <2>2. PICK p \in Programs[b] : Become(r, [started EXCEPT !.posts = p])
    BY <2>1
  <2> DEFINE r2 == [started EXCEPT !.posts = p]
  <2> HIDE DEF reads
  <2>3. r2.req = r.req /\ r2.block = r.block /\ r2.serial = r.serial /\ r2.inputs = r.inputs
        /\ r2.state = "started" /\ r2.reads = reads
    BY <1>1
  <2> HIDE DEF r2
  <2> QED BY <2>1, <2>2, <2>3 DEF r2
<1> SUFFICES /\ reads \in Seq(ReferencesIn(b, ins)) /\ Range(reads) = ReferencesIn(b, ins)
             /\ IsInjective(reads)
  BY <1>3
<1>4. \A k \in 1..Len(F) : F[k] \in DOMAIN ins
  BY <1>2
<1>5. seqs \in Seq(Seq(Data)) /\ Len(seqs) = Len(F)
  <2>1. \A k \in 1..Len(F) : ItemsOf(b, ins, F[k]) \in Seq(Data)
    BY <1>1, <1>4, ItemsAre
  <2>2. Len(F) \in Nat
    BY <1>2
  <2> QED BY <2>1, <2>2
<1>6. ASSUME NEW k \in 1..Len(seqs) PROVE OnceIn(G, seqs[k])
  <2>1. seqs[k] = ItemsOf(b, ins, F[k])
    BY <1>5
  <2>2. \A m, n \in 1..Len(seqs[k]) : Key(seqs[k][m]) = Key(seqs[k][n]) => m = n
    BY <1>1, <1>4, <1>5, <2>1, ItemsAre
  <2> QED BY <2>2 DEF OnceIn
<1>7. ASSUME NEW k \in 1..Len(seqs), NEW j \in 1..Len(seqs), k # j
      PROVE  Range(seqs[k]) \cap Range(seqs[j]) \cap G = {}
  <2> SUFFICES ASSUME NEW d \in G, d \in Range(seqs[k]), d \in Range(seqs[j]) PROVE FALSE
    OBVIOUS
  <2>1. \A m \in {k, j} : d \in Range(ItemsOf(b, ins, F[m]))
    BY <1>5
  <2>2. \A m \in {k, j} : IsInput(r.req, b, F[m], d)
    <3> SUFFICES ASSUME NEW m \in {k, j} PROVE IsInput(r.req, b, F[m], d)
      OBVIOUS
    <3> DEFINE s == ItemsOf(b, ins, F[m])
    <3>1. s \in Seq(Data) /\ \A n \in 1..Len(s) : IsInput(r.req, b, F[m], s[n])
      BY <1>1, <1>4, <1>5, ItemsAre
    <3>2. d \in Range(s)
      BY <2>1
    <3> HIDE DEF s
    <3>3. PICK n \in 1..Len(s) : d = s[n]
      BY <3>1, <3>2 DEF Range
    <3> QED BY <3>1, <3>3
  <2>3. d.out \in Big \cap Outs
    BY DEF Data
  <2>4. F[k] = F[j]
    BY <2>2, <2>3, FetchesAssumption DEF IsInput
  <2> QED BY <2>4, <1>2, <1>5, <1>7 DEF IsInjective
<1> HIDE DEF seqs, G
<1>8. /\ items \in Seq(Data) /\ OnceIn(G, items)
      /\ Range(items) = UNION {Range(seqs[k]) : k \in 1..Len(seqs)}
  BY <1>5, <1>6, <1>7, FlattenIs
<1> HIDE DEF items
<1>9. /\ reads \in Seq({items[n] : n \in refs \cap (1..Len(items))})
      /\ Range(reads) = {items[n] : n \in refs \cap (1..Len(items))}
  BY <1>8, SubsequenceIs
<1>10. IsInjective(reads)
  <2>1. \A m, n \in refs \cap (1..Len(items)) : items[m] = items[n] => m = n
    BY <1>8 DEF OnceIn, G
  <2> HIDE DEF refs
  <2> QED BY <1>8, <2>1, SubsequenceIs, Zenon
<1>11. {items[n] : n \in refs \cap (1..Len(items))} = {d \in Range(items) : ByReference(d)}
  BY <1>8 DEF Range
<1>12. {d \in Range(items) : ByReference(d)} = ReferencesIn(b, ins)
  <2>1. ASSUME NEW d \in Range(items), ByReference(d) PROVE d \in ReferencesIn(b, ins)
    <3>1. PICK k \in 1..Len(F) : d \in Range(ItemsOf(b, ins, F[k]))
      BY <1>5, <1>8, <2>1 DEF seqs
    <3> QED BY <3>1, <2>1, <1>4 DEF ReferencesIn
  <2>2. ASSUME NEW d \in ReferencesIn(b, ins) PROVE d \in Range(items) /\ ByReference(d)
    <3>1. PICK i \in DOMAIN ins : /\ i \in Range(F) /\ d \in Range(ItemsOf(b, ins, i)) /\ ByReference(d)
      BY <1>1, ReferencesAre
    <3>2. PICK k \in 1..Len(F) : F[k] = i
      BY <1>2, <3>1 DEF Range
    <3>3. k \in 1..Len(seqs) /\ seqs[k] = ItemsOf(b, ins, i)
      BY <1>5, <3>2 DEF seqs
    <3> QED BY <1>8, <3>1, <3>3
  <2> QED BY <2>1, <2>2
<1> HIDE DEF refs, reads
<1> QED BY <1>9, <1>10, <1>11, <1>12

-----------------------------------------------------------------------------
(* What greenlets, stored inputs and runs hold                             *)

(* The inputs ins of b are in S, so are the datum and the call of a parked *)
(* greenlet.                                                               *)
AllIn(S, b, ins) ==
  \A i \in DOMAIN ins : IF Inputs[b][i] = "LIST" THEN \A n \in DOMAIN ins[i] : ins[i][n] \in S
                        ELSE ins[i] \in S
WaitsIn(S, g) == g.data \in S /\ (g.call # <<>> => AllIn(S, g.call[1].block, g.call[1].inputs))

(* A datum whose host only forwards it is read by none of its blocks.      *)
ForwardedFrom(d) == d.kind = "kafka" /\ d.fromLocal

(* What host h holds is in G[h].                                           *)
HeldIn(G, now, waiting, stored, rs) ==
  /\ \A h \in Hosts : now[h] # <<>> => ForwardedFrom(now[h][1].data) \/ now[h][1].data \in G[h]
  /\ \A h \in Hosts : \A g \in waiting[h] : WaitsIn(G[h], g)
  /\ \A q \in Requests, b \in Blocks : AllIn(G[Home[b]], b, stored[q][b])
  /\ \A r \in rs : AllIn(G[Home[r.block]], r.block, r.inputs)

LEMMA HeldInMore ==
  ASSUME RunInv, NEW G, NEW H, \A h \in Hosts : G[h] \subseteq H[h],
         HeldIn(G, running, parked, inputDatas, runs)
  PROVE  HeldIn(H, running, parked, inputDatas, runs)
<1>1. \A h \in Hosts : \A b, ins : AllIn(G[h], b, ins) => AllIn(H[h], b, ins)
  BY DEF AllIn
<1>2. \A h \in Hosts : \A g : WaitsIn(G[h], g) => WaitsIn(H[h], g)
  BY <1>1 DEF WaitsIn
<1>3. \A b \in Blocks : Home[b] \in Hosts
  BY HomeType
<1>4. \A r \in runs : Home[r.block] \in Hosts
  BY <1>3 DEF RunInv, IsRun
<1> QED BY <1>1, <1>2, <1>3, <1>4 DEF HeldIn

(* A step of one host: what it stores, hands out or parks anew is in G.    *)
LEMMA HeldOnHost ==
  ASSUME Inv, NEW G, HeldIn(G, running, parked, inputDatas, runs), NEW h \in Hosts,
         NEW u, running' = [running EXCEPT ![h] = u],
         u # <<>> => ForwardedFrom(u[1].data) \/ u[1].data \in G[h],
         \A k \in Hosts : \A g \in parked'[k] : g \in parked[k] \/ (k = h /\ WaitsIn(G[h], g)),
         \A q \in Requests, b \in Blocks :
           inputDatas'[q][b] = inputDatas[q][b] \/ AllIn(G[Home[b]], b, inputDatas'[q][b]),
         \A r \in runs' : r \in runs \/ AllIn(G[Home[r.block]], r.block, r.inputs)
  PROVE  HeldIn(G, running', parked', inputDatas', runs')
<1>1. \A k \in Hosts : running'[k] # <<>> =>
        ForwardedFrom(running'[k][1].data) \/ running'[k][1].data \in G[k]
  BY DEF HeldIn, Inv, GreenInv
<1>2. \A k \in Hosts : \A g \in parked'[k] : WaitsIn(G[k], g)
  BY DEF HeldIn
<1>3. \A q \in Requests, b \in Blocks : AllIn(G[Home[b]], b, inputDatas'[q][b])
  BY DEF HeldIn
<1>4. \A r \in runs' : AllIn(G[Home[r.block]], r.block, r.inputs)
  BY DEF HeldIn
<1> QED BY <1>1, <1>2, <1>3, <1>4 DEF HeldIn

LEMMA AllocateHeld ==
  ASSUME NEW G, HeldIn(G, running, parked, inputDatas, runs), NEW h, NEW q, NEW b, Home[b] = h,
         NEW ins, AllIn(G[h], b, ins), Allocate(q, b, ins)
  PROVE  \A r \in runs' : r \in runs \/ AllIn(G[Home[r.block]], r.block, r.inputs)
<1>1. PICK new : NewRun(new, b, ins) /\ runs' = runs \cup {new}
  BY AllocatesNew
<1> QED BY <1>1 DEF NewRun

LEMMA TriggerHeld ==
  ASSUME Inv, NEW G, HeldIn(G, running, parked, inputDatas, runs), NEW h \in Hosts,
         NEW g, IsGreenlet(h, g), g.data \in G[h], NEW b, Home[b] = h,
         NEW ins, AllIn(G[h], b, ins), TriggerNormal(h, g, b, ins),
         \A q \in Requests, c \in Blocks :
           inputDatas'[q][c] = inputDatas[q][c] \/ AllIn(G[Home[c]], c, inputDatas'[q][c])
  PROVE  HeldIn(G, running', parked', inputDatas', runs')
<1> DEFINE w == [g EXCEPT !.call = <<[block |-> b, inputs |-> ins]>>]
<1>1. w.data = g.data /\ w.call[1].block = b /\ w.call[1].inputs = ins
  BY DEF IsGreenlet
<1>2. WaitsIn(G[h], w)
  BY <1>1 DEF WaitsIn
<1>3. /\ \/ running' = [running EXCEPT ![h] = Continue(g)]
         \/ running' = [running EXCEPT ![h] = <<>>]
      /\ runs' = runs \/ Allocate(g.data.req, b, ins)
      /\ parked' = parked \/ parked' = [parked EXCEPT ![h] = @ \cup {w}]
  BY DEF TriggerNormal
<1> HIDE DEF w
<1>4. PICK u \in {<<>>, <<g>>} : running' = [running EXCEPT ![h] = u]
  BY <1>3, ContinueIs
<1>5. u # <<>> => u[1].data \in G[h]
  BY <1>4
<1>6. \A r \in runs' : r \in runs \/ AllIn(G[Home[r.block]], r.block, r.inputs)
  BY <1>3, AllocateHeld
<1>7. \A k \in Hosts : \A e \in parked'[k] : e \in parked[k] \/ (k = h /\ WaitsIn(G[h], e))
  BY <1>2, <1>3 DEF Inv, GreenInv
<1> QED BY <1>4, <1>5, <1>6, <1>7, HeldOnHost

LEMMA CountInputHeld ==
  ASSUME Inv, NEW G, HeldIn(G, running, parked, inputDatas, runs), NEW h \in Hosts,
         NEW g, IsGreenlet(h, g), g.data \in G[h], NEW b, Home[b] = h,
         NEW ins, AllIn(G[h], b, ins), CountInput(h, g, b, ins),
         \A q \in Requests, c \in Blocks :
           inputDatas'[q][c] = inputDatas[q][c] \/ AllIn(G[Home[c]], c, inputDatas'[q][c])
  PROVE  HeldIn(G, running', parked', inputDatas', runs')
<1>1. CASE LastInput(g.data.req, b)
  BY <1>1, TriggerHeld DEF CountInput
<1>2. CASE ~LastInput(g.data.req, b)
  <2>1. running' = [running EXCEPT ![h] = Continue(g)] /\ UNCHANGED <<parked, runs>>
    BY <1>2 DEF CountInput
  <2>2. PICK u \in {<<>>, <<g>>} : running' = [running EXCEPT ![h] = u]
    BY <2>1, ContinueIs
  <2>3. u # <<>> => u[1].data \in G[h]
    BY <2>2
  <2>4. \A k \in Hosts : \A e \in parked'[k] : e \in parked[k]
    BY <2>1
  <2>5. \A r \in runs' : r \in runs
    BY <2>1
  <2> QED BY <2>2, <2>3, <2>4, <2>5, HeldOnHost
<1> QED BY <1>1, <1>2

(* The datum of a greenlet at a local destination is not forwarded.        *)
LEMMA FlowingHeld ==
  ASSUME Inv, NEW G, HeldIn(G, running, parked, inputDatas, runs), NEW h \in Hosts, NEW t, Flowing(h, t)
  PROVE  LET g == running[h][1]
             x == Head(g.dests)
         IN /\ g.data \in G[h] /\ IsGreenlet(h, g) /\ IsGreenlet(h, Advance(g)) /\ Advance(g).data = g.data
            /\ g.call = <<>> /\ g.data.req \in Requests /\ x.block \in Blocks /\ Home[x.block] = h
            /\ (t = "MERGE") <=> (Inputs[x.block][x.input] = "LIST")
            /\ AllIn(G[h], x.block, inputDatas[g.data.req][x.block])
<1> DEFINE g == running[h][1]
           x == Head(g.dests)
<1>1. /\ running[h] # <<>> /\ IsGreenlet(h, g) /\ g.dests # <<>> /\ g.call = <<>>
      /\ g.data.req \in Requests /\ x.block \in Blocks /\ Home[x.block] = h
      /\ (t = "MERGE") <=> (Inputs[x.block][x.input] = "LIST")
  BY FlowingIs DEF Inv
<1>2. WorkFor(h, g.data, x) /\ x.block # User
  BY <1>1, HeadType, WorkflowAssumption
<1>3. ~ForwardedFrom(g.data)
  BY <1>1, <1>2 DEF WorkFor, ForwardedFrom
<1>4. g.data \in G[h]
  BY <1>1, <1>3 DEF HeldIn
<1>5. IsGreenlet(h, Advance(g)) /\ Advance(g).data = g.data
  BY <1>1, AdvanceType
<1>6. AllIn(G[h], x.block, inputDatas[g.data.req][x.block])
  BY <1>1 DEF HeldIn
<1> QED BY <1>1, <1>4, <1>5, <1>6

(* The inputs of one block of a request change.                            *)
LEMMA StoresIn ==
  ASSUME StateInv, NEW G, NEW q, NEW b, NEW ins, AllIn(G[Home[b]], b, ins),
         inputDatas' = [inputDatas EXCEPT ![q][b] = ins]
  PROVE  \A p \in Requests, c \in Blocks :
           inputDatas'[p][c] = inputDatas[p][c] \/ AllIn(G[Home[c]], c, inputDatas'[p][c])
<1>1. \A p \in Requests, c \in Blocks : (c = b /\ inputDatas'[p][c] = ins) \/ inputDatas'[p][c] = inputDatas[p][c]
  BY DEF StateInv
<1> QED BY <1>1

LEMMA FlowForeachHeld ==
  ASSUME Inv, NEW G, HeldIn(G, running, parked, inputDatas, runs), NEW h \in Hosts, FlowForeach(h)
  PROVE  HeldIn(G, running', parked', inputDatas', runs')
<1> DEFINE g == running[h][1]
           x == Head(g.dests)
           stored == inputDatas[g.data.req][x.block]
           ins == With(stored, x.input, g.data)
           a == Advance(g)
<1>1. Flowing(h, "FOREACH") /\ TriggerNormal(h, a, x.block, ins) /\ UNCHANGED inputDatas
  BY DEF FlowForeach, stateVars
<1>2. /\ g.data \in G[h] /\ IsGreenlet(h, a) /\ a.data = g.data /\ Home[x.block] = h
      /\ AllIn(G[h], x.block, stored) /\ Inputs[x.block][x.input] # "LIST"
  <2>1. ("FOREACH" = "MERGE") <=> (Inputs[x.block][x.input] = "LIST")
    BY <1>1, FlowingHeld
  <2> QED BY <1>1, <2>1, FlowingHeld
<1> HIDE DEF g, x, stored, a
<1>3. AllIn(G[h], x.block, ins)
  BY <1>2 DEF AllIn, With
<1> HIDE DEF ins
<1> QED BY <1>1, <1>2, <1>3, TriggerHeld

LEMMA FlowNormalHeld ==
  ASSUME Inv, NEW G, HeldIn(G, running, parked, inputDatas, runs), NEW h \in Hosts, FlowNormal(h)
  PROVE  HeldIn(G, running', parked', inputDatas', runs')
<1> DEFINE g == running[h][1]
           x == Head(g.dests)
           q == g.data.req
           stored == inputDatas[q][x.block]
           ins == With(stored, x.input, g.data)
           a == Advance(g)
<1>1. /\ Flowing(h, "NORMAL")
      /\ \/ running' = [running EXCEPT ![h] = Continue(a)] /\ UNCHANGED <<parked, runs, inputDatas>>
         \/ /\ inputDatas' = [inputDatas EXCEPT ![q][x.block] = ins]
            /\ CountInput(h, a, x.block, ins)
  BY DEF FlowNormal, stateVars
<1>2. /\ g.data \in G[h] /\ IsGreenlet(h, a) /\ a.data = g.data /\ Home[x.block] = h
      /\ AllIn(G[h], x.block, stored) /\ Inputs[x.block][x.input] # "LIST"
  <2>1. ("NORMAL" = "MERGE") <=> (Inputs[x.block][x.input] = "LIST")
    BY <1>1, FlowingHeld
  <2> QED BY <1>1, <2>1, FlowingHeld
<1> HIDE DEF g, x, stored, a, q
<1>3. AllIn(G[h], x.block, ins)
  BY <1>2 DEF AllIn, With
<1> HIDE DEF ins
<1>4. CASE running' = [running EXCEPT ![h] = Continue(a)] /\ UNCHANGED <<parked, runs, inputDatas>>
  <2>1. PICK u \in {<<>>, <<a>>} : running' = [running EXCEPT ![h] = u]
    BY <1>4, ContinueIs
  <2>2. u # <<>> => u[1].data \in G[h]
    BY <1>2, <2>1
  <2> QED BY <1>4, <2>1, <2>2, HeldOnHost
<1>5. CASE /\ inputDatas' = [inputDatas EXCEPT ![q][x.block] = ins]
           /\ CountInput(h, a, x.block, ins)
  <2>1. \A p \in Requests, c \in Blocks :
          inputDatas'[p][c] = inputDatas[p][c] \/ AllIn(G[Home[c]], c, inputDatas'[p][c])
    BY <1>2, <1>3, <1>5, StoresIn DEF Inv
  <2> QED BY <1>2, <1>3, <1>5, <2>1, CountInputHeld
<1> QED BY <1>1, <1>4, <1>5

LEMMA FlowMergeHeld ==
  ASSUME Inv, NEW G, HeldIn(G, running, parked, inputDatas, runs), NEW h \in Hosts, FlowMerge(h)
  PROVE  HeldIn(G, running', parked', inputDatas', runs')
<1> DEFINE g == running[h][1]
           x == Head(g.dests)
           q == g.data.req
           stored == inputDatas[q][x.block]
           a == Advance(g)
<1>0. PICK list : list = IF Cnt \in DOMAIN stored THEN With(ListInput(q, x), g.data.serial, g.data)
                         ELSE ListInput(q, x)
  OBVIOUS
<1> DEFINE ins == With(stored, x.input, list)
<1>1. /\ Flowing(h, "MERGE")
      /\ inputDatas' = [inputDatas EXCEPT ![q][x.block] = ins]
      /\ \/ CountInput(h, a, x.block, ins)
         \/ /\ \/ running' = [running EXCEPT ![h] = Continue(a)]
               \/ running' = [running EXCEPT ![h] = <<>>]
            /\ \/ parked' = parked
               \/ parked' = [parked EXCEPT ![h] = @ \cup {g}]
            /\ UNCHANGED runs
  BY <1>0 DEF FlowMerge
<1>2. /\ g.data \in G[h] /\ IsGreenlet(h, a) /\ a.data = g.data /\ Home[x.block] = h /\ g.call = <<>>
      /\ q \in Requests /\ x.block \in Blocks
      /\ AllIn(G[h], x.block, stored) /\ Inputs[x.block][x.input] = "LIST"
  BY <1>1, FlowingHeld
<1>3. \A n \in DOMAIN list : list[n] \in G[h]
  <2>1. \A n \in DOMAIN ListInput(q, x) : ListInput(q, x)[n] \in G[h]
    <3>1. x.input \in DOMAIN stored => \A n \in DOMAIN stored[x.input] : stored[x.input][n] \in G[h]
      BY <1>2 DEF AllIn
    <3> QED BY <3>1 DEF ListInput, EmptyFn
  <2>2. \A l : (\A n \in DOMAIN l : l[n] \in G[h]) =>
                  \A n \in DOMAIN With(l, g.data.serial, g.data) : With(l, g.data.serial, g.data)[n] \in G[h]
    BY <1>2 DEF With
  <2> HIDE DEF stored, x
  <2> QED BY <1>0, <2>1, <2>2
<1>4. WaitsIn(G[h], g)
  BY <1>2 DEF WaitsIn
<1> HIDE DEF g, x, stored, q
<1>5. AllIn(G[h], x.block, ins)
  BY <1>2, <1>3 DEF AllIn, With
<1> HIDE DEF ins, a
<1>6. \A p \in Requests, c \in Blocks :
        inputDatas'[p][c] = inputDatas[p][c] \/ AllIn(G[Home[c]], c, inputDatas'[p][c])
  BY <1>1, <1>2, <1>5, StoresIn DEF Inv
<1>7. CASE CountInput(h, a, x.block, ins)
  BY <1>2, <1>5, <1>6, <1>7, CountInputHeld
<1>8. CASE /\ \/ running' = [running EXCEPT ![h] = Continue(a)]
              \/ running' = [running EXCEPT ![h] = <<>>]
           /\ \/ parked' = parked
              \/ parked' = [parked EXCEPT ![h] = @ \cup {g}]
           /\ UNCHANGED runs
  <2>1. PICK u \in {<<>>, <<a>>} : running' = [running EXCEPT ![h] = u]
    BY <1>8, ContinueIs
  <2>2. u # <<>> => u[1].data \in G[h]
    BY <1>2, <2>1
  <2>3. \A k \in Hosts : \A e \in parked'[k] : e \in parked[k] \/ (k = h /\ WaitsIn(G[h], e))
    BY <1>4, <1>8 DEF Inv, GreenInv
  <2>4. \A r \in runs' : r \in runs
    BY <1>8
  <2> QED BY <1>6, <2>1, <2>2, <2>3, <2>4, HeldOnHost
<1> QED BY <1>1, <1>7, <1>8

LEMMA ResumeHeld ==
  ASSUME Inv, NEW G, HeldIn(G, running, parked, inputDatas, runs), NEW h \in Hosts, NEW g,
         ResumeMerge(h, g) \/ ResumeTrigger(h, g)
  PROVE  HeldIn(G, running', parked', inputDatas', runs')
<1> DEFINE e == [g EXCEPT !.call = <<>>]
<1>1. /\ g \in parked[h] /\ parked' = [parked EXCEPT ![h] = @ \ {g}]
      /\ \/ running' = [running EXCEPT ![h] = <<g>>]
         \/ running' = [running EXCEPT ![h] = Continue(e)]
      /\ runs' = runs \/ (g.call # <<>> /\ Allocate(g.data.req, g.call[1].block, g.call[1].inputs))
      /\ UNCHANGED inputDatas
  BY DEF ResumeMerge, ResumeTrigger, stateVars
<1>2. e.data = g.data /\ WaitsIn(G[h], g)
  BY <1>1 DEF Inv, GreenInv, IsGreenlet, HeldIn
<1> HIDE DEF e
<1>3. PICK u \in {<<>>, <<g>>, <<e>>} : running' = [running EXCEPT ![h] = u]
  BY <1>1, ContinueIs
<1>4. u # <<>> => u[1].data \in G[h]
  BY <1>2, <1>3 DEF WaitsIn
<1>5. \A r \in runs' : r \in runs \/ AllIn(G[Home[r.block]], r.block, r.inputs)
  <2>1. g.call # <<>> => Home[g.call[1].block] = h
    BY <1>1 DEF Inv, GreenInv, IsCall
  <2> QED BY <1>1, <1>2, <2>1, AllocateHeld DEF WaitsIn
<1>6. \A k \in Hosts : \A w \in parked'[k] : w \in parked[k]
  BY <1>1 DEF Inv, GreenInv
<1> QED BY <1>1, <1>3, <1>4, <1>5, <1>6, HeldOnHost

-----------------------------------------------------------------------------
(* What a host holds is registered with its flow monitor                   *)

Registered(h, d) == ByReference(d) => Key(d) \in DOMAIN deps[h]
RegisteredAt == [h \in Hosts |-> {d \in Data : Registered(h, d)}]
RegisteredInv == HeldIn(RegisteredAt, running, parked, inputDatas, runs)

(* The destination's step of the running greenlet, or none.                *)
LEMMA MovesOnHeld ==
  ASSUME Inv, NEW G, HeldIn(G, running, parked, inputDatas, runs), NEW h \in Hosts, NEW w,
         running' = [running EXCEPT ![h] = Continue(w)], ForwardedFrom(w.data) \/ w.data \in G[h],
         UNCHANGED <<parked, inputDatas, runs>>
  PROVE  HeldIn(G, running', parked', inputDatas', runs')
<1>1. PICK u \in {<<>>, <<w>>} : running' = [running EXCEPT ![h] = u]
  BY ContinueIs
<1>2. u # <<>> => ForwardedFrom(u[1].data) \/ u[1].data \in G[h]
  BY <1>1
<1> QED BY <1>1, <1>2, HeldOnHost

LEMMA SendsHeld ==
  ASSUME Inv, NEW G, HeldIn(G, running, parked, inputDatas, runs), NEW h \in Hosts,
         ToUser(h) \/ ToRemote(h)
  PROVE  HeldIn(G, running', parked', inputDatas', runs')
<1> DEFINE g == running[h][1]
           b == Head(g.dests).block
           e == [g EXCEPT !.sent = @ \cup {Home[b]}]
<1>1. /\ running[h] # <<>> /\ UNCHANGED <<parked, inputDatas, runs>>
      /\ \/ running' = [running EXCEPT ![h] = Continue(Advance(g))]
         \/ running' = [running EXCEPT ![h] = Continue(Advance(e))]
  BY DEF ToUser, ToRemote, stateVars
<1>2. IsGreenlet(h, g)
  BY <1>1 DEF Inv, GreenInv
<1>3. Advance(g).data = g.data /\ Advance(e).data = g.data
  BY <1>2 DEF Advance, IsGreenlet
<1>4. ForwardedFrom(g.data) \/ g.data \in G[h]
  BY <1>1 DEF HeldIn
<1> HIDE DEF g, e
<1> QED BY <1>1, <1>3, <1>4, MovesOnHeld

LEMMA RequestInfoHeld ==
  ASSUME Inv, NEW G, HeldIn(G, running, parked, inputDatas, runs), NEW h \in Hosts, NEW q \in Requests,
         RequestInfo(h, q)
  PROVE  HeldIn(G, running', parked', inputDatas', runs')
<1>1. UNCHANGED <<runs, running, parked>>
  BY DEF RequestInfo, greenVars
<1>2. \A p \in Requests, b \in Blocks : inputDatas'[p][b] = EmptyFn \/ inputDatas'[p][b] = inputDatas[p][b]
  BY DEF RequestInfo, Inv, StateInv
<1>3. \A S, b : AllIn(S, b, EmptyFn)
  BY DEF AllIn, EmptyFn
<1>4. \A p \in Requests, b \in Blocks : AllIn(G[Home[b]], b, inputDatas'[p][b])
  BY <1>2, <1>3 DEF HeldIn
<1> QED BY <1>1, <1>4 DEF HeldIn

LEMMA RunStepHeld ==
  ASSUME Inv, NEW G, HeldIn(G, running, parked, inputDatas, runs), NEW r \in runs,
         StartRun(r) \/ Fetch(r) \/ Post(r) \/ CountFails(r) \/ Upload(r) \/ Crash(r)
  PROVE  HeldIn(G, running', parked', inputDatas', runs')
<1>1. UNCHANGED <<running, parked, inputDatas>>
  BY DEF StartRun, Fetch, Post, CountFails, Upload, Crash, greenVars, stateVars
<1>2. PICK r2 : Become(r, r2) /\ r2.block = r.block /\ r2.inputs = r.inputs
  BY RunStepIs
<1>3. \A s \in runs' : AllIn(G[Home[s.block]], s.block, s.inputs)
  BY <1>2 DEF Become, HeldIn
<1> QED BY <1>1, <1>3 DEF HeldIn

(* Dispatch registers the datum on a host with work for it.                *)
LEMMA DispatchRegisters ==
  ASSUME Inv, KeysInv, NEW h \in Hosts, Dispatch(h), NEW d, d = Head(queue[h])
  PROVE  /\ d \in Data
         /\ running' = [running EXCEPT ![h] = Continue(Greenlet(h, d))] /\ Greenlet(h, d).data = d
         /\ ForwardedFrom(d) \/ Registered(h, d)'
         /\ UNCHANGED <<parked, inputDatas, runs>>
<1>1. d \in Data
  BY InboxTail DEF Dispatch, Inv, InboxInv
<1>2. Greenlet(h, d).data = d
  BY <1>1, GreenletDue
<1>3. /\ running' = [running EXCEPT ![h] = Continue(Greenlet(h, d))]
      /\ (d.kind = "redis" \/ (d.kind = "kafka" /\ ~d.fromLocal)) =>
            deps' = [deps EXCEPT ![h] = With(@, Key(d), Counted(h, d))]
      /\ UNCHANGED <<parked, inputDatas, runs>>
  BY DEF Dispatch, stateVars
<1>4. ASSUME ~ForwardedFrom(d), ByReference(d) PROVE Key(d) \in DOMAIN deps'[h]
  <2>1. PICK k, v : k = Key(d) /\ deps' = [deps EXCEPT ![h] = With(@, k, v)]
    BY <1>1, <1>3, <1>4 DEF ForwardedFrom, ByReference
  <2>2. DOMAIN With(deps[h], k, v) = DOMAIN deps[h] \cup {k}
    BY WithIs
  <2>3. DOMAIN deps = Hosts
    BY DEF KeysInv
  <2>4. deps'[h] = With(deps[h], k, v)
    BY <2>1, <2>3
  <2>5. k \in DOMAIN deps'[h]
    BY <2>2, <2>4
  <2> QED BY <2>1, <2>5
<1>5. ForwardedFrom(d) \/ Registered(h, d)'
  BY <1>4 DEF Registered
<1> QED BY <1>1, <1>2, <1>3, <1>5

(* No key is removed: reclaiming it is the flow monitor's.                 *)
LEMMA KeysGrow ==
  ASSUME KeysInv, [Next]_vars
  PROVE  \A h \in Hosts : DOMAIN deps[h] \subseteq DOMAIN deps'[h]
<1>1. ASSUME NEW h \in Hosts, DispatchFetched(h) PROVE SameKeys
  BY <1>1 DEF DispatchFetched, SameKeys, KeysInv
<1>2. ASSUME NEW h \in Hosts, Dispatch(h)
      PROVE  UNCHANGED deps \/ \E k, v : deps' = [deps EXCEPT ![h] = With(@, k, v)]
  BY <1>2 DEF Dispatch
<1>3. ASSUME NEW h \in Hosts, NEW k, NEW v, deps' = [deps EXCEPT ![h] = With(@, k, v)]
      PROVE  \A g \in Hosts : DOMAIN deps[g] \subseteq DOMAIN deps'[g]
  <2>1. DOMAIN With(deps[h], k, v) = DOMAIN deps[h] \cup {k}
    BY WithIs
  <2> QED BY <1>3, <2>1 DEF KeysInv
<1>4. UNCHANGED deps \/ \E h \in Hosts : DispatchFetched(h) \/ Dispatch(h)
  BY DEF Next, Step, Fault, vars, keyVars, Run, SendInputs, Answer, PostUserData, RequestInfo,
         TransferData, SocketServer, ToUser, ToRemote, FlowForeach, FlowMerge, FlowNormal,
         PrefetchData, ResumeMerge, ResumeTrigger, StartRun, Fetch, Post, CountFails, Upload,
         LosePost, LosePrefetch, Crash
<1> QED BY <1>1, <1>2, <1>3, <1>4 DEF SameKeys

LEMMA NextRegistered ==
  ASSUME IInv, RegisteredInv, [Next]_vars PROVE RegisteredInv'
<1>1. Inv /\ KeysInv
  BY DEF IInv, DeliveryInv, AheadInv
<1>2. PICK G : G = RegisteredAt'
  OBVIOUS
<1>3. HeldIn(G, running, parked, inputDatas, runs)
  <2>1. \A h \in Hosts : DOMAIN deps[h] \subseteq DOMAIN deps'[h]
    BY <1>1, KeysGrow
  <2>2. \A h \in Hosts : RegisteredAt[h] \subseteq G[h]
    BY <1>2, <2>1 DEF RegisteredAt, Registered
  <2>3. RunInv
    BY <1>1 DEF Inv
  <2> QED BY <2>2, <2>3, HeldInMore DEF RegisteredInv
<1> DEFINE Done == HeldIn(G, running', parked', inputDatas', runs')
<1>4. ASSUME UNCHANGED <<running, parked, inputDatas, runs>> PROVE Done
  BY <1>3, <1>4
<1> SUFFICES Done
  BY <1>2 DEF RegisteredInv
<1> HIDE DEF Done
<1>5. ASSUME NEW h \in Hosts, NEW q \in Requests, RequestInfo(h, q) PROVE Done
  BY <1>1, <1>3, <1>5, RequestInfoHeld DEF Done
<1>6. ASSUME NEW h \in Hosts, Dispatch(h) PROVE Done
  <2>1. PICK d : d = Head(queue[h])
    OBVIOUS
  <2>2. /\ d \in Data
        /\ ForwardedFrom(d) \/ Registered(h, d)'
        /\ running' = [running EXCEPT ![h] = Continue(Greenlet(h, d))] /\ Greenlet(h, d).data = d
        /\ UNCHANGED <<parked, inputDatas, runs>>
    BY <1>1, <1>6, <2>1, DispatchRegisters
  <2>3. G[h] = {e \in Data : Registered(h, e)'}
    BY <1>2 DEF RegisteredAt
  <2>4. ForwardedFrom(d) \/ d \in G[h]
    BY <2>2, <2>3
  <2>5. PICK w : running' = [running EXCEPT ![h] = Continue(w)] /\ w.data = d
    BY <2>2
  <2> QED BY <1>1, <1>3, <2>2, <2>4, <2>5, MovesOnHeld DEF Done
<1>7. ASSUME NEW h \in Hosts, ToUser(h) \/ ToRemote(h) PROVE Done
  BY <1>1, <1>3, <1>7, SendsHeld DEF Done
<1>8. ASSUME NEW h \in Hosts, FlowForeach(h) \/ FlowMerge(h) \/ FlowNormal(h) PROVE Done
  BY <1>1, <1>3, <1>8, FlowForeachHeld, FlowMergeHeld, FlowNormalHeld DEF Done
<1>9. ASSUME NEW h \in Hosts, NEW g, ResumeMerge(h, g) \/ ResumeTrigger(h, g) PROVE Done
  BY <1>1, <1>3, <1>9, ResumeHeld DEF Done
<1>10. ASSUME NEW r \in runs, StartRun(r) \/ Fetch(r) \/ Post(r) \/ CountFails(r) \/ Upload(r) \/ Crash(r)
       PROVE  Done
  BY <1>1, <1>3, <1>10, RunStepHeld DEF Done
<1>11. ASSUME NEW q \in Requests, Run(q) \/ SendInputs(q) \/ Answer(q) \/ PostUserData(q) PROVE Done
  BY <1>4, <1>11 DEF Run, SendInputs, Answer, PostUserData, greenVars, stateVars
<1>12. ASSUME NEW m \in dataNet, TransferData(m) PROVE Done
  BY <1>4, <1>12 DEF TransferData, greenVars, stateVars
<1>13. ASSUME NEW h \in Hosts, SocketServer(h) \/ DispatchFetched(h) PROVE Done
  BY <1>4, <1>13 DEF SocketServer, DispatchFetched, greenVars, stateVars
<1>14. ASSUME NEW h \in Hosts, NEW k, PrefetchData(h, k) \/ LosePrefetch(h, k) PROVE Done
  BY <1>4, <1>14 DEF PrefetchData, LosePrefetch, greenVars, stateVars
<1>15. CASE LosePost
  BY <1>4, <1>15 DEF LosePost, greenVars, stateVars
<1>16. CASE UNCHANGED vars
  BY <1>4, <1>16 DEF vars, greenVars, stateVars
<1>17. CASE Step
  BY <1>5, <1>6, <1>7, <1>8, <1>9, <1>10, <1>11, <1>12, <1>13, <1>14, <1>17 DEF Step
<1>18. CASE Fault
  BY <1>10, <1>14, <1>15, <1>18 DEF Fault
<1> QED BY <1>16, <1>17, <1>18 DEF Next

(* The large inputs of a run or a call are among what its host holds.      *)
LEMMA ReferencesHeld ==
  ASSUME NEW q, NEW b, NEW ins, IsInputs(q, b, ins), Indexed(b, ins), NEW S, AllIn(S, b, ins)
  PROVE  ReferencesIn(b, ins) \subseteq S
<1> SUFFICES ASSUME NEW d \in ReferencesIn(b, ins) PROVE d \in S
  OBVIOUS
<1>1. PICK i \in DOMAIN ins : d \in Range(ItemsOf(b, ins, i))
  BY DEF ReferencesIn
<1>2. CASE Inputs[b][i] # "LIST"
  <2>1. ItemsOf(b, ins, i) = <<ins[i]>>
    BY <1>2 DEF ItemsOf
  <2>2. d = ins[i]
    BY <1>1, <2>1 DEF Range
  <2> QED BY <1>2, <2>2 DEF AllIn
<1>3. CASE Inputs[b][i] = "LIST"
  <2> DEFINE C == Cardinality(DOMAIN ins[i])
  <2>1. IsFiniteSet(DOMAIN ins[i])
    BY <1>3 DEF IsInputs, IsList
  <2>2. C \in Nat /\ DOMAIN ins[i] = 0..(C - 1)
    BY <1>3, <2>1, FS_CardinalityType DEF Indexed
  <2>3. ItemsOf(b, ins, i) = [n \in 1..C |-> ins[i][n - 1]]
    BY <1>3 DEF ItemsOf
  <2> HIDE DEF C
  <2>4. PICK n \in 1..C : d = ins[i][n - 1]
    BY <1>1, <2>3 DEF Range
  <2>5. n - 1 \in DOMAIN ins[i]
    BY <2>2, <2>4
  <2> QED BY <1>3, <2>4, <2>5 DEF AllIn
<1> QED BY <1>2, <1>3

-----------------------------------------------------------------------------
(* What a run has still to read                                            *)

Reads(r) ==
  /\ r.reads \in Seq(ReferencesIn(r.block, r.inputs)) /\ IsInjective(r.reads)
  /\ r.state = "queued" => r.reads = <<>>
ReadsInv == \A r \in runs : Reads(r)
SerialInv == \A r \in runs : r.serial = BlockSerial(r.block, r.inputs)
PrefetchInv ==
  /\ DOMAIN prefetch = Hosts
  /\ \A h \in Hosts : Range(prefetch[h]) \subseteq {"running", "done", "dead"}
  /\ \A r \in runs : Prefetched(Home[r.block], r.block, r.inputs)

(* r has read the datum of key k, r2 is r with the same inputs.            *)
ReadBy(r, k) ==
  /\ r.state # "queued"
  /\ \E d \in ReferencesIn(r.block, r.inputs) : Key(d) = k
  /\ \A d \in Range(r.reads) : Key(d) # k
Follows(r, r2) ==
  r2.req = r.req /\ r2.block = r.block /\ r2.serial = r.serial /\ r2.inputs = r.inputs

LEMMA TailOnce ==
  ASSUME NEW S, NEW s \in Seq(S), IsInjective(s), s # <<>>
  PROVE  /\ Tail(s) \in Seq(S) /\ IsInjective(Tail(s)) /\ Head(s) \in S
         /\ Range(s) = Range(Tail(s)) \cup {Head(s)} /\ Head(s) \notin Range(Tail(s))
<1> DEFINE t == Tail(s)
<1>1. /\ t \in Seq(S) /\ Len(t) = Len(s) - 1 /\ Len(s) \in Nat /\ Len(s) >= 1 /\ Head(s) = s[1]
      /\ \A i \in 1..Len(t) : t[i] = s[i + 1]
      /\ DOMAIN s = 1..Len(s) /\ DOMAIN t = 1..Len(t) /\ s[1] \in S
  OBVIOUS
<1> HIDE DEF t
<1>2. \A i, j \in 1..Len(s) : s[i] = s[j] => i = j
  BY <1>1 DEF IsInjective
<1>3. IsInjective(t)
  <2> SUFFICES ASSUME NEW i \in 1..Len(t), NEW j \in 1..Len(t), t[i] = t[j] PROVE i = j
    BY <1>1 DEF IsInjective
  <2>1. i + 1 \in 1..Len(s) /\ j + 1 \in 1..Len(s) /\ s[i + 1] = s[j + 1]
    BY <1>1
  <2>2. i + 1 = j + 1
    BY <1>2, <2>1
  <2> QED BY <2>2
<1>4. ASSUME NEW i \in 1..Len(t) PROVE t[i] # s[1] /\ t[i] \in Range(s)
  <2>1. i + 1 \in 1..Len(s) /\ i + 1 # 1 /\ 1 \in 1..Len(s) /\ t[i] = s[i + 1]
    BY <1>1
  <2>2. s[i + 1] # s[1]
    BY <1>2, <2>1
  <2> QED BY <1>1, <2>1, <2>2 DEF Range
<1>5. ASSUME NEW i \in 1..Len(s), i # 1 PROVE s[i] \in Range(t)
  <2>1. i - 1 \in 1..Len(t) /\ t[i - 1] = s[i]
    BY <1>1, <1>5
  <2> QED BY <1>1, <2>1 DEF Range
<1>6. s[1] \in Range(s)
  BY <1>1 DEF Range
<1>7. Range(s) = Range(t) \cup {s[1]}
  BY <1>1, <1>4, <1>5, <1>6 DEF Range
<1>8. s[1] \notin Range(t)
  BY <1>1, <1>4 DEF Range
<1> QED BY <1>1, <1>3, <1>7, <1>8 DEF t

(* A run that neither reads nor starts has still the same to read.         *)
LEMMA SameReads ==
  ASSUME NEW r, NEW r2, Follows(r, r2), r2.reads = r.reads, r2.state = "queued" <=> r.state = "queued", Reads(r)
  PROVE  Reads(r2) /\ \A k : ReadBy(r2, k) <=> ReadBy(r, k)
BY DEF Follows, Reads, ReadBy

LEMMA QuietStep ==
  ASSUME IInv, NEW r \in runs, Reads(r), Indexed(r.block, r.inputs), DOMAIN r.inputs = DOMAIN Inputs[r.block],
         StartRun(r) \/ Post(r) \/ CountFails(r) \/ Upload(r) \/ Crash(r)
  PROVE  /\ UNCHANGED <<queue, deps, prefetch>>
         /\ UNCHANGED backlog \/ \E d \in Data : Send(Home[r.block], d)
         /\ \E r2 : Become(r, r2) /\ Follows(r, r2) /\ Reads(r2) /\ \A k : ReadBy(r2, k) <=> ReadBy(r, k)
<1>1. Inv /\ IsRun(r) /\ PostsOnce(r)
  BY RunType DEF IInv, HistoryInv, PostInv
<1>2. UNCHANGED <<queue, deps, prefetch>>
  BY DEF StartRun, Post, CountFails, Upload, Crash, inboxVars, keyVars
<1>3. UNCHANGED backlog \/ \E d \in Data : Send(Home[r.block], d)
  <2>1. CASE StartRun(r) \/ CountFails(r) \/ Crash(r)
    BY <2>1 DEF StartRun, CountFails, Crash, inboxVars
  <2>2. CASE Upload(r)
    <3>1. Head(r.uploads) \in Data
      BY <1>1, <2>2 DEF Upload, IsRun
    <3> QED BY <2>2, <3>1 DEF Upload
  <2>3. CASE Post(r)
    <3>1. PICK k \in {"direct", "redis", "kafka"} :
            UNCHANGED backlog \/ (Send(Home[r.block], NextDatum(r, k)) /\ (k # "direct" => Head(r.posts) \in Big))
      BY <2>3 DEF Post
    <3>2. r.posts # <<>> /\ ~NoItems(r)
      BY <2>3 DEF Post
    <3> QED BY <1>1, <3>1, <3>2, NextDatumType
  <2> QED BY <2>1, <2>2, <2>3
<1>4. CASE StartRun(r)
  <2>1. RunInv
    BY <1>1 DEF Inv
  <2>2. PICK r2 : /\ Become(r, r2) /\ r2.req = r.req /\ r2.block = r.block
                  /\ r2.serial = r.serial /\ r2.inputs = r.inputs /\ r2.state = "started"
                  /\ r2.reads \in Seq(ReferencesIn(r.block, r.inputs))
                  /\ Range(r2.reads) = ReferencesIn(r.block, r.inputs) /\ IsInjective(r2.reads)
    BY <1>4, <2>1, StartRunReads
  <2>3. r.state = "queued"
    BY <1>4 DEF StartRun
  <2>4. Follows(r, r2) /\ Reads(r2) /\ \A k : ~ReadBy(r2, k) /\ ~ReadBy(r, k)
    BY <2>2, <2>3 DEF Follows, Reads, ReadBy
  <2> QED BY <1>2, <1>3, <2>2, <2>4
<1>5. ASSUME NEW r2, Become(r, r2), Follows(r, r2), r2.reads = r.reads, r2.state = "queued" <=> r.state = "queued"
      PROVE  \E w : Become(r, w) /\ Follows(r, w) /\ Reads(w) /\ \A k : ReadBy(w, k) <=> ReadBy(r, k)
  BY <1>5, SameReads
<1>6. CASE CountFails(r)
  <2> DEFINE w == [r EXCEPT !.state = "failed", !.posts = <<>>]
  <2>1. Become(r, w) /\ Follows(r, w) /\ w.reads = r.reads /\ w.state = "failed"
    BY <1>1, <1>6 DEF CountFails, IsRun, Follows
  <2>2. r.state # "queued"
    BY <1>1, <1>6 DEF CountFails, PostsOnce
  <2> HIDE DEF w
  <2> QED BY <1>2, <1>3, <1>5, <2>1, <2>2
<1>7. CASE Upload(r)
  <2> DEFINE w == [r EXCEPT !.uploads = Tail(@)]
  <2>1. Become(r, w) /\ Follows(r, w) /\ w.reads = r.reads /\ w.state = r.state
    BY <1>1, <1>7 DEF Upload, IsRun, Follows
  <2> HIDE DEF w
  <2> QED BY <1>2, <1>3, <1>5, <2>1
<1>8. CASE Crash(r)
  <2>1. PICK u : Become(r, [r EXCEPT !.state = "crashed", !.posts = <<>>, !.uploads = u])
    BY <1>8 DEF Crash
  <2> DEFINE w == [r EXCEPT !.state = "crashed", !.posts = <<>>, !.uploads = u]
  <2>2. Become(r, w) /\ Follows(r, w) /\ w.reads = r.reads /\ w.state = "crashed" /\ r.state = "started"
    BY <1>1, <1>8, <2>1 DEF Crash, IsRun, Follows
  <2> HIDE DEF w
  <2> QED BY <1>2, <1>3, <1>5, <2>2
<1>9. CASE Post(r)
  <2> DEFINE w == [r EXCEPT !.posts = Tail(@), !.posted = Append(@, Head(r.posts))]
             v == [w EXCEPT !.uploads = Append(@, NextDatum(r, "kafka"))]
  <2>1. /\ Follows(r, w) /\ w.reads = r.reads /\ w.state = r.state
        /\ Follows(r, v) /\ v.reads = r.reads /\ v.state = r.state
    BY <1>1 DEF IsRun, Follows
  <2>2. Become(r, w) \/ Become(r, v)
    BY <1>9 DEF Post
  <2> HIDE DEF w, v
  <2> QED BY <1>2, <1>3, <1>5, <2>1, <2>2
<1> QED BY <1>4, <1>6, <1>7, <1>8, <1>9

LEMMA FetchStep ==
  ASSUME Inv, NEW r \in runs, Reads(r), Fetch(r)
  PROVE  /\ UNCHANGED <<queue, deps, prefetch>> /\ r.reads # <<>> /\ r.state # "queued"
         /\ Send(Home[r.block], Report(r, Head(r.reads)))
         /\ \E r2 : /\ Become(r, r2) /\ Follows(r, r2) /\ Reads(r2)
                    /\ r2.state = r.state /\ r2.reads = Tail(r.reads)
<1>1. IsRun(r)
  BY RunType
<1>2. UNCHANGED <<queue, deps, prefetch>> /\ r.reads # <<>> /\ Send(Home[r.block], Report(r, Head(r.reads)))
  BY DEF Fetch, keyVars
<1>3. r.state # "queued"
  BY <1>2 DEF Reads
<1> DEFINE w == [r EXCEPT !.reads = Tail(@)]
<1>4. Become(r, w) /\ Follows(r, w) /\ w.state = r.state /\ w.reads = Tail(r.reads)
  BY <1>1 DEF Fetch, IsRun, Follows
<1>5. Reads(w)
  <2>1. Tail(r.reads) \in Seq(ReferencesIn(r.block, r.inputs)) /\ IsInjective(Tail(r.reads))
    BY <1>2, TailOnce DEF Reads
  <2> HIDE DEF w
  <2> QED BY <1>3, <1>4, <2>1 DEF Reads, Follows
<1> QED BY <1>2, <1>3, <1>4, <1>5

-----------------------------------------------------------------------------
(* How runs and prefetches change                                          *)

Queued(r) ==
  /\ r.state = "queued" /\ r.reads = <<>> /\ r.serial = BlockSerial(r.block, r.inputs)
  /\ Prefetched(Home[r.block], r.block, r.inputs)

LEMMA AllocatesQueued ==
  ASSUME NEW q, NEW b, NEW ins, Allocate(q, b, ins), Prefetched(Home[b], b, ins)
  PROVE  \E r : runs' = runs \cup {r} /\ Queued(r)
<1> DEFINE before == {r \in runs : r.req = q /\ r.block = b /\ r.serial = BlockSerial(b, ins)}
<1>1. PICK n : n = Cardinality(before) + 1
  OBVIOUS
<1> HIDE DEF before
<1>2. PICK r : r = [req |-> q, block |-> b, serial |-> BlockSerial(b, ins), nth |-> n,
                    inputs |-> ins, state |-> "queued", reads |-> <<>>, posts |-> <<>>,
                    posted |-> <<>>, uploads |-> <<>>]
  OBVIOUS
<1>3. runs' = runs \cup {r}
  BY <1>1, <1>2 DEF Allocate, before
<1>4. Queued(r)
  BY <1>2 DEF Queued
<1> QED BY <1>3, <1>4

(* A block is handed out by the host it is placed on, when what it reads   *)
(* from other hosts is on disk there.                                      *)
LEMMA FlowAllocates ==
  ASSUME Inv, NEW h \in Hosts, NEW g,
         FlowForeach(h) \/ FlowMerge(h) \/ FlowNormal(h) \/ ResumeMerge(h, g) \/ ResumeTrigger(h, g)
  PROVE  UNCHANGED runs \/ \E r : runs' = runs \cup {r} /\ Queued(r)
<1>1. ASSUME NEW e, NEW b, Home[b] = h, NEW ins, TriggerNormal(h, e, b, ins) \/ CountInput(h, e, b, ins)
      PROVE  UNCHANGED runs \/ \E r : runs' = runs \cup {r} /\ Queued(r)
  <2>1. UNCHANGED runs \/ (Allocate(e.data.req, b, ins) /\ Prefetched(h, b, ins))
    BY <1>1 DEF TriggerNormal, CountInput
  <2> QED BY <1>1, <2>1, AllocatesQueued
<1>2. CASE FlowForeach(h) \/ FlowMerge(h) \/ FlowNormal(h)
  <2> DEFINE b == Head(running[h][1].dests).block
  <2>1. UNCHANGED runs \/ \E e, ins : TriggerNormal(h, e, b, ins) \/ CountInput(h, e, b, ins)
    BY <1>2 DEF FlowForeach, FlowMerge, FlowNormal
  <2>2. Home[b] = h
    BY <1>2 DEF FlowForeach, FlowMerge, FlowNormal, Flowing
  <2> HIDE DEF b
  <2> QED BY <1>1, <2>1, <2>2
<1>3. CASE ResumeMerge(h, g)
  BY <1>3 DEF ResumeMerge
<1>4. CASE ResumeTrigger(h, g)
  <2>1. /\ Allocate(g.data.req, g.call[1].block, g.call[1].inputs)
        /\ Prefetched(h, g.call[1].block, g.call[1].inputs) /\ g \in parked[h] /\ g.call # <<>>
    BY <1>4 DEF ResumeTrigger
  <2>2. Home[g.call[1].block] = h
    BY <2>1 DEF Inv, GreenInv, IsCall
  <2> QED BY <2>1, <2>2, AllocatesQueued
<1> QED BY <1>2, <1>3, <1>4

LEMMA RunsChange ==
  ASSUME Inv, [Next]_vars
  PROVE  \/ UNCHANGED runs
         \/ UNCHANGED <<backlog, queue, deps, prefetch>> /\ \E r : runs' = runs \cup {r} /\ Queued(r)
         \/ \E r \in runs : \/ Fetch(r)
                            \/ StartRun(r) \/ Post(r) \/ CountFails(r) \/ Upload(r) \/ Crash(r)
<1> DEFINE Done == \/ UNCHANGED runs
                   \/ UNCHANGED <<backlog, queue, deps, prefetch>> /\ \E r : runs' = runs \cup {r} /\ Queued(r)
                   \/ \E r \in runs : \/ Fetch(r)
                                      \/ StartRun(r) \/ Post(r) \/ CountFails(r) \/ Upload(r) \/ Crash(r)
<1> SUFFICES Done
  OBVIOUS
<1>1. ASSUME NEW h \in Hosts, NEW g,
             FlowForeach(h) \/ FlowMerge(h) \/ FlowNormal(h) \/ ResumeMerge(h, g) \/ ResumeTrigger(h, g)
      PROVE  Done
  <2>1. UNCHANGED <<backlog, queue, deps, prefetch>>
    BY <1>1 DEF FlowForeach, FlowMerge, FlowNormal, ResumeMerge, ResumeTrigger, inboxVars, keyVars
  <2> QED BY <1>1, <2>1, FlowAllocates
<1>2. ASSUME NEW r \in runs, StartRun(r) \/ Fetch(r) \/ Post(r) \/ CountFails(r) \/ Upload(r) \/ Crash(r)
      PROVE  Done
  BY <1>2
<1>3. ASSUME UNCHANGED runs PROVE Done
  BY <1>3
<1> HIDE DEF Done
<1>4. CASE Step
  BY <1>1, <1>2, <1>3, <1>4 DEF Step, Run, SendInputs, Answer, PostUserData, RequestInfo,
     TransferData, SocketServer, DispatchFetched, Dispatch, ToUser, ToRemote, PrefetchData
<1>5. CASE Fault
  BY <1>2, <1>3, <1>5 DEF Fault, LosePost, LosePrefetch
<1>6. CASE UNCHANGED vars
  BY <1>3, <1>6 DEF vars
<1> QED BY <1>4, <1>5, <1>6 DEF Next

(* A prefetch that is done stays done.                                     *)
LEMMA PrefetchesStay ==
  ASSUME PrefetchInv, [Next]_vars
  PROVE  /\ DOMAIN prefetch' = Hosts
         /\ \A h \in Hosts : Range(prefetch'[h]) \subseteq {"running", "done", "dead"}
         /\ \A h \in Hosts : \A k \in DOMAIN prefetch[h] :
              prefetch[h][k] = "done" => k \in DOMAIN prefetch'[h] /\ prefetch'[h][k] = "done"
<1>1. PICK V : V = {"running", "done", "dead"}
  OBVIOUS
<1>2. DOMAIN prefetch = Hosts /\ \A h \in Hosts : \A k \in DOMAIN prefetch[h] : prefetch[h][k] \in V
  BY <1>1 DEF PrefetchInv, Range
<1>3. ASSUME NEW h \in Hosts, NEW k, PrefetchData(h, k) \/ LosePrefetch(h, k)
      PROVE  \E v \in V : /\ prefetch' = [prefetch EXCEPT ![h][k] = v] /\ prefetch[h][k] = "running"
  BY <1>1, <1>3 DEF PrefetchData, LosePrefetch
<1>4. ASSUME NEW h \in Hosts, Dispatch(h)
      PROVE  \/ UNCHANGED prefetch
             \/ \E k : k \notin DOMAIN prefetch[h] /\ prefetch' = [prefetch EXCEPT ![h] = With(@, k, "running")]
  BY <1>4 DEF Dispatch
<1>5. \/ UNCHANGED prefetch
      \/ \E h \in Hosts : Dispatch(h)
      \/ \E h \in Hosts : \E k \in DOMAIN prefetch[h] : PrefetchData(h, k) \/ LosePrefetch(h, k)
  BY DEF Next, Step, Fault, vars, keyVars, Run, SendInputs, Answer, PostUserData, RequestInfo,
         TransferData, SocketServer, DispatchFetched, ToUser, ToRemote, FlowForeach, FlowMerge, FlowNormal,
         ResumeMerge, ResumeTrigger, StartRun, Fetch, Post, CountFails, Upload, LosePost, Crash
<1> DEFINE Done == /\ DOMAIN prefetch' = Hosts
                   /\ \A h \in Hosts : \A k \in DOMAIN prefetch'[h] : prefetch'[h][k] \in V
                   /\ \A h \in Hosts : \A k \in DOMAIN prefetch[h] :
                        prefetch[h][k] = "done" => k \in DOMAIN prefetch'[h] /\ prefetch'[h][k] = "done"
<1>6. ASSUME NEW h \in Hosts, NEW k \in DOMAIN prefetch[h], NEW v \in V,
             prefetch' = [prefetch EXCEPT ![h][k] = v], prefetch[h][k] = "running"
      PROVE  Done
  BY <1>2, <1>6
<1>7. ASSUME NEW h \in Hosts, NEW k, k \notin DOMAIN prefetch[h],
             prefetch' = [prefetch EXCEPT ![h] = With(@, k, "running")]
      PROVE  Done
  <2> DEFINE f == With(prefetch[h], k, "running")
  <2>2. /\ DOMAIN f = DOMAIN prefetch[h] \cup {k} /\ f[k] = "running"
        /\ \A y \in DOMAIN prefetch[h] : f[y] = prefetch[h][y]
    BY <1>7 DEF With
  <2>3. prefetch' = [prefetch EXCEPT ![h] = f]
    BY <1>7
  <2>4. "running" \in V
    BY <1>1
  <2> HIDE DEF f
  <2> QED BY <1>2, <1>7, <2>2, <2>3, <2>4
<1>8. Done
  <2>1. CASE UNCHANGED prefetch
    BY <1>2, <2>1
  <2> HIDE DEF Done
  <2> QED BY <1>3, <1>4, <1>5, <1>6, <1>7, <2>1
<1> QED BY <1>1, <1>8 DEF Range

LEMMA NextReads ==
  ASSUME IInv, RunsComplete, WholeInv, ReadsInv, SerialInv, PrefetchInv, [Next]_vars
  PROVE  ReadsInv' /\ SerialInv' /\ PrefetchInv'
<1>1. Inv /\ RunInv
  BY DEF IInv, Inv
<1>2. \A h \in Hosts : \A b, ins : Prefetched(h, b, ins) => Prefetched(h, b, ins)'
  BY PrefetchesStay DEF Prefetched
<1>3. /\ DOMAIN prefetch' = Hosts
      /\ \A h \in Hosts : Range(prefetch'[h]) \subseteq {"running", "done", "dead"}
  BY PrefetchesStay
<1>4. \A r \in runs : Prefetched(Home[r.block], r.block, r.inputs)'
  <2>1. \A r \in runs : Home[r.block] \in Hosts
    BY <1>1, HomeType DEF RunInv, IsRun
  <2> QED BY <1>2, <2>1 DEF PrefetchInv
<1> DEFINE Good(r) == Reads(r) /\ r.serial = BlockSerial(r.block, r.inputs) /\ Prefetched(Home[r.block], r.block, r.inputs)'
<1> SUFFICES \A r \in runs' : Good(r)
  BY <1>3 DEF ReadsInv, SerialInv, PrefetchInv
<1>5. \A r \in runs : Good(r)
  BY <1>4 DEF ReadsInv, SerialInv
<1>6. ASSUME NEW r, Queued(r), UNCHANGED prefetch PROVE Good(r)
  <2>1. Prefetched(Home[r.block], r.block, r.inputs)'
    BY <1>6 DEF Queued, Prefetched
  <2>2. Reads(r)
    <3>1. \A S : <<>> \in Seq(S)
      OBVIOUS
    <3>2. IsInjective(<<>>)
      BY DEF IsInjective
    <3> QED BY <1>6, <3>1, <3>2 DEF Queued, Reads
  <2> QED BY <1>6, <2>1, <2>2 DEF Queued
<1>7. ASSUME NEW r \in runs, NEW r2, Follows(r, r2), Reads(r2) PROVE Good(r2)
  BY <1>5, <1>7 DEF Follows
<1>8. ASSUME NEW r \in runs PROVE Indexed(r.block, r.inputs) /\ DOMAIN r.inputs = DOMAIN Inputs[r.block] /\ Reads(r)
  BY <1>1, WholeIndexed DEF WholeInv, RunsComplete, ReadsInv
<1>9. ASSUME NEW r \in runs, Fetch(r) \/ StartRun(r) \/ Post(r) \/ CountFails(r) \/ Upload(r) \/ Crash(r)
      PROVE  \E r2 : Become(r, r2) /\ Follows(r, r2) /\ Reads(r2)
  BY <1>1, <1>8, <1>9, QuietStep, FetchStep
<1> HIDE DEF Good
<1>10. ASSUME NEW r \in runs, Fetch(r) \/ StartRun(r) \/ Post(r) \/ CountFails(r) \/ Upload(r) \/ Crash(r)
       PROVE  \A s \in runs' : Good(s)
  <2>1. PICK r2 : Become(r, r2) /\ Follows(r, r2) /\ Reads(r2)
    BY <1>9, <1>10
  <2> QED BY <1>5, <1>7, <2>1 DEF Become
<1>11. CASE UNCHANGED runs
  BY <1>5, <1>11
<1>12. CASE UNCHANGED <<backlog, queue, deps, prefetch>> /\ \E r : runs' = runs \cup {r} /\ Queued(r)
  BY <1>5, <1>6, <1>12
<1> QED BY <1>1, <1>10, <1>11, <1>12, RunsChange

(* A block that an item triggers alone has the item's serial number.       *)
LEMMA ReferenceOfItem ==
  ASSUME IInv, SerialInv, NEW r \in runs, ForeachBlock(r.block), ItemsAlone(r.block),
         NEW d \in ReferencesIn(r.block, r.inputs)
  PROVE  r.serial = d.serial
<1> DEFINE b == r.block
           ins == r.inputs
<1>1. b \in Blocks /\ IsInputs(r.req, b, ins)
  BY DEF IInv, Inv, RunInv, IsRun
<1>2. PICK i : DOMAIN Inputs[b] = {i}
  BY DEF ItemsAlone
<1>3. Inputs[b][i] # "LIST"
  BY <1>1, <1>2, CountsAssumption
<1>4. DOMAIN ins = {i} /\ d \in Range(ItemsOf(b, ins, i))
  <2>1. PICK j \in DOMAIN ins : d \in Range(ItemsOf(b, ins, j))
    BY DEF ReferencesIn
  <2>2. DOMAIN ins \subseteq {i}
    BY <1>1, <1>2 DEF IsInputs
  <2> QED BY <2>1, <2>2
<1>5. d = ins[i]
  <2>1. ItemsOf(b, ins, i) = <<ins[i]>>
    BY <1>3 DEF ItemsOf
  <2> QED BY <1>4, <2>1 DEF Range
<1>6. IsInput(r.req, b, i, d)
  BY <1>1, <1>3, <1>4, <1>5 DEF IsInputs
<1>7. PICK x \in Range(Dest[d.out]) : d.out \in Outs /\ x.block = b /\ x.input = i
  BY <1>6 DEF IsInput, Data
<1>8. b # User
  BY <1>1, WorkflowAssumption
<1>9. OutType[d.out] # "MERGE"
  BY <1>3, <1>7, <1>8, WorkflowAssumption
<1>10. OutType[d.out] # "NORMAL"
  <2>1. PICK o \in Outs : OutType[o] = "FOREACH" /\ \E y \in Range(Dest[o]) : y.block = b
    BY DEF ForeachBlock
  <2>2. PICK y \in Range(Dest[o]) : y.block = b
    BY <2>1
  <2>3. y.input = i
    BY <1>2, <1>8, <2>2, DestType
  <2> QED BY <1>7, <2>1, <2>2, <2>3, ItemsAssumption
<1>11. OutType[d.out] = "FOREACH"
  BY <1>7, <1>9, <1>10, WorkflowAssumption
<1>12. Inputs[b][i] = "NORMAL"
  BY <1>1, <1>2, <1>3, ItemsAssumption
<1>13. {j \in DOMAIN ins : Inputs[b][j] = "NORMAL" /\ OutType[ins[j].out] = "FOREACH"} = {i}
  BY <1>4, <1>5, <1>11, <1>12
<1>14. BlockSerial(b, ins) = ins[i].serial
  BY <1>13 DEF BlockSerial
<1> QED BY <1>5, <1>14 DEF SerialInv

(* A datum is read by one run of a block.                                  *)
LEMMA OneReader ==
  ASSUME \A b \in Blocks : ItemsAlone(b), IInv, SerialInv,
         NEW r \in runs, NEW s \in runs, r.req = s.req, r.block = s.block,
         NEW d \in ReferencesIn(r.block, r.inputs), NEW e \in ReferencesIn(s.block, s.inputs), Key(d) = Key(e)
  PROVE  r = s
<1>1. r.block \in Blocks
  BY DEF IInv, Inv, RunInv, IsRun
<1>2. RunId(r) \in Fired /\ RunId(s) \in Fired
  BY DEF Fired
<1>3. r.serial = s.serial
  <2>1. CASE ForeachBlock(r.block)
    <3>1. r.serial = d.serial
      BY <1>1, <2>1, ReferenceOfItem
    <3>2. s.serial = e.serial
      BY <1>1, <2>1, ReferenceOfItem
    <3> QED BY <3>1, <3>2 DEF Key
  <2>2. CASE ~ForeachBlock(r.block)
    BY <1>2, <2>2 DEF RunId, IInv, HistoryInv, InstInv
  <2> QED BY <2>1, <2>2
<1>4. RunId(r) = RunId(s)
  BY <1>3 DEF RunId
<1> QED BY <1>4 DEF IInv, HistoryInv, FireInv

-----------------------------------------------------------------------------
(* Reports are of registered data                                          *)

Reported(h, d) ==
  d.kind = "fetched" => IsDatum(d) /\ Key(d) \in DOMAIN deps[h] /\ BlocksAt(d.out, h) # {}
ReportsInv == \A h \in Hosts : \A d \in Range(backlog[h]) \cup Range(queue[h]) : Reported(h, d)

LEMMA ReportsKept ==
  ASSUME ReportsInv, \A h \in Hosts : DOMAIN deps[h] \subseteq DOMAIN deps'[h],
         \A h \in Hosts : \A d \in Range(backlog'[h]) \cup Range(queue'[h]) :
           d \in Range(backlog[h]) \cup Range(queue[h]) \/ d.kind # "fetched" \/ Reported(h, d)'
  PROVE  ReportsInv'
BY DEF ReportsInv, Reported

LEMMA RangesAre ==
  ASSUME NEW s, s \in Seq(Range(s))
  PROVE  /\ \A d : Append(s, d) \in Seq(Range(Append(s, d))) /\ Range(Append(s, d)) = Range(s) \cup {d}
         /\ \A S : \A t \in Seq(S) : Range(s \o t) \subseteq Range(s) \cup S
         /\ s # <<>> => Head(s) \in Range(s) /\ Range(Tail(s)) \subseteq Range(s)
<1>1. ASSUME NEW d PROVE Append(s, d) \in Seq(Range(Append(s, d))) /\ Range(Append(s, d)) = Range(s) \cup {d}
  <2> DEFINE a == Append(s, d)
  <2>1. /\ a \in Seq(Range(a)) /\ Len(a) = Len(s) + 1 /\ a[Len(s) + 1] = d
        /\ \A i \in 1..Len(s) : a[i] = s[i]
    BY AppendIs
  <2>2. Len(s) \in Nat /\ DOMAIN s = 1..Len(s) /\ DOMAIN a = 1..Len(a)
    BY <2>1
  <2> HIDE DEF a
  <2>3. 1..Len(a) = (1..Len(s)) \cup {Len(s) + 1}
    BY <2>1, <2>2
  <2>4. Range(a) = Range(s) \cup {d}
    BY <2>1, <2>2, <2>3 DEF Range
  <2> QED BY <2>1, <2>4 DEF a
<1>2. ASSUME NEW S, NEW t \in Seq(S) PROVE Range(s \o t) \subseteq Range(s) \cup S
  <2> DEFINE a == s \o t
  <2>1. /\ a \in Seq(Range(a)) /\ Len(a) = Len(s) + Len(t)
        /\ \A i \in 1..Len(s) : a[i] = s[i]
        /\ \A i \in 1..Len(t) : a[Len(s) + i] = t[i]
    BY ConcatIs
  <2>2. /\ Len(s) \in Nat /\ Len(t) \in Nat /\ DOMAIN s = 1..Len(s) /\ DOMAIN a = 1..Len(a)
        /\ \A i \in 1..Len(t) : t[i] \in S
    BY <2>1
  <2> HIDE DEF a
  <2>3. ASSUME NEW n \in 1..Len(a) PROVE a[n] \in Range(s) \cup S
    <3>1. CASE n \in 1..Len(s)
      BY <2>1, <2>2, <3>1 DEF Range
    <3>2. CASE n \notin 1..Len(s)
      <4>1. n - Len(s) \in 1..Len(t) /\ n = Len(s) + (n - Len(s))
        BY <2>1, <2>2, <3>2
      <4> QED BY <2>1, <2>2, <4>1
    <3> QED BY <3>1, <3>2
  <2>4. Range(a) \subseteq Range(s) \cup S
    BY <2>2, <2>3 DEF Range
  <2> QED BY <2>4 DEF a
<1>3. ASSUME s # <<>> PROVE Head(s) \in Range(s) /\ Range(Tail(s)) \subseteq Range(s)
  <2> DEFINE a == Tail(s)
  <2>1. /\ a \in Seq(Range(a)) /\ Len(a) = Len(s) - 1 /\ Len(s) >= 1 /\ Head(s) = s[1]
        /\ \A i \in 1..Len(a) : a[i] = s[i + 1]
    BY <1>3, TailIs
  <2>2. Len(s) \in Nat /\ DOMAIN s = 1..Len(s) /\ DOMAIN a = 1..Len(a)
    BY <2>1
  <2> HIDE DEF a
  <2>3. \A i \in 1..Len(a) : i + 1 \in 1..Len(s) /\ a[i] = s[i + 1]
    BY <2>1, <2>2
  <2>4. 1 \in 1..Len(s)
    BY <2>1, <2>2
  <2>5. \A i \in 1..Len(a) : a[i] \in Range(s)
    BY <2>2, <2>3 DEF Range
  <2>6. Range(a) \subseteq Range(s)
    BY <2>2, <2>5 DEF Range
  <2>7. Head(s) \in Range(s)
    BY <2>1, <2>2, <2>4 DEF Range
  <2> QED BY <2>6, <2>7 DEF a
<1> QED BY <1>1, <1>2, <1>3

(* What each step does to the inboxes of the hosts.                        *)
LEMMA InboxSteps ==
  ASSUME Inv, [Next]_vars
  PROVE  \/ UNCHANGED <<backlog, queue, deps>>
         \/ \E h \in Hosts : \E t \in Seq(Data) :
              queue' = [queue EXCEPT ![h] = @ \o t] /\ UNCHANGED <<backlog, deps, runs>>
         \/ \E h \in Hosts :
              /\ backlog[h] # <<>> /\ backlog' = [backlog EXCEPT ![h] = Tail(@)]
              /\ queue' = [queue EXCEPT ![h] = Append(@, Head(backlog[h]))] /\ UNCHANGED <<deps, runs>>
         \/ \E h \in Hosts : DispatchFetched(h) \/ Dispatch(h)
         \/ \E r \in runs : \/ Fetch(r)
                            \/ StartRun(r) \/ Post(r) \/ CountFails(r) \/ Upload(r) \/ Crash(r)
<1> DEFINE Runs == \E r \in runs : \/ Fetch(r)
                                   \/ StartRun(r) \/ Post(r) \/ CountFails(r) \/ Upload(r) \/ Crash(r)
           Done == \/ UNCHANGED <<backlog, queue, deps>>
                   \/ \E h \in Hosts : \E t \in Seq(Data) :
                        queue' = [queue EXCEPT ![h] = @ \o t] /\ UNCHANGED <<backlog, deps, runs>>
                   \/ \E h \in Hosts :
                        /\ backlog[h] # <<>> /\ backlog' = [backlog EXCEPT ![h] = Tail(@)]
                        /\ queue' = [queue EXCEPT ![h] = Append(@, Head(backlog[h]))] /\ UNCHANGED <<deps, runs>>
                   \/ \E h \in Hosts : DispatchFetched(h) \/ Dispatch(h)
                   \/ Runs
<1> SUFFICES Done
  OBVIOUS
<1> HIDE DEF Runs
<1>1. ASSUME NEW m \in dataNet, TransferData(m) PROVE Done
  <2>1. m.to \in Hosts /\ m.datas \in Seq(Data)
    BY DEF Inv, NetInv, IsMessage
  <2>2. queue' = [queue EXCEPT ![m.to] = @ \o m.datas] \/ UNCHANGED queue
    BY <1>1 DEF TransferData
  <2>3. UNCHANGED <<backlog, deps, runs>>
    BY <1>1 DEF TransferData, keyVars
  <2> QED BY <2>1, <2>2, <2>3
<1>2. ASSUME NEW h \in Hosts, SocketServer(h) PROVE Done
  <2>1. Head(backlog[h]).req \in known[h]
    BY <1>2, InboxTail DEF Inv, InboxInv, SocketServer
  <2>2. /\ backlog[h] # <<>> /\ backlog' = [backlog EXCEPT ![h] = Tail(@)]
        /\ queue' = [queue EXCEPT ![h] = Append(@, Head(backlog[h]))] /\ UNCHANGED <<deps, runs>>
    BY <1>2, <2>1 DEF SocketServer, keyVars
  <2> QED BY <2>2
<1>3. ASSUME UNCHANGED <<backlog, queue, deps>> PROVE Done
  BY <1>3
<1>4. ASSUME NEW h \in Hosts, DispatchFetched(h) \/ Dispatch(h) PROVE Done
  BY <1>4
<1>5. ASSUME Runs PROVE Done
  BY <1>5
<1> HIDE DEF Done
<1>6. CASE Step
  <2>1. ASSUME NEW q \in Requests, Run(q) \/ SendInputs(q) \/ Answer(q) \/ PostUserData(q) PROVE Done
    BY <1>3, <2>1 DEF Run, SendInputs, Answer, PostUserData, inboxVars, keyVars
  <2>2. ASSUME NEW h \in Hosts, NEW q \in Requests, RequestInfo(h, q) PROVE Done
    BY <1>3, <2>2 DEF RequestInfo, keyVars
  <2>3. ASSUME NEW h \in Hosts, ToUser(h) \/ ToRemote(h) \/ FlowForeach(h) \/ FlowMerge(h) \/ FlowNormal(h)
        PROVE  Done
    BY <1>3, <2>3 DEF ToUser, ToRemote, FlowForeach, FlowMerge, FlowNormal, inboxVars, keyVars
  <2>4. ASSUME NEW h \in Hosts, NEW k, PrefetchData(h, k) PROVE Done
    BY <1>3, <2>4 DEF PrefetchData, inboxVars
  <2>5. ASSUME NEW h \in Hosts, NEW g, ResumeMerge(h, g) \/ ResumeTrigger(h, g) PROVE Done
    BY <1>3, <2>5 DEF ResumeMerge, ResumeTrigger, inboxVars, keyVars
  <2> QED BY <1>1, <1>2, <1>4, <1>5, <1>6, <2>1, <2>2, <2>3, <2>4, <2>5 DEF Step, Runs
<1>7. CASE Fault
  BY <1>3, <1>5, <1>7 DEF Fault, LosePost, LosePrefetch, inboxVars, keyVars, Runs
<1>8. CASE UNCHANGED vars
  BY <1>3, <1>8 DEF vars, inboxVars, keyVars
<1> QED BY <1>6, <1>7, <1>8 DEF Next

-----------------------------------------------------------------------------
(* The counts                                                              *)

(* The blocks on h that have not read the datum of key k.                  *)
Missing(h, k) == {b \in BlocksAt(k[2], h) : ~HasRead(b, k)}

LEMMA HasReadIs ==
  ASSUME NEW b, NEW k
  PROVE  HasRead(b, k) <=> \E r \in runs : r.req = k[1] /\ r.block = b /\ ReadBy(r, k)
BY DEF HasRead, ReadBy

LEMMA HasReadSame ==
  ASSUME \/ UNCHANGED runs
         \/ \E r : runs' = runs \cup {r} /\ Queued(r)
         \/ \E r \in runs : \E r2 : Become(r, r2) /\ Follows(r, r2) /\ \A k : ReadBy(r2, k) <=> ReadBy(r, k)
  PROVE  \A b, k : HasRead(b, k)' <=> HasRead(b, k)
<1> SUFFICES ASSUME NEW b, NEW k
             PROVE  (\E r \in runs' : r.req = k[1] /\ r.block = b /\ ReadBy(r, k))
                      <=> \E r \in runs : r.req = k[1] /\ r.block = b /\ ReadBy(r, k)
  BY DEF HasRead, ReadBy
<1>1. CASE UNCHANGED runs
  BY <1>1
<1>2. CASE \E r : runs' = runs \cup {r} /\ Queued(r)
  BY <1>2 DEF Queued, ReadBy
<1>3. CASE \E r \in runs : \E r2 : Become(r, r2) /\ Follows(r, r2) /\ \A j : ReadBy(r2, j) <=> ReadBy(r, j)
  BY <1>3 DEF Become, Follows
<1> QED BY <1>1, <1>2, <1>3

LEMMA BlocksAreFew ==
  ASSUME NEW o \in Outs, NEW h PROVE IsFiniteSet(BlocksAt(o, h))
<1> DEFINE N == 1..Len(Dest[o])
           f == [i \in N |-> Dest[o][i].block]
           T == {f[i] : i \in N}
<1>1. IsFiniteSet(N)
  BY FS_Interval
<1>2. BlocksAt(o, h) \subseteq T
  BY DEF BlocksAt
<1> HIDE DEF N
<1>3. f \in Surjection(N, T)
  BY DEF Surjection
<1> HIDE DEF f, T
<1>4. IsFiniteSet(T)
  BY <1>1, <1>3, FS_Surjection
<1> QED BY <1>2, <1>4, FS_Subset

LEMMA KeptSame ==
  ASSUME KeptUntilRead, UNCHANGED deps, \A b, k : HasRead(b, k)' <=> HasRead(b, k),
         \A h \in Hosts : \A k : ReportsOf(h, k)' = ReportsOf(h, k)
  PROVE  KeptUntilRead'
<1>1. \A h, k : Missing(h, k)' = Missing(h, k)
  BY DEF Missing
<1> SUFFICES ASSUME NEW h \in Hosts, NEW k \in DOMAIN deps[h]
             PROVE  deps[h][k] = Cardinality(Missing(h, k)') + ReportsOf(h, k)'
  BY DEF KeptUntilRead, Missing
<1>2. deps[h][k] = Cardinality(Missing(h, k)) + ReportsOf(h, k)
  BY DEF KeptUntilRead, Missing
<1> QED BY <1>1, <1>2

CountsInv == ReportsInv /\ KeptUntilRead

LEMMA InboxTypes ==
  ASSUME Inv
  PROVE  /\ DOMAIN backlog = Hosts /\ DOMAIN queue = Hosts
         /\ \A h \in Hosts : backlog[h] \in Seq(Range(backlog[h])) /\ queue[h] \in Seq(Range(queue[h]))
         /\ \A h \in Hosts : \A k : ReportsIn(backlog[h], k) \in Nat /\ ReportsIn(queue[h], k) \in Nat
<1>1. \A h \in Hosts : backlog[h] \in Seq(Range(backlog[h])) /\ queue[h] \in Seq(Range(queue[h]))
  BY DEF Inv, InboxInv, IsInbox
<1>2. DOMAIN backlog = Hosts /\ DOMAIN queue = Hosts
  BY DEF Inv, InboxInv
<1> QED BY <1>1, <1>2, ReportsAre

LEMMA SameCounts ==
  ASSUME CountsInv, UNCHANGED <<backlog, queue, deps>>, \A b, k : HasRead(b, k)' <=> HasRead(b, k)
  PROVE  CountsInv'
<1>1. ReportsInv'
  BY ReportsKept DEF CountsInv
<1>2. KeptUntilRead'
  BY KeptSame DEF CountsInv, ReportsOf
<1> QED BY <1>1, <1>2 DEF CountsInv

LEMMA SendCounts ==
  ASSUME Inv, CountsInv, NEW h \in Hosts, NEW d \in Data, Send(h, d), UNCHANGED <<queue, deps>>,
         \A b, k : HasRead(b, k)' <=> HasRead(b, k)
  PROVE  CountsInv'
<1>1. d.kind # "fetched"
  BY DEF Data
<1> DEFINE s == backlog[h]
           a == Append(s, d)
<1>2. /\ \A g \in Hosts : backlog'[g] = IF g = h THEN a ELSE backlog[g]
      /\ s \in Seq(Range(s))
  BY InboxTypes DEF Send
<1>3. Range(a) = Range(s) \cup {d} /\ \A k : ReportsIn(a, k) = ReportsIn(s, k)
  BY <1>1, <1>2, RangesAre, ReportsAppend DEF IsReport
<1> HIDE DEF a
<1>4. ReportsInv'
  BY <1>1, <1>2, <1>3, ReportsKept DEF CountsInv
<1>5. \A g \in Hosts : \A k : ReportsOf(g, k)' = ReportsOf(g, k)
  BY <1>2, <1>3 DEF ReportsOf
<1>6. KeptUntilRead'
  BY <1>5, KeptSame DEF CountsInv
<1> QED BY <1>4, <1>6 DEF CountsInv

LEMMA TransferCounts ==
  ASSUME Inv, CountsInv, NEW h \in Hosts, NEW t \in Seq(Data), queue' = [queue EXCEPT ![h] = @ \o t],
         UNCHANGED <<backlog, deps>>, \A b, k : HasRead(b, k)' <=> HasRead(b, k)
  PROVE  CountsInv'
<1>1. \A d \in Data : d.kind # "fetched"
  BY DEF Data
<1> DEFINE s == queue[h]
           a == s \o t
<1>2. /\ \A g \in Hosts : queue'[g] = IF g = h THEN a ELSE queue[g]
      /\ s \in Seq(Range(s))
  BY InboxTypes
<1>3. Range(a) \subseteq Range(s) \cup Data /\ \A k : ReportsIn(a, k) = ReportsIn(s, k)
  BY <1>2, RangesAre, ReportsConcat
<1> HIDE DEF a
<1>4. ReportsInv'
  BY <1>1, <1>2, <1>3, ReportsKept DEF CountsInv
<1>5. \A g \in Hosts : \A k : ReportsOf(g, k)' = ReportsOf(g, k)
  BY <1>2, <1>3 DEF ReportsOf
<1>6. KeptUntilRead'
  BY <1>5, KeptSame DEF CountsInv
<1> QED BY <1>4, <1>6 DEF CountsInv

LEMMA ServerCounts ==
  ASSUME Inv, CountsInv, NEW h \in Hosts, backlog[h] # <<>>, backlog' = [backlog EXCEPT ![h] = Tail(@)],
         queue' = [queue EXCEPT ![h] = Append(@, Head(backlog[h]))],
         UNCHANGED deps, \A b, k : HasRead(b, k)' <=> HasRead(b, k)
  PROVE  CountsInv'
<1> DEFINE s == backlog[h]
           t == queue[h]
           d == Head(s)
<1>2. /\ \A g \in Hosts : backlog'[g] = IF g = h THEN Tail(s) ELSE backlog[g]
      /\ \A g \in Hosts : queue'[g] = IF g = h THEN Append(t, d) ELSE queue[g]
      /\ s \in Seq(Range(s)) /\ t \in Seq(Range(t)) /\ s # <<>>
  BY InboxTypes
<1>3. Range(Tail(s)) \subseteq Range(s) /\ d \in Range(s) /\ Range(Append(t, d)) = Range(t) \cup {d}
  BY <1>2, RangesAre
<1>4. \A k : /\ ReportsIn(Tail(s), k) = IF IsReport(d, k) THEN ReportsIn(s, k) - 1 ELSE ReportsIn(s, k)
             /\ ReportsIn(Append(t, d), k) = IF IsReport(d, k) THEN ReportsIn(t, k) + 1 ELSE ReportsIn(t, k)
             /\ ReportsIn(s, k) \in Nat /\ ReportsIn(t, k) \in Nat
  BY <1>2, ReportsTail, ReportsAppend, ReportsAre
<1> HIDE DEF d
<1>5. ReportsInv'
  BY <1>2, <1>3, ReportsKept DEF CountsInv
<1>6. ASSUME NEW g \in Hosts, NEW k PROVE ReportsOf(g, k)' = ReportsOf(g, k)
  <2>1. \A m, n \in Nat : (m - 1) + (n + 1) = m + n
    OBVIOUS
  <2> QED BY <1>2, <1>4, <2>1 DEF ReportsOf
<1>7. KeptUntilRead'
  BY <1>6, KeptSame DEF CountsInv
<1> QED BY <1>5, <1>7 DEF CountsInv

LEMMA QuietCounts ==
  ASSUME IInv, RunsComplete, WholeInv, ReadsInv, CountsInv, NEW r \in runs,
         StartRun(r) \/ Post(r) \/ CountFails(r) \/ Upload(r) \/ Crash(r)
  PROVE  CountsInv'
<1>1. Inv /\ RunInv /\ Home[r.block] \in Hosts
  BY RunType DEF IInv, Inv
<1>2. Indexed(r.block, r.inputs) /\ DOMAIN r.inputs = DOMAIN Inputs[r.block] /\ Reads(r)
  BY <1>1, WholeIndexed DEF WholeInv, RunsComplete, ReadsInv
<1>3. /\ UNCHANGED <<queue, deps>>
      /\ UNCHANGED backlog \/ \E d \in Data : Send(Home[r.block], d)
      /\ \E r2 : Become(r, r2) /\ Follows(r, r2) /\ \A k : ReadBy(r2, k) <=> ReadBy(r, k)
  BY <1>2, QuietStep
<1>4. \A b, k : HasRead(b, k)' <=> HasRead(b, k)
  BY <1>3, HasReadSame
<1> QED BY <1>1, <1>3, <1>4, SameCounts, SendCounts

(* The report of a run is of a datum it holds, so it is registered.        *)
LEMMA ReferenceRegistered ==
  ASSUME IInv, WholeInv, RegisteredInv, NEW r \in runs, NEW d \in ReferencesIn(r.block, r.inputs)
  PROVE  /\ d \in Data /\ d.req = r.req /\ r.block \in BlocksAt(d.out, Home[r.block])
         /\ Home[r.block] \in Hosts /\ Key(d) \in DOMAIN deps[Home[r.block]]
         /\ \A e \in ReferencesIn(r.block, r.inputs) : Key(d) = Key(e) => d = e
<1> DEFINE b == r.block
           ins == r.inputs
           S == RegisteredAt[Home[b]]
<1>1. RunInv /\ b \in Blocks /\ IsInputs(r.req, b, ins)
  BY DEF IInv, Inv, RunInv, IsRun
<1>2. Indexed(b, ins)
  BY <1>1, WholeIndexed DEF WholeInv
<1>3. Home[b] \in Hosts
  BY <1>1, HomeType
<1>4. AllIn(S, b, ins)
  BY DEF RegisteredInv, HeldIn
<1>5. d \in S
  <2> HIDE DEF S, b, ins
  <2>1. ReferencesIn(b, ins) \subseteq S
    BY <1>1, <1>2, <1>4, ReferencesHeld
  <2> QED BY <2>1 DEF b, ins
<1>6. /\ d \in Data /\ ByReference(d) /\ d.req = r.req /\ b \in BlocksAt(d.out, Home[b])
      /\ \A e \in ReferencesIn(b, ins) : Key(d) = Key(e) => d = e
  BY <1>1, <1>2, ReferencesAre
<1>7. Key(d) \in DOMAIN deps[Home[b]]
  BY <1>3, <1>5, <1>6 DEF RegisteredAt, Registered
<1> QED BY <1>3, <1>6, <1>7

LEMMA FetchReads ==
  ASSUME \A b \in Blocks : ItemsAlone(b), IInv, WholeInv, RegisteredInv, ReadsInv, SerialInv,
         NEW r \in runs, Fetch(r), NEW k0, k0 = Key(Head(r.reads))
  PROVE  /\ ~HasRead(r.block, k0)
         /\ \A b, k : HasRead(b, k)' <=> HasRead(b, k) \/ (b = r.block /\ k = k0)
<1> DEFINE d == Head(r.reads)
<1>1. Inv /\ Reads(r)
  BY DEF IInv, ReadsInv
<1>2. r.reads # <<>> /\ r.state # "queued"
  BY <1>1, FetchStep
<1>3. PICK r2 : /\ Become(r, r2) /\ Follows(r, r2) /\ Reads(r2)
                /\ r2.state = r.state /\ r2.reads = Tail(r.reads)
  BY <1>1, FetchStep
<1>4. /\ d \in ReferencesIn(r.block, r.inputs) /\ Range(r.reads) = Range(Tail(r.reads)) \cup {d}
      /\ d \notin Range(Tail(r.reads))
  BY <1>1, <1>2, TailOnce DEF Reads
<1>5. Range(Tail(r.reads)) \subseteq ReferencesIn(r.block, r.inputs)
  <2>1. Tail(r.reads) \in Seq(ReferencesIn(r.block, r.inputs))
    BY <1>1, <1>2, TailOnce DEF Reads
  <2> QED BY <2>1, InRange
<1>6. /\ d.req = r.req
      /\ \A e \in ReferencesIn(r.block, r.inputs) : Key(d) = Key(e) => d = e
  BY <1>4, ReferenceRegistered
<1> HIDE DEF d
<1>7. k0 = Key(d) /\ k0[1] = r.req
  BY <1>6 DEF d, Key
<1>8. ~HasRead(r.block, k0)
  <2> SUFFICES ASSUME NEW s \in runs, s.req = k0[1], s.block = r.block, ReadBy(s, k0) PROVE FALSE
    BY HasReadIs
  <2>1. PICK e \in ReferencesIn(s.block, s.inputs) : Key(e) = k0
    BY DEF ReadBy
  <2>2. r = s
    BY <1>4, <1>7, <2>1, OneReader
  <2>3. d \in Range(s.reads)
    BY <1>4, <2>2
  <2> QED BY <1>7, <2>3 DEF ReadBy
<1>9. \A k : ReadBy(r2, k) <=> ReadBy(r, k) \/ k = k0
  BY <1>2, <1>3, <1>4, <1>5, <1>6, <1>7 DEF ReadBy, Follows
<1>10. ASSUME NEW b, NEW k PROVE HasRead(b, k)' <=> HasRead(b, k) \/ (b = r.block /\ k = k0)
  <2>1. HasRead(b, k)' <=> \E s \in runs' : s.req = k[1] /\ s.block = b /\ ReadBy(s, k)
    BY DEF HasRead, ReadBy
  <2>2. HasRead(b, k) <=> \E s \in runs : s.req = k[1] /\ s.block = b /\ ReadBy(s, k)
    BY HasReadIs
  <2>3. runs' = (runs \ {r}) \cup {r2} /\ r2.req = r.req /\ r2.block = r.block
    BY <1>3 DEF Become, Follows
  <2> QED BY <1>7, <1>9, <2>1, <2>2, <2>3
<1> QED BY <1>8, <1>10

LEMMA FetchCounts ==
  ASSUME \A b \in Blocks : ItemsAlone(b), IInv, WholeInv, RegisteredInv, ReadsInv, SerialInv, CountsInv,
         NEW r \in runs, Fetch(r)
  PROVE  CountsInv'
<1> DEFINE d == Head(r.reads)
           h0 == Home[r.block]
           s == backlog[h0]
           rep == Report(r, d)
           a == Append(s, rep)
<1>0. PICK k0 : k0 = Key(d)
  OBVIOUS
<1>1. Inv /\ Reads(r)
  BY DEF IInv, ReadsInv
<1>2. UNCHANGED <<queue, deps>> /\ Send(h0, rep) /\ r.reads # <<>>
  BY <1>1, FetchStep
<1>3. d \in ReferencesIn(r.block, r.inputs)
  BY <1>1, <1>2, TailOnce DEF Reads
<1>4. d \in Data /\ d.req = r.req /\ r.block \in BlocksAt(d.out, h0) /\ h0 \in Hosts /\ k0 \in DOMAIN deps[h0]
  BY <1>0, <1>3, ReferenceRegistered
<1> HIDE DEF d
<1>5. rep.kind = "fetched" /\ Key(rep) = k0 /\ rep.out = d.out /\ IsDatum(rep) /\ d.out = k0[2]
  BY <1>0, <1>4 DEF Report, Datum, Key, IsDatum, Data
<1> HIDE DEF rep, h0
<1>6. /\ \A g \in Hosts : backlog'[g] = IF g = h0 THEN a ELSE backlog[g]
      /\ s \in Seq(Range(s))
  BY <1>1, <1>2, <1>4, InboxTypes DEF Send
<1>7. /\ Range(a) = Range(s) \cup {rep}
      /\ \A k : ReportsIn(a, k) = IF k = k0 THEN ReportsIn(s, k) + 1 ELSE ReportsIn(s, k)
      /\ \A k : ReportsIn(s, k) \in Nat /\ ReportsIn(queue[h0], k) \in Nat
  <2>1. \A k : IsReport(rep, k) <=> k = k0
    BY <1>5 DEF IsReport
  <2>2. Range(a) = Range(s) \cup {rep} /\ \A k : ReportsIn(a, k) = IF IsReport(rep, k) THEN ReportsIn(s, k) + 1 ELSE ReportsIn(s, k)
    BY <1>6, RangesAre, ReportsAppend
  <2>3. \A k : ReportsIn(s, k) \in Nat /\ ReportsIn(queue[h0], k) \in Nat
    BY <1>1, <1>4, InboxTypes
  <2> HIDE DEF a, s
  <2> QED BY <2>1, <2>2, <2>3
<1> HIDE DEF a
<1>8. ReportsInv'
  <2>1. Reported(h0, rep)'
    BY <1>2, <1>4, <1>5 DEF Reported
  <2> QED BY <1>2, <1>6, <1>7, <2>1, ReportsKept DEF CountsInv
<1>9. /\ ~HasRead(r.block, k0)
      /\ \A b, k : HasRead(b, k)' <=> HasRead(b, k) \/ (b = r.block /\ k = k0)
  BY <1>0, FetchReads DEF d
<1>10. ASSUME NEW h \in Hosts, NEW k \in DOMAIN deps[h]
       PROVE  deps'[h][k] = Cardinality(Missing(h, k)') + ReportsOf(h, k)'
  <2>1. deps'[h][k] = Cardinality(Missing(h, k)) + ReportsOf(h, k)
    BY <1>2 DEF CountsInv, KeptUntilRead, Missing
  <2>2. CASE h = h0 /\ k = k0
    <3>1. r.block \in Missing(h, k) /\ Missing(h, k)' = Missing(h, k) \ {r.block}
      BY <1>4, <1>5, <1>9, <2>2 DEF Missing
    <3>2. IsFiniteSet(Missing(h, k))
      <4>1. IsFiniteSet(BlocksAt(d.out, h0))
        BY <1>4, BlocksAreFew DEF Data
      <4>2. Missing(h, k) \subseteq BlocksAt(d.out, h0)
        BY <1>5, <2>2 DEF Missing
      <4> QED BY <4>1, <4>2, FS_Subset
    <3>3. Cardinality(Missing(h, k)') = Cardinality(Missing(h, k)) - 1 /\ Cardinality(Missing(h, k)) \in Nat
      BY <3>1, <3>2, FS_RemoveElement, FS_CardinalityType
    <3>4. ReportsOf(h, k)' = ReportsOf(h, k) + 1 /\ ReportsOf(h, k) \in Nat
      <4>1. \A m, n \in Nat : (m + 1) + n = (m + n) + 1 /\ m + n \in Nat
        OBVIOUS
      <4> QED BY <1>2, <1>6, <1>7, <2>2, <4>1 DEF ReportsOf
    <3> QED BY <2>1, <3>3, <3>4
  <2>3. CASE ~(h = h0 /\ k = k0)
    <3>1. Missing(h, k)' = Missing(h, k)
      <4>1. \A b \in BlocksAt(k[2], h) : k = k0 => b # r.block
        BY <2>3 DEF BlocksAt, h0
      <4> QED BY <1>9, <4>1 DEF Missing
    <3>2. ReportsOf(h, k)' = ReportsOf(h, k)
      BY <1>2, <1>6, <1>7, <2>3 DEF ReportsOf
    <3> QED BY <2>1, <3>1, <3>2
  <2> QED BY <2>2, <2>3
<1>11. KeptUntilRead'
  BY <1>2, <1>10 DEF KeptUntilRead, Missing
<1> QED BY <1>8, <1>11 DEF CountsInv

(* A report that is handled is no longer on its way: both go down by one.  *)
LEMMA FetchedCounts ==
  ASSUME IInv, CountsInv, NEW h \in Hosts, DispatchFetched(h) PROVE CountsInv'
<1> DEFINE s == queue[h]
           d == Head(s)
<1>0. PICK k0 : k0 = Key(d)
  OBVIOUS
<1>1. Inv /\ KeysInv
  BY DEF IInv, DeliveryInv, AheadInv
<1>2. /\ s # <<>> /\ d.kind = "fetched" /\ queue' = [queue EXCEPT ![h] = Tail(@)]
      /\ deps' = [deps EXCEPT ![h][k0] = @ - 1] /\ UNCHANGED <<backlog, runs>>
  BY <1>0 DEF DispatchFetched
<1>3. s \in Seq(Range(s)) /\ DOMAIN queue = Hosts
  BY <1>1, InboxTypes
<1>4. d \in Range(s) /\ Range(Tail(s)) \subseteq Range(s)
  BY <1>2, <1>3, RangesAre
<1>5. IsDatum(d) /\ k0 \in DOMAIN deps[h]
  BY <1>0, <1>2, <1>4 DEF CountsInv, ReportsInv, Reported
<1>6. k0[2] \in Outs
  BY <1>0, <1>5 DEF IsDatum, Key
<1>7. \A k : IsReport(d, k) <=> k = k0
  BY <1>0, <1>2 DEF IsReport
<1> HIDE DEF d
<1>8. \A k : /\ ReportsIn(Tail(s), k) = IF k = k0 THEN ReportsIn(s, k) - 1 ELSE ReportsIn(s, k)
             /\ ReportsIn(s, k) \in Nat /\ ReportsIn(backlog[h], k) \in Nat
  <2>1. \A k : ReportsIn(Tail(s), k) = IF IsReport(d, k) THEN ReportsIn(s, k) - 1 ELSE ReportsIn(s, k)
    BY <1>2, <1>3, ReportsTail DEF d
  <2>2. \A k : ReportsIn(s, k) \in Nat /\ ReportsIn(backlog[h], k) \in Nat
    BY <1>1, InboxTypes
  <2> HIDE DEF s
  <2> QED BY <1>7, <2>1, <2>2
<1>9. \A g \in Hosts : queue'[g] = IF g = h THEN Tail(s) ELSE queue[g]
  BY <1>2, <1>3
<1> HIDE DEF s
<1>10. /\ \A g \in Hosts : DOMAIN deps'[g] = DOMAIN deps[g]
       /\ \A g \in Hosts : \A k \in DOMAIN deps[g] :
            deps'[g][k] = IF g = h /\ k = k0 THEN deps[g][k] - 1 ELSE deps[g][k]
  <2>1. DOMAIN deps = Hosts
    BY <1>1 DEF KeysInv
  <2> QED BY <1>2, <1>5, <2>1
<1>11. ReportsInv'
  BY <1>2, <1>4, <1>9, <1>10, ReportsKept DEF CountsInv, s
<1>12. \A g, k : Missing(g, k)' = Missing(g, k)
  <2>1. \A b, k : HasRead(b, k)' <=> HasRead(b, k)
    BY <1>2, HasReadSame
  <2> QED BY <2>1 DEF Missing
<1>13. ASSUME NEW g \in Hosts, NEW k \in DOMAIN deps[g]
       PROVE  deps'[g][k] = Cardinality(Missing(g, k)') + ReportsOf(g, k)'
  <2>1. deps[g][k] = Cardinality(Missing(g, k)) + ReportsOf(g, k)
    BY DEF CountsInv, KeptUntilRead, Missing
  <2>2. CASE g = h /\ k = k0
    <3>1. ReportsOf(g, k)' = ReportsOf(g, k) - 1 /\ ReportsOf(g, k) \in Nat
      <4>1. \A m, n \in Nat : m + (n - 1) = (m + n) - 1 /\ m + n \in Nat
        OBVIOUS
      <4> QED BY <1>2, <1>8, <1>9, <2>2, <4>1 DEF ReportsOf, s
    <3>2. Cardinality(Missing(g, k)) \in Nat
      <4>1. IsFiniteSet(BlocksAt(k[2], g)) /\ Missing(g, k) \subseteq BlocksAt(k[2], g)
        BY <1>6, <2>2, BlocksAreFew DEF Missing
      <4> QED BY <4>1, FS_Subset, FS_CardinalityType
    <3>3. deps'[g][k] = deps[g][k] - 1
      BY <1>10, <2>2
    <3> QED BY <1>12, <2>1, <3>1, <3>2, <3>3
  <2>3. CASE ~(g = h /\ k = k0)
    <3>1. ReportsOf(g, k)' = ReportsOf(g, k)
      BY <1>2, <1>8, <1>9, <2>3 DEF ReportsOf, s
    <3> QED BY <1>10, <1>12, <2>1, <2>3, <3>1
  <2> QED BY <2>2, <2>3
<1>14. KeptUntilRead'
  BY <1>10, <1>13 DEF KeptUntilRead, Missing
<1> QED BY <1>11, <1>14 DEF CountsInv

(* Nobody has read a datum that is about to be registered, or reported it. *)
LEMMA NewKeyUnread ==
  ASSUME IInv, WholeInv, RegisteredInv, CountsInv, NEW h \in Hosts, queue[h] # <<>>,
         NEW d, d = Head(queue[h]), d.kind = "redis" \/ (d.kind = "kafka" /\ ~d.fromLocal)
  PROVE  Missing(h, Key(d)) = BlocksAt(d.out, h) /\ ReportsOf(h, Key(d)) = 0
<1>1. Inv /\ KeysInv /\ queue[h] \in Seq(Range(queue[h]))
  BY InboxTypes DEF IInv, DeliveryInv, AheadInv
<1>2. d \in Data
  BY <1>1, InboxTail DEF Inv, InboxInv
<1>3. ASSUME BlocksAt(d.out, h) # {} PROVE Key(d) \notin DOMAIN deps[h]
  <2>1. PICK b : b \in Blocks /\ Home[b] = h /\ \E x \in Range(Dest[d.out]) : x.block = b
    BY <1>2, <1>3, BlockAt DEF Data
  <2>2. PICK x \in Range(Dest[d.out]) : x.block = b
    BY <2>1
  <2>3. x.block # User
    BY <2>1, <2>2, WorkflowAssumption
  <2> DEFINE t == <<Key(d), x>>
  <2>4. t \in Due(h, d)
    BY <1>2, <2>1, <2>2, <2>3, RegisteredDue
  <2>5. t \in DueOf(h, queue[h])
    BY <1>1, <2>4, DueTail
  <2>6. <<"queue", h>> \in Places /\ t \in Held(<<"queue", h>>)
    BY <2>5, HeldIs, PlacesAre DEF HeldFacts, PlaceFacts
  <2>7. ~AtHome(<<"queue", h>>, t)
    BY DEF AtHome
  <2>8. ~Registers(t)
    BY <2>6, <2>7 DEF IInv, DeliveryInv, AheadInv
  <2> QED BY <2>1, <2>2, <2>8 DEF Registers
<1>4. ASSUME NEW c \in BlocksAt(d.out, h), HasRead(c, Key(d)) PROVE FALSE
  <2>1. PICK r \in runs : r.block = c /\ ReadBy(r, Key(d))
    BY <1>4, HasReadIs
  <2>2. PICK e \in ReferencesIn(r.block, r.inputs) : Key(e) = Key(d)
    BY <2>1 DEF ReadBy
  <2>3. Key(d) \in DOMAIN deps[Home[c]]
    BY <2>1, <2>2, ReferenceRegistered
  <2> QED BY <1>3, <2>3 DEF BlocksAt
<1>5. Missing(h, Key(d)) = BlocksAt(d.out, h)
  BY <1>4 DEF Missing, Key
<1>6. ASSUME NEW e \in Range(backlog[h]) \cup Range(queue[h]), IsReport(e, Key(d)) PROVE FALSE
  <2>1. Key(d) \in DOMAIN deps[h] /\ BlocksAt(e.out, h) # {}
    BY <1>6 DEF CountsInv, ReportsInv, Reported, IsReport
  <2>2. e.out = d.out
    BY <1>6 DEF IsReport, Key
  <2> QED BY <1>3, <2>1, <2>2
<1>7. ReportsIn(backlog[h], Key(d)) = 0 /\ ReportsIn(queue[h], Key(d)) = 0
  <2>1. backlog[h] \in Seq(Range(backlog[h]))
    BY <1>1, InboxTypes
  <2>2. \A n \in 1..Len(backlog[h]) : ~IsReport(backlog[h][n], Key(d))
    BY <1>6, <2>1 DEF Range
  <2>3. \A n \in 1..Len(queue[h]) : ~IsReport(queue[h][n], Key(d))
    BY <1>1, <1>6 DEF Range
  <2> QED BY <1>1, <2>1, <2>2, <2>3, ReportsAre
<1>8. ReportsOf(h, Key(d)) = 0
  BY <1>7 DEF ReportsOf
<1> QED BY <1>5, <1>8

(* A datum that is registered is counted for every local block.            *)
LEMMA DispatchCounts ==
  ASSUME IInv, WholeInv, RegisteredInv, CountsInv, NEW h \in Hosts, Dispatch(h) PROVE CountsInv'
<1> DEFINE s == queue[h]
           C(k) == Cardinality(BlocksAt(k[2], h))
<1>0. PICK d : d = Head(s)
  OBVIOUS
<1>1. Inv /\ KeysInv
  BY DEF IInv, DeliveryInv, AheadInv
<1> DEFINE New == d.kind = "redis" \/ (d.kind = "kafka" /\ ~d.fromLocal)
<1>2. /\ s # <<>> /\ d.kind # "fetched" /\ queue' = [queue EXCEPT ![h] = Tail(@)]
      /\ deps' = IF New THEN [deps EXCEPT ![h] = With(@, Key(d), C(Key(d)))] ELSE deps
      /\ UNCHANGED <<backlog, runs>>
  BY <1>0 DEF Dispatch, Counted, Key
<1>3. s \in Seq(Range(s)) /\ DOMAIN queue = Hosts
  BY <1>1, InboxTypes
<1>4. Range(Tail(s)) \subseteq Range(s)
  BY <1>2, <1>3, RangesAre
<1>5. \A k : ReportsIn(Tail(s), k) = ReportsIn(s, k)
  BY <1>0, <1>2, <1>3, ReportsTail DEF IsReport
<1>6. \A g \in Hosts : queue'[g] = IF g = h THEN Tail(s) ELSE queue[g]
  BY <1>2, <1>3
<1>7. New => Missing(h, Key(d)) = BlocksAt(d.out, h) /\ ReportsOf(h, Key(d)) = 0
  BY <1>0, <1>2, NewKeyUnread
<1>8. /\ \A g \in Hosts : DOMAIN deps[g] \subseteq DOMAIN deps'[g]
      /\ \A g \in Hosts : \A k \in DOMAIN deps'[g] :
           \/ New /\ g = h /\ k = Key(d) /\ deps'[g][k] = C(k)
           \/ k \in DOMAIN deps[g] /\ deps'[g][k] = deps[g][k]
  <2>1. DOMAIN deps = Hosts
    BY <1>1 DEF KeysInv
  <2>2. CASE ~New
    BY <1>2, <2>2
  <2>3. CASE New
    <3> DEFINE f == With(deps[h], Key(d), C(Key(d)))
    <3>1. DOMAIN f = DOMAIN deps[h] \cup {Key(d)}
          /\ \A k \in DOMAIN f : f[k] = IF k = Key(d) THEN C(k) ELSE deps[h][k]
      BY DEF With
    <3>2. deps' = [deps EXCEPT ![h] = f]
      BY <1>2, <2>3
    <3> HIDE DEF f, C
    <3> QED BY <2>1, <2>3, <3>1, <3>2
  <2> QED BY <2>2, <2>3
<1> HIDE DEF s, C
<1>9. ReportsInv'
  BY <1>2, <1>4, <1>6, <1>8, ReportsKept DEF CountsInv, s
<1>10. \A g, k : Missing(g, k)' = Missing(g, k)
  <2>1. \A b, k : HasRead(b, k)' <=> HasRead(b, k)
    BY <1>2, HasReadSame
  <2> QED BY <2>1 DEF Missing
<1>11. \A g \in Hosts : \A k : ReportsOf(g, k)' = ReportsOf(g, k)
  BY <1>2, <1>5, <1>6 DEF ReportsOf, s
<1>12. ASSUME NEW g \in Hosts, NEW k \in DOMAIN deps'[g]
       PROVE  deps'[g][k] = Cardinality(Missing(g, k)') + ReportsOf(g, k)'
  <2>1. CASE New /\ g = h /\ k = Key(d) /\ deps'[g][k] = C(k)
    <3>1. IsFiniteSet(BlocksAt(d.out, h))
      <4>1. d \in Data
        BY <1>0, <1>1, <1>2, InboxTail DEF Inv, InboxInv, s
      <4> QED BY <4>1, BlocksAreFew DEF Data
    <3>2. C(k) \in Nat /\ C(k) = Cardinality(BlocksAt(d.out, h))
      BY <2>1, <3>1, FS_CardinalityType DEF C, Key
    <3> QED BY <1>7, <1>10, <1>11, <2>1, <3>2
  <2>2. CASE k \in DOMAIN deps[g] /\ deps'[g][k] = deps[g][k]
    <3>1. deps[g][k] = Cardinality(Missing(g, k)) + ReportsOf(g, k)
      BY <2>2 DEF CountsInv, KeptUntilRead, Missing
    <3> QED BY <1>10, <1>11, <2>2, <3>1
  <2> QED BY <1>8, <2>1, <2>2
<1>13. KeptUntilRead'
  BY <1>12 DEF KeptUntilRead, Missing
<1> QED BY <1>9, <1>13 DEF CountsInv

LEMMA NextCounts ==
  ASSUME \A b \in Blocks : ItemsAlone(b), IInv, RunsComplete, WholeInv, RegisteredInv, ReadsInv, SerialInv,
         CountsInv, [Next]_vars
  PROVE  CountsInv'
<1>1. Inv
  BY DEF IInv
<1>2. ASSUME NEW r \in runs, StartRun(r) \/ Post(r) \/ CountFails(r) \/ Upload(r) \/ Crash(r)
      PROVE  CountsInv'
  BY <1>2, QuietCounts
<1>3. ASSUME NEW r \in runs, Fetch(r) PROVE CountsInv'
  BY <1>3, FetchCounts
<1>4. ASSUME UNCHANGED <<backlog, queue, deps, prefetch>> /\ \E r : runs' = runs \cup {r} /\ Queued(r)
      PROVE  CountsInv'
  <2>1. \A b, k : HasRead(b, k)' <=> HasRead(b, k)
    BY <1>4, HasReadSame
  <2> QED BY <1>4, <2>1, SameCounts
<1>5. ASSUME UNCHANGED runs PROVE CountsInv'
  <2>1. \A b, k : HasRead(b, k)' <=> HasRead(b, k)
    BY <1>5, HasReadSame
  <2>2. ASSUME UNCHANGED <<backlog, queue, deps>> PROVE CountsInv'
    BY <2>1, <2>2, SameCounts
  <2>3. ASSUME NEW h \in Hosts, NEW t \in Seq(Data), queue' = [queue EXCEPT ![h] = @ \o t],
               UNCHANGED <<backlog, deps>>
        PROVE  CountsInv'
    BY <1>1, <2>1, <2>3, TransferCounts
  <2>4. ASSUME NEW h \in Hosts, backlog[h] # <<>>, backlog' = [backlog EXCEPT ![h] = Tail(@)],
               queue' = [queue EXCEPT ![h] = Append(@, Head(backlog[h]))], UNCHANGED deps
        PROVE  CountsInv'
    BY <1>1, <2>1, <2>4, ServerCounts
  <2>5. ASSUME NEW h \in Hosts, DispatchFetched(h) PROVE CountsInv'
    BY <2>5, FetchedCounts
  <2>6. ASSUME NEW h \in Hosts, Dispatch(h) PROVE CountsInv'
    BY <2>6, DispatchCounts
  <2> QED BY <1>1, <1>2, <1>3, <2>2, <2>3, <2>4, <2>5, <2>6, InboxSteps
<1> QED BY <1>1, <1>2, <1>3, <1>4, <1>5, RunsChange

(* What is held is registered, and what is registered is counted for every *)
(* block of the host that has not read it yet.                             *)
KInv == RegisteredInv /\ ReadsInv /\ SerialInv /\ PrefetchInv /\ CountsInv

LEMMA InitKInv == Init => KInv
<1> SUFFICES ASSUME Init PROVE KInv
  OBVIOUS
<1>1. \A h \in Hosts : /\ running[h] = <<>> /\ parked[h] = {} /\ backlog[h] = <<>> /\ queue[h] = <<>>
                       /\ deps[h] = EmptyFn /\ prefetch[h] = EmptyFn
  BY DEF Init
<1>2. \A q \in Requests, b \in Blocks : inputDatas[q][b] = EmptyFn
  BY DEF Init
<1>3. runs = {} /\ DOMAIN prefetch = Hosts
  BY DEF Init
<1>4. DOMAIN EmptyFn = {} /\ Range(EmptyFn) = {} /\ Range(<<>>) = {}
  BY DEF EmptyFn, Range
<1>5. RegisteredInv
  BY <1>1, <1>2, <1>3, <1>4 DEF RegisteredInv, HeldIn, AllIn
<1>6. ReadsInv /\ SerialInv /\ PrefetchInv
  BY <1>1, <1>3, <1>4 DEF ReadsInv, SerialInv, PrefetchInv
<1>7. CountsInv
  BY <1>1, <1>4 DEF CountsInv, ReportsInv, KeptUntilRead
<1> QED BY <1>5, <1>6, <1>7 DEF KInv

LEMMA NextKInv ==
  ASSUME \A b \in Blocks : ItemsAlone(b), IInv, RunsComplete, WholeInv, KInv, [Next]_vars
  PROVE  KInv'
<1>1. RegisteredInv'
  BY NextRegistered DEF KInv
<1>2. ReadsInv' /\ SerialInv' /\ PrefetchInv'
  BY NextReads DEF KInv
<1>3. CountsInv'
  BY NextCounts DEF KInv
<1> QED BY <1>1, <1>2, <1>3 DEF KInv

-----------------------------------------------------------------------------
(* Theorems                                                                *)

(* The counts of the flow monitors are right in every workflow that joins  *)
(* no item with another input, whatever posts are lost and runs crash.     *)
THEOREM KeysAreCounted ==
  ASSUME \A b \in Blocks : ItemsAlone(b) PROVE Spec => []KInv
<1>1. Spec => []RunsComplete
  BY CompleteRuns
<1>2. IInv /\ RunsComplete /\ WholeInv /\ KInv /\ [Next]_vars => KInv'
  BY NextKInv
<1> QED BY <1>1, <1>2, InitKInv, DeliveredOnce, ListsAreWhole, PTL DEF Spec

(* A key's count is that of the local blocks that have not read it and of  *)
(* the reports on their way.                                               *)
THEOREM KeysKeptUntilRead ==
  ASSUME \A b \in Blocks : ItemsAlone(b) PROVE Spec => []KeptUntilRead
<1>1. KInv => KeptUntilRead
  BY DEF KInv, CountsInv
<1> QED BY <1>1, KeysAreCounted, PTL

(* What a run has still to read is registered and counted at its host, and *)
(* its file is complete.                                                   *)
THEOREM ReadsAreBacked ==
  ASSUME \A b \in Blocks : ItemsAlone(b) PROVE Spec => []ReadsBacked
<1>1. ASSUME IInv, WholeInv, KInv PROVE ReadsBacked
  <2> SUFFICES ASSUME NEW r \in runs, NEW d \in Unread(r)
               PROVE  /\ Key(d) \in DOMAIN deps[Home[r.block]] /\ deps[Home[r.block]][Key(d)] > 0
                      /\ d.kind = "kafka" => prefetch[Home[r.block]][Key(d)] = "done"
    BY DEF ReadsBacked
  <2>1. Reads(r)
    BY <1>1 DEF KInv, ReadsInv
  <2>2. d \in ReferencesIn(r.block, r.inputs)
    BY <2>1 DEF Unread, Reads, Range
  <2>3. PICK h \in Hosts : h = Home[r.block] /\ Key(d) \in DOMAIN deps[h] /\ d \in Data
                           /\ d.req = r.req /\ r.block \in BlocksAt(d.out, h)
    BY <1>1, <2>2, ReferenceRegistered DEF KInv
  <2>4. ~HasRead(r.block, Key(d))
    <3> SUFFICES ASSUME NEW s \in runs, s.req = d.req, s.block = r.block, ReadBy(s, Key(d)) PROVE FALSE
      BY HasReadIs DEF Key
    <3>1. PICK e \in ReferencesIn(s.block, s.inputs) : Key(e) = Key(d)
      BY DEF ReadBy
    <3>2. r = s
      BY <1>1, <2>2, <2>3, <3>1, OneReader DEF KInv
    <3> QED BY <3>2 DEF ReadBy, Unread
  <2>5. IsFiniteSet(BlocksAt(d.out, h))
    BY <2>3, BlocksAreFew DEF Data
  <2> DEFINE M == Missing(h, Key(d))
  <2>6. M \subseteq BlocksAt(d.out, h) /\ r.block \in M
    BY <2>3, <2>4 DEF Missing, Key
  <2>7. ReportsOf(h, Key(d)) \in Nat
    BY <1>1, InboxTypes, ReportsAre DEF ReportsOf, IInv
  <2>8. deps[h][Key(d)] = Cardinality(M) + ReportsOf(h, Key(d))
    BY <1>1, <2>3 DEF KInv, CountsInv, KeptUntilRead, Missing
  <2> HIDE DEF M
  <2>9. Cardinality(M) \in Nat /\ Cardinality(M) # 0
    BY <2>5, <2>6, FS_Subset, FS_CardinalityType, FS_EmptySet
  <2>10. deps[h][Key(d)] > 0
    BY <2>7, <2>8, <2>9
  <2>11. d.kind = "kafka" => prefetch[h][Key(d)] = "done"
    BY <1>1, <2>2, <2>3 DEF KInv, PrefetchInv, Prefetched
  <2> QED BY <2>3, <2>10, <2>11
<1> QED BY <1>1, KeysAreCounted, DeliveredOnce, ListsAreWhole, PTL

(* The state of the gateway and of the workers is well typed; that no key  *)
(* is counted below zero needs the counts to be right.                     *)
THEOREM TypeCorrectness ==
  ASSUME \A b \in Blocks : ItemsAlone(b) PROVE Spec => []TypeOK
<1>1. ASSUME IInv, KInv PROVE TypeOK
  <2>1. /\ Inv /\ GatewayInv /\ NetInv /\ InboxInv /\ GreenInv /\ StateInv /\ RunInv
        /\ KeysInv /\ PrefetchInv /\ ReportsInv /\ KeptUntilRead
    BY <1>1 DEF IInv, Inv, DeliveryInv, AheadInv, KInv, CountsInv
  <2>2. \A d \in Data : IsDatum(d)
    BY DEF Data, IsDatum
  <2>3. \A m \in dataNet : m.to \in Hosts /\ \A d \in Range(m.datas) : IsDatum(d)
    BY <2>1, <2>2 DEF NetInv, IsMessage, Range
  <2>4. ASSUME NEW h \in Hosts, NEW d \in Range(backlog[h]) \cup Range(queue[h]) PROVE IsDatum(d)
    <3>1. CASE d.kind = "fetched"
      BY <2>1, <3>1 DEF ReportsInv, Reported
    <3>2. CASE d.kind # "fetched"
      <4>1. IsInbox(h, backlog[h]) /\ IsInbox(h, queue[h])
        BY <2>1 DEF InboxInv
      <4>2. \A s : IsInbox(h, s) /\ d \in Range(s) => d \in Data
        BY <3>2 DEF IsInbox, Range
      <4> QED BY <2>2, <4>1, <4>2
    <3> QED BY <3>1, <3>2
  <2>5. ASSUME NEW h \in Hosts PROVE Len(running[h]) <= 1
    <3>1. CASE running[h] = <<>>
      BY <3>1
    <3>2. CASE running[h] # <<>>
      <4>1. running[h] = <<running[h][1]>>
        BY <2>1, <3>2 DEF GreenInv
      <4>2. \A g : Len(<<g>>) <= 1
        OBVIOUS
      <4> QED BY <4>1, <4>2
    <3> QED BY <3>1, <3>2
  <2>6. \A q \in Requests, b \in Blocks : DOMAIN inputDatas[q][b] \subseteq DOMAIN Inputs[b]
    BY <2>1 DEF StateInv, IsInputs
  <2>7. ASSUME NEW h \in Hosts, NEW k \in DOMAIN deps[h] PROVE deps[h][k] \in Nat
    <3>1. IsFiniteSet(Missing(h, k))
      <4>1. CASE BlocksAt(k[2], h) = {}
        BY <4>1, FS_EmptySet DEF Missing
      <4>2. CASE BlocksAt(k[2], h) # {}
        <5>1. k \in Sent
          BY <2>1, <4>2 DEF KeysInv
        <5>2. PICK r \in runs : \E n \in 1..Len(r.posted) : k = DatumPosted(r, n)
          BY <5>1 DEF Sent, ProducedBy
        <5>3. PICK n \in 1..Len(r.posted) : k = DatumPosted(r, n)
          BY <5>2
        <5>4. r.posted[n] \in Outs
          BY <2>1, <5>3 DEF RunInv, IsRun
        <5>5. k[2] \in Outs
          BY <5>3, <5>4 DEF DatumPosted
        <5>6. IsFiniteSet(BlocksAt(k[2], h))
          BY <5>5, BlocksAreFew
        <5> QED BY <5>6, FS_Subset DEF Missing
      <4> QED BY <4>1, <4>2
    <3>2. Cardinality(Missing(h, k)) \in Nat
      BY <3>1, FS_CardinalityType
    <3>3. ReportsOf(h, k) \in Nat
      BY <2>1, InboxTypes, ReportsAre DEF ReportsOf
    <3>4. deps[h][k] = Cardinality(Missing(h, k)) + ReportsOf(h, k)
      BY <2>1 DEF KeptUntilRead, Missing
    <3> QED BY <3>2, <3>3, <3>4
  <2>8. \A h \in Hosts : Range(deps[h]) \subseteq Nat
    BY <2>7 DEF Range
  <2> QED BY <2>1, <2>3, <2>4, <2>5, <2>6, <2>8
          DEF TypeOK, GatewayInv, InboxInv, StateInv, PrefetchInv, RunInv, IsRun
<1> QED BY <1>1, KeysAreCounted, DeliveredOnce, PTL

=============================================================================
