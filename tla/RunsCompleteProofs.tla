------------------------- MODULE RunsCompleteProofs -------------------------
(***************************************************************************)
(* A block of WorkerSP runs on all the inputs that its workflow declares,  *)
(* unless it joins an item with another input: an item triggers its block  *)
(* whatever else has arrived. What it runs on was posted, and the lists    *)
(* among it are whole. So WorkerSP implements Dataflow: whatever is        *)
(* delayed, reordered or lost between gateway, workers and containers,     *)
(* each of their steps fires one instance on data that were posted, posts  *)
(* one new datum or answers from one, or does nothing that Dataflow sees.  *)
(***************************************************************************)
EXTENDS WorkerSPProofs

(* A block of items has no input besides the items.                        *)
ItemsAlone(b) == ForeachBlock(b) => \E i \in DOMAIN Inputs[b] : DOMAIN Inputs[b] = {i}

(* What is handed to a container, or is about to be, is complete.          *)
HasAll(b, ins) == ItemsAlone(b) => DOMAIN ins = DOMAIN Inputs[b]
AllInputsInv ==
  /\ \A r \in runs : HasAll(r.block, r.inputs)
  /\ \A h \in Hosts : \A g \in Calls(h) : HasAll(g.call[1].block, g.call[1].inputs)

-----------------------------------------------------------------------------
(* Steps                                                                   *)

LEMMA AllInputsSame ==
  ASSUME AllInputsInv, UNCHANGED <<runs, parked>> PROVE AllInputsInv'
BY DEF AllInputsInv, HasAll, Calls

LEMMA RunKeepsInputs ==
  ASSUME AllInputsInv, NEW r \in runs, NEW r2, Become(r, r2), UNCHANGED parked,
         r2.block = r.block, r2.inputs = r.inputs
  PROVE  AllInputsInv'
BY DEF AllInputsInv, HasAll, Calls, Become

LEMMA AllocatesAll ==
  ASSUME NEW q, NEW b, NEW ins, HasAll(b, ins), Allocate(q, b, ins), AllInputsInv
  PROVE  \A r \in runs' : HasAll(r.block, r.inputs)
<1> DEFINE s == BlockSerial(b, ins)
           before == {r \in runs : r.req = q /\ r.block = b /\ r.serial = s}
           new == [req |-> q, block |-> b, serial |-> s, nth |-> Cardinality(before) + 1,
                   inputs |-> ins, state |-> "queued",
                   reads |-> <<>>, posts |-> <<>>, posted |-> <<>>, uploads |-> <<>>]
<1>1. runs' = runs \cup {new} /\ new.block = b /\ new.inputs = ins
  BY DEF Allocate
<1> HIDE DEF new
<1> QED BY <1>1 DEF AllInputsInv

LEMMA TriggersAll ==
  ASSUME AllInputsInv, GreenInv, NEW h \in Hosts, NEW g, IsGreenlet(h, g), NEW b, NEW ins, HasAll(b, ins),
         TriggerNormal(h, g, b, ins)
  PROVE  AllInputsInv'
<1>1. CASE Allocate(g.data.req, b, ins) /\ UNCHANGED parked
  <2>1. \A r \in runs' : HasAll(r.block, r.inputs)
    BY <1>1, AllocatesAll
  <2> QED BY <1>1, <2>1 DEF AllInputsInv, HasAll, Calls
<1>2. CASE /\ parked' = [parked EXCEPT ![h] = @ \cup {[g EXCEPT !.call = <<[block |-> b, inputs |-> ins]>>]}]
           /\ UNCHANGED runs
  <2> DEFINE w == [g EXCEPT !.call = <<[block |-> b, inputs |-> ins]>>]
  <2>1. w.call[1].block = b /\ w.call[1].inputs = ins
    BY DEF IsGreenlet
  <2> HIDE DEF w
  <2>2. \A x \in Hosts : parked'[x] \subseteq parked[x] \cup {w}
    BY <1>2 DEF GreenInv, w
  <2>3. \A x \in Hosts : Calls(x)' \subseteq Calls(x) \cup {w}
    BY <2>2 DEF Calls
  <2> QED BY <1>2, <2>1, <2>3 DEF AllInputsInv, HasAll
<1> QED BY <1>1, <1>2 DEF TriggerNormal

(* Greenlets may leave parked, and one that calls nothing may enter it.    *)
LEMMA ParkedKeepsInputs ==
  ASSUME AllInputsInv, UNCHANGED runs, NEW w, w.call = <<>>,
         \A h \in Hosts : parked'[h] \subseteq parked[h] \cup {w}
  PROVE  AllInputsInv'
<1>1. \A h \in Hosts : Calls(h)' \subseteq Calls(h)
  BY DEF Calls
<1> QED BY <1>1 DEF AllInputsInv, HasAll

LEMMA FlowForeachAll ==
  ASSUME IInv, AllInputsInv, NEW h \in Hosts, FlowForeach(h) PROVE AllInputsInv'
<1> DEFINE g == running[h][1]
           x == Head(g.dests)
           stored == inputDatas[g.data.req][x.block]
           ins == With(stored, x.input, g.data)
<1>1. Flowing(h, "FOREACH") /\ TriggerNormal(h, Advance(g), x.block, ins) /\ Inv /\ GreenInv /\ StateInv
  BY DEF FlowForeach, IInv, Inv
<1>2. /\ IsGreenlet(h, g) /\ g.dests # <<>> /\ g.data.req \in Requests /\ x.block \in Blocks
      /\ x.input \in DOMAIN Inputs[x.block]
  BY <1>1, FlowingIs
<1>3. DOMAIN ins = DOMAIN stored \cup {x.input} /\ DOMAIN stored \subseteq DOMAIN Inputs[x.block]
  BY <1>1, <1>2 DEF With, StateInv, IsInputs
<1>4. ForeachBlock(x.block)
  <2>1. g.data.out \in Outs /\ x \in Range(Dest[g.data.out]) /\ OutType[g.data.out] = "FOREACH"
    BY <1>1, <1>2, HeadType DEF Flowing
  <2> QED BY <2>1 DEF ForeachBlock
<1> HIDE DEF ins, stored, x
<1>5. HasAll(x.block, ins)
  BY <1>2, <1>3, <1>4 DEF HasAll, ItemsAlone
<1>6. IsGreenlet(h, Advance(g))
  BY <1>2, AdvanceType
<1> QED BY <1>1, <1>5, <1>6, TriggersAll

(* The last input is counted: by CountInv all of them are there.           *)
LEMMA LastInputIs ==
  ASSUME IInv, IInv', NEW q \in Requests, NEW b \in Blocks, NEW ins, LastInput(q, b),
         inputDatas' = [inputDatas EXCEPT ![q][b] = ins], inputCnt' = [inputCnt EXCEPT ![q][b] = @ + 1]
  PROVE  /\ inputDatas'[q][b] = ins /\ IsInputs(q, b, ins)
         /\ Complete(q, b)' = DOMAIN Inputs[b] /\ DOMAIN ins = DOMAIN Inputs[b]
<1>1. inputDatas'[q][b] = ins /\ inputCnt'[q][b] = inputCnt[q][b] + 1
  BY DEF IInv, Inv, StateInv
<1>2. inputCnt'[q][b] = Cardinality(Complete(q, b)')
  BY DEF IInv, HistoryInv, CountInv
<1>3. IsInputs(q, b, ins)
  <2>1. StateInv'
    BY DEF IInv, Inv
  <2>2. IsInputs(q, b, inputDatas'[q][b])
    BY <2>1 DEF StateInv, IsInputs, IsList, IsInput
  <2> QED BY <1>1, <2>2
<1>4. /\ Cardinality(Complete(q, b)') = Cardinality(DOMAIN Inputs[b])
      /\ Complete(q, b)' \subseteq DOMAIN ins /\ DOMAIN ins \subseteq DOMAIN Inputs[b]
  BY <1>1, <1>2, <1>3 DEF LastInput, Complete, IsInputs
<1>5. IsFiniteSet(DOMAIN Inputs[b])
  BY ItemsAssumption
<1> DEFINE C == Complete(q, b)'
           I == DOMAIN Inputs[b]
<1>6. C \subseteq I /\ Cardinality(C) = Cardinality(I)
  BY <1>4
<1> HIDE DEF C, I
<1>7. C = I
  BY <1>5, <1>6, FS_Subset DEF I
<1> QED BY <1>1, <1>3, <1>4, <1>7 DEF C, I

LEMMA CountInputAll ==
  ASSUME IInv, IInv', AllInputsInv, NEW h \in Hosts, NEW g, IsGreenlet(h, g), NEW b \in Blocks,
         g.data.req \in Requests, NEW ins, CountInput(h, g, b, ins),
         inputDatas' = [inputDatas EXCEPT ![g.data.req][b] = ins]
  PROVE  AllInputsInv'
<1>1. CASE ~LastInput(g.data.req, b)
  BY <1>1, AllInputsSame DEF CountInput
<1>2. CASE LastInput(g.data.req, b)
  <2>1. TriggerNormal(h, g, b, ins) /\ inputCnt' = [inputCnt EXCEPT ![g.data.req][b] = @ + 1]
    BY <1>2 DEF CountInput
  <2>2. DOMAIN ins = DOMAIN Inputs[b]
    BY <1>2, <2>1, LastInputIs
  <2> QED BY <2>1, <2>2, TriggersAll DEF HasAll, IInv, Inv
<1> QED BY <1>1, <1>2

LEMMA FlowNormalAll ==
  ASSUME IInv, IInv', AllInputsInv, NEW h \in Hosts, FlowNormal(h) PROVE AllInputsInv'
<1> DEFINE g == running[h][1]
           q == g.data.req
           x == Head(g.dests)
           ins == With(inputDatas[q][x.block], x.input, g.data)
<1>1. Flowing(h, "NORMAL") /\ GreenInv
  BY DEF FlowNormal, IInv, Inv
<1>2. \/ UNCHANGED <<parked, runs>>
      \/ /\ inputDatas' = [inputDatas EXCEPT ![q][x.block] = ins]
         /\ CountInput(h, Advance(g), x.block, ins)
  BY DEF FlowNormal
<1>3. IsGreenlet(h, g) /\ g.dests # <<>> /\ q \in Requests /\ x.block \in Blocks
  BY <1>1, FlowingIs
<1>4. IsGreenlet(h, Advance(g)) /\ Advance(g).data = g.data
  BY <1>3, AdvanceType
<1> HIDE DEF x, ins
<1> QED BY <1>2, <1>3, <1>4, AllInputsSame, CountInputAll

LEMMA FlowMergeAll ==
  ASSUME IInv, IInv', AllInputsInv, NEW h \in Hosts, FlowMerge(h) PROVE AllInputsInv'
<1> DEFINE g == running[h][1]
           q == g.data.req
           x == Head(g.dests)
<1>1. Flowing(h, "MERGE") /\ GreenInv
  BY DEF FlowMerge, IInv, Inv
<1>2. IsGreenlet(h, g) /\ g.dests # <<>> /\ q \in Requests /\ x.block \in Blocks /\ g.call = <<>>
  BY <1>1, FlowingIs
<1>3. IsGreenlet(h, Advance(g)) /\ Advance(g).data = g.data
  BY <1>2, AdvanceType
<1>4. \/ UNCHANGED <<parked, runs>>
      \/ parked' = [parked EXCEPT ![h] = @ \cup {g}] /\ UNCHANGED runs
      \/ \E ins : /\ inputDatas' = [inputDatas EXCEPT ![q][x.block] = ins]
                  /\ CountInput(h, Advance(g), x.block, ins)
  BY DEF FlowMerge
<1>5. CASE parked' = [parked EXCEPT ![h] = @ \cup {g}] /\ UNCHANGED runs
  <2>1. \A k \in Hosts : parked'[k] \subseteq parked[k] \cup {g}
    BY <1>1, <1>5 DEF GreenInv
  <2> QED BY <1>2, <1>5, <2>1, ParkedKeepsInputs
<1> HIDE DEF x
<1> QED BY <1>2, <1>3, <1>4, <1>5, AllInputsSame, CountInputAll

LEMMA ResumeAll ==
  ASSUME IInv, AllInputsInv, NEW h \in Hosts, NEW g, ResumeMerge(h, g) \/ ResumeTrigger(h, g)
  PROVE  AllInputsInv'
<1>1. /\ parked' = [parked EXCEPT ![h] = @ \ {g}] /\ g \in parked[h]
      /\ UNCHANGED runs \/ (g.call # <<>> /\ Allocate(g.data.req, g.call[1].block, g.call[1].inputs))
  BY DEF ResumeMerge, ResumeTrigger
<1>2. \A k \in Hosts : Calls(k)' \subseteq Calls(k)
  <2>1. \A k \in Hosts : parked'[k] \subseteq parked[k]
    BY <1>1 DEF IInv, Inv, GreenInv
  <2> QED BY <2>1 DEF Calls
<1>3. \A r \in runs' : HasAll(r.block, r.inputs)
  <2>1. CASE UNCHANGED runs
    BY <2>1 DEF AllInputsInv
  <2>2. CASE g.call # <<>> /\ Allocate(g.data.req, g.call[1].block, g.call[1].inputs)
    <3>1. HasAll(g.call[1].block, g.call[1].inputs)
      BY <1>1, <2>2 DEF AllInputsInv, Calls
    <3> QED BY <2>2, <3>1, AllocatesAll
  <2> QED BY <1>1, <2>1, <2>2
<1> QED BY <1>2, <1>3 DEF AllInputsInv, HasAll

(* A step of a run: it goes on with the same inputs, or posts one output.  *)
LEMMA RunStepIs ==
  ASSUME Inv, NEW r \in runs,
         StartRun(r) \/ Fetch(r) \/ Post(r) \/ CountFails(r) \/ Upload(r) \/ Crash(r)
  PROVE  /\ UNCHANGED <<parked, inputDatas>>
         /\ \E r2 : /\ Become(r, r2) /\ r2.req = r.req /\ r2.block = r.block /\ r2.serial = r.serial
                    /\ r2.nth = r.nth /\ r2.inputs = r.inputs
                    /\ \/ r2.posted = r.posted
                       \/ /\ Post(r) /\ r.posts # <<>> /\ r2.state = r.state
                          /\ r2.posted = Append(r.posted, Head(r.posts)) /\ r2.posts = Tail(r.posts)
<1>1. IsRun(r)
  BY RunType
<1>2. UNCHANGED <<parked, inputDatas>>
  BY DEF StartRun, Fetch, Post, CountFails, Upload, Crash, greenVars, stateVars
<1> DEFINE Keeps(r2) == /\ r2.req = r.req /\ r2.block = r.block /\ r2.serial = r.serial
                        /\ r2.nth = r.nth /\ r2.inputs = r.inputs
<1>3. SUFFICES \E r2 : /\ Become(r, r2) /\ Keeps(r2)
                       /\ \/ r2.posted = r.posted
                          \/ /\ Post(r) /\ r.posts # <<>> /\ r2.state = r.state
                             /\ r2.posted = Append(r.posted, Head(r.posts)) /\ r2.posts = Tail(r.posts)
  BY <1>2
<1>4. CASE StartRun(r)
  <2>1. PICK s \in {"started", "failed"} : \E reads :
          \/ Become(r, [r EXCEPT !.state = s, !.reads = reads])
          \/ \E p : Become(r, [[r EXCEPT !.state = s, !.reads = reads] EXCEPT !.posts = p])
    BY <1>4 DEF StartRun
  <2>2. PICK reads :
          \/ Become(r, [r EXCEPT !.state = s, !.reads = reads])
          \/ \E p : Become(r, [[r EXCEPT !.state = s, !.reads = reads] EXCEPT !.posts = p])
    BY <2>1
  <2> DEFINE w == [r EXCEPT !.state = s, !.reads = reads]
  <2>3. /\ Keeps(w) /\ w.posted = r.posted
        /\ \A p : Keeps([w EXCEPT !.posts = p]) /\ [w EXCEPT !.posts = p].posted = r.posted
    BY <1>1 DEF IsRun
  <2> HIDE DEF Keeps
  <2> QED BY <2>2, <2>3
<1>5. CASE Fetch(r)
  <2> DEFINE w == [r EXCEPT !.reads = Tail(@)]
  <2>1. Become(r, w) /\ Keeps(w) /\ w.posted = r.posted
    BY <1>1, <1>5 DEF Fetch, IsRun
  <2> QED BY <2>1
<1>6. CASE CountFails(r)
  <2> DEFINE w == [r EXCEPT !.state = "failed", !.posts = <<>>]
  <2>1. Become(r, w) /\ Keeps(w) /\ w.posted = r.posted
    BY <1>1, <1>6 DEF CountFails, IsRun
  <2> QED BY <2>1
<1>7. CASE Upload(r)
  <2> DEFINE w == [r EXCEPT !.uploads = Tail(@)]
  <2>1. Become(r, w) /\ Keeps(w) /\ w.posted = r.posted
    BY <1>1, <1>7 DEF Upload, IsRun
  <2> QED BY <2>1
<1>8. CASE Crash(r)
  <2>1. PICK u : Become(r, [r EXCEPT !.state = "crashed", !.posts = <<>>, !.uploads = u])
    BY <1>8 DEF Crash
  <2> DEFINE w == [r EXCEPT !.state = "crashed", !.posts = <<>>, !.uploads = u]
  <2>2. Become(r, w) /\ Keeps(w) /\ w.posted = r.posted
    BY <1>1, <2>1 DEF IsRun
  <2> QED BY <2>2
<1>9. CASE Post(r)
  <2> DEFINE w == [r EXCEPT !.posts = Tail(@), !.posted = Append(@, Head(r.posts))]
             v == [w EXCEPT !.uploads = Append(@, NextDatum(r, "kafka"))]
             Posts(r2) == /\ r2.posted = Append(r.posted, Head(r.posts)) /\ r2.posts = Tail(r.posts)
                          /\ r2.state = r.state
  <2>1. r.posts # <<>> /\ (Become(r, w) \/ Become(r, v))
    BY <1>9 DEF Post
  <2>2. Keeps(w) /\ Keeps(v) /\ Posts(w) /\ Posts(v)
    BY <1>1 DEF IsRun
  <2>3. PICK r2 : Become(r, r2) /\ Keeps(r2) /\ Posts(r2)
    BY <2>1, <2>2
  <2> HIDE DEF Keeps
  <2> QED BY <1>9, <2>1, <2>3
<1> QED BY <1>4, <1>5, <1>6, <1>7, <1>8, <1>9

LEMMA RunStepAll ==
  ASSUME IInv, AllInputsInv, NEW r \in runs,
         StartRun(r) \/ Fetch(r) \/ Post(r) \/ CountFails(r) \/ Upload(r) \/ Crash(r)
  PROVE  AllInputsInv'
BY RunStepIs, RunKeepsInputs DEF IInv

LEMMA NextAllInputs ==
  ASSUME IInv, IInv', AllInputsInv, [Next]_vars PROVE AllInputsInv'
<1>1. ASSUME NEW q \in Requests, Run(q) \/ SendInputs(q) \/ Answer(q) \/ PostUserData(q) PROVE AllInputsInv'
  BY <1>1, AllInputsSame DEF Run, SendInputs, Answer, PostUserData, greenVars
<1>2. ASSUME NEW h \in Hosts, NEW q \in Requests, RequestInfo(h, q) PROVE AllInputsInv'
  BY <1>2, AllInputsSame DEF RequestInfo, greenVars
<1>3. ASSUME NEW m \in dataNet, TransferData(m) PROVE AllInputsInv'
  BY <1>3, AllInputsSame DEF TransferData, greenVars
<1>4. ASSUME NEW h \in Hosts, SocketServer(h) \/ DispatchFetched(h) \/ Dispatch(h) \/ ToUser(h) \/ ToRemote(h)
      PROVE  AllInputsInv'
  BY <1>4, AllInputsSame DEF SocketServer, DispatchFetched, Dispatch, ToUser, ToRemote, greenVars
<1>5. ASSUME NEW h \in Hosts, FlowForeach(h) \/ FlowMerge(h) \/ FlowNormal(h) PROVE AllInputsInv'
  BY <1>5, FlowForeachAll, FlowMergeAll, FlowNormalAll
<1>6. ASSUME NEW h \in Hosts, NEW k, PrefetchData(h, k) \/ LosePrefetch(h, k) PROVE AllInputsInv'
  BY <1>6, AllInputsSame DEF PrefetchData, LosePrefetch, greenVars
<1>7. ASSUME NEW h \in Hosts, NEW g, ResumeMerge(h, g) \/ ResumeTrigger(h, g) PROVE AllInputsInv'
  BY <1>7, ResumeAll
<1>8. ASSUME NEW r \in runs, StartRun(r) \/ Fetch(r) \/ Post(r) \/ CountFails(r) \/ Upload(r) \/ Crash(r)
      PROVE  AllInputsInv'
  BY <1>8, RunStepAll
<1>9. CASE LosePost
  BY <1>9, AllInputsSame DEF LosePost, greenVars
<1>10. CASE UNCHANGED vars
  BY <1>10, AllInputsSame DEF vars, greenVars
<1>11. CASE Step
  BY <1>1, <1>2, <1>3, <1>4, <1>5, <1>6, <1>7, <1>8, <1>11 DEF Step
<1>12. CASE Fault
  BY <1>6, <1>8, <1>9, <1>12 DEF Fault
<1> QED BY <1>10, <1>11, <1>12 DEF Next

-----------------------------------------------------------------------------
(* Lists are whole                                                         *)

(* What the user and the runs have posted.                                 *)
Posted == PostedByUser \cup Sent

(* Datum d was posted. A count that it brings was announced by a run that  *)
(* had posted all its items.                                               *)
Announces(p, d) ==
  p.req = d.req /\ d.out \in CntOuts /\ d.out \in Range(p.posted) /\ d.val = ForeachCount(p)
Announced(d) ==
  d.kind # "fetched" =>
    Key(d) \in Posted /\ (d.out \in CntOuts => \E p \in runs : Announces(p, d))
AnnouncedIn(s) == \A i \in 1..Len(s) : Announced(s[i])
AllAnnounced(b, ins) ==
  \A i \in DOMAIN ins : IF Inputs[b][i] = "LIST" THEN \A n \in DOMAIN ins[i] : Announced(ins[i][n])
                         ELSE Announced(ins[i])

(* So was all that waits in inboxes, posts, uploads and greenlets, and all *)
(* inputs.                                                                 *)
AnnouncedAt(boxed, queued, posts, rs, now, waiting, stored) ==
  /\ \A h \in Hosts : AnnouncedIn(boxed[h]) /\ AnnouncedIn(queued[h])
  /\ \A m \in posts : AnnouncedIn(m.datas)
  /\ \A r \in rs : AnnouncedIn(r.uploads)
  /\ \A h \in Hosts : now[h] # <<>> => Announced(now[h][1].data)
  /\ \A h \in Hosts : \A g \in waiting[h] : Announced(g.data)
  /\ \A q \in Requests, b \in Blocks : AllAnnounced(b, stored[q][b])
AnnouncedInv == AnnouncedAt(backlog, queue, dataNet, runs, running, parked, inputDatas)

(* A run posts no item once it has announced their number.                 *)
CountLast(r) ==
  /\ \A i, j \in 1..Len(r.posts) : i < j /\ r.posts[i] \in CntOuts => OutType[r.posts[j]] # "FOREACH"
  /\ \A o \in CntOuts : o \in Range(r.posted) =>
       \A i \in 1..Len(r.posts) : OutType[r.posts[i]] # "FOREACH"
CountLastInv == \A r \in runs : CountLast(r)

(* The serial numbers of the items that a run has posted.                  *)
ItemSerials(p) ==
  {Cardinality({m \in 1..(n - 1) : p.posted[m] = p.posted[n]}) :
     n \in {n \in 1..Len(p.posted) : OutType[p.posted[n]] = "FOREACH"}}

(* What a block gets was posted, and a list of it has an element for each  *)
(* item of the run that announced their number, and no other.              *)
Collects(d, l) ==
  \E p \in runs : /\ Announces(p, d) /\ DOMAIN l = ItemSerials(p)
                  /\ Cardinality(DOMAIN l) = ForeachCount(p)
Whole(b, ins) ==
  /\ AllAnnounced(b, ins)
  /\ \A i \in DOMAIN ins : Inputs[b][i] = "LIST" => Cnt \in DOMAIN ins /\ Collects(ins[Cnt], ins[i])
WholeInv ==
  /\ \A r \in runs : Whole(r.block, r.inputs)
  /\ \A h \in Hosts : \A g \in Calls(h) : Whole(g.call[1].block, g.call[1].inputs)

(* A list that is not whole yet has no other elements either.              *)
BoundInv ==
  \A q \in Requests, b \in Blocks : \A i \in DOMAIN inputDatas[q][b] :
    LET ins == inputDatas[q][b] IN
    Inputs[b][i] = "LIST" /\ Cnt \in DOMAIN ins =>
      \E p \in runs : Announces(p, ins[Cnt]) /\ DOMAIN ins[i] \subseteq ItemSerials(p)

-----------------------------------------------------------------------------
(* Announcements stay                                                      *)

(* What was posted and announced stays so.                                 *)
KeepsCounts ==
  /\ Posted \subseteq Posted'
  /\ \A p \in runs : \E r \in runs' :
       /\ r.req = p.req /\ Range(p.posted) \subseteq Range(r.posted)
       /\ \A o \in CntOuts : o \in Range(p.posted) =>
            ForeachCount(r) = ForeachCount(p) /\ ItemSerials(r) = ItemSerials(p)

LEMMA AnnouncedStays ==
  ASSUME KeepsCounts PROVE \A d : Announced(d) => Announced(d)'
<1> SUFFICES ASSUME NEW d, Announced(d), d.kind # "fetched"
             PROVE  Key(d) \in Posted' /\ (d.out \in CntOuts => \E p \in runs' : Announces(p, d))
  BY DEF Announced
<1>1. Key(d) \in Posted'
  BY DEF Announced, KeepsCounts
<1>2. ASSUME d.out \in CntOuts PROVE \E p \in runs' : Announces(p, d)
  <2>1. PICK p \in runs : p.req = d.req /\ d.out \in Range(p.posted) /\ d.val = ForeachCount(p)
    BY <1>2 DEF Announced, Announces
  <2>2. PICK r \in runs' : /\ r.req = p.req /\ Range(p.posted) \subseteq Range(r.posted)
                           /\ \A o \in CntOuts : o \in Range(p.posted) => ForeachCount(r) = ForeachCount(p)
    BY DEF KeepsCounts
  <2> QED BY <1>2, <2>1, <2>2 DEF Announces
<1> QED BY <1>1, <1>2

LEMMA AnnouncedButPosts ==
  ASSUME KeepsCounts,
         (\A m \in dataNet : AnnouncedIn(m.datas))',
         AnnouncedAt(backlog', queue', {}, runs', running', parked', inputDatas')
  PROVE  AnnouncedInv'
<1>1. \A d : Announced(d) => Announced(d)'
  BY AnnouncedStays
<1>2. \A s : AnnouncedIn(s) => AnnouncedIn(s)'
  BY <1>1 DEF AnnouncedIn
<1>3. \A b, ins : AllAnnounced(b, ins) => AllAnnounced(b, ins)'
  BY <1>1 DEF AllAnnounced
<1> USE DEF AnnouncedAt
<1>4. \A h \in Hosts : AnnouncedIn(backlog[h])' /\ AnnouncedIn(queue[h])'
  BY <1>2 DEF AnnouncedIn
<1>5. (\A r \in runs : AnnouncedIn(r.uploads))'
  BY <1>2
<1>6. /\ (\A h \in Hosts : running[h] # <<>> => Announced(running[h][1].data))'
      /\ (\A h \in Hosts : \A g \in parked[h] : Announced(g.data))'
  BY <1>1 DEF Announced
<1>7. (\A q \in Requests, b \in Blocks : AllAnnounced(b, inputDatas[q][b]))'
  BY <1>3 DEF AllAnnounced
<1> QED BY <1>4, <1>5, <1>6, <1>7 DEF AnnouncedInv

LEMMA AnnouncedKept ==
  ASSUME KeepsCounts,
         AnnouncedAt(backlog', queue', dataNet', runs', running', parked', inputDatas')
  PROVE  AnnouncedInv'
<1>1. \A s : AnnouncedIn(s) => AnnouncedIn(s)'
  BY AnnouncedStays DEF AnnouncedIn
<1>2. (\A m \in dataNet : AnnouncedIn(m.datas))'
  BY <1>1 DEF AnnouncedAt
<1>3. AnnouncedAt(backlog', queue', {}, runs', running', parked', inputDatas')
  BY DEF AnnouncedAt
<1> QED BY <1>2, <1>3, AnnouncedButPosts

(* The same fields are announced alike.                                    *)
LEMMA AnnouncedAlike ==
  ASSUME NEW d, NEW e, Announced(d), Key(e) = Key(d), e.val = d.val, d.kind # "fetched"
  PROVE  Announced(e)
BY DEF Announced, Announces, Key

(* What is appended, taken or handed on.                                   *)
LEMMA AppendAnnounced ==
  ASSUME NEW s, s \in Seq(Range(s)), NEW d, AnnouncedIn(s), Announced(d)
  PROVE  AnnouncedIn(Append(s, d))
<1>1. /\ Len(Append(s, d)) = Len(s) + 1 /\ Append(s, d)[Len(s) + 1] = d
      /\ \A i \in 1..Len(s) : Append(s, d)[i] = s[i]
  BY AppendIs
<1>2. Len(s) \in Nat
  OBVIOUS
<1> DEFINE t == Append(s, d)
<1> HIDE DEF t
<1>3. \A i \in 1..Len(t) : i \in 1..Len(s) \/ i = Len(s) + 1
  BY <1>1, <1>2 DEF t
<1> QED BY <1>1, <1>3 DEF AnnouncedIn, t

LEMMA TailAnnounced ==
  ASSUME NEW s, s \in Seq(Range(s)), s # <<>>, AnnouncedIn(s)
  PROVE  AnnouncedIn(Tail(s)) /\ Announced(Head(s))
<1>1. /\ Len(Tail(s)) = Len(s) - 1 /\ Len(s) >= 1 /\ Head(s) = s[1]
      /\ \A i \in 1..Len(Tail(s)) : Tail(s)[i] = s[i + 1]
  BY TailIs
<1>2. Len(s) \in Nat
  OBVIOUS
<1> DEFINE t == Tail(s)
<1> HIDE DEF t
<1>3. 1 \in 1..Len(s) /\ \A i \in 1..Len(t) : i + 1 \in 1..Len(s)
  BY <1>1, <1>2 DEF t
<1> QED BY <1>1, <1>3 DEF AnnouncedIn, t

LEMMA ConcatAnnounced ==
  ASSUME NEW s, s \in Seq(Range(s)), NEW S, NEW t \in Seq(S), AnnouncedIn(s), AnnouncedIn(t)
  PROVE  AnnouncedIn(s \o t)
<1>1. /\ Len(s \o t) = Len(s) + Len(t)
      /\ \A i \in 1..Len(s) : (s \o t)[i] = s[i]
      /\ \A i \in 1..Len(t) : (s \o t)[Len(s) + i] = t[i]
  BY ConcatIs
<1>2. Len(s) \in Nat /\ Len(t) \in Nat
  OBVIOUS
<1> DEFINE u == s \o t
<1> HIDE DEF u
<1>3. ASSUME NEW i \in 1..Len(u) PROVE Announced(u[i])
  <2>1. CASE i \in 1..Len(s)
    BY <1>1, <2>1 DEF AnnouncedIn, u
  <2>2. CASE i \notin 1..Len(s)
    <3>1. i - Len(s) \in 1..Len(t) /\ i = Len(s) + (i - Len(s))
      BY <1>1, <1>2, <2>2 DEF u
    <3>2. u[i] = t[i - Len(s)]
      BY <1>1, <3>1 DEF u
    <3> QED BY <3>1, <3>2 DEF AnnouncedIn
  <2> QED BY <2>1, <2>2
<1> QED BY <1>3 DEF AnnouncedIn, u

-----------------------------------------------------------------------------
(* Steps of gateway and workers                                            *)

(* Nothing of what is on its way changes, but posts may be lost.           *)
LEMMA AnnouncedSame ==
  ASSUME KeepsCounts, AnnouncedInv, UNCHANGED <<backlog, queue, runs, running, parked, inputDatas>>, dataNet' \subseteq dataNet
  PROVE  AnnouncedInv'
<1>2. AnnouncedAt(backlog', queue', dataNet', runs', running', parked', inputDatas')
  BY DEF AnnouncedInv, AnnouncedAt
<1> QED BY <1>2, AnnouncedKept

LEMMA SendInputsAnnounced ==
  ASSUME KeepsCounts, Inv, AnnouncedInv, NEW q \in Requests, SendInputs(q) PROVE AnnouncedInv'
<1>1. \A s : AnnouncedIn(s) => AnnouncedIn(s)'
  BY AnnouncedStays DEF AnnouncedIn
<1>2. \A o \in Range(GlobalInputs) : <<q, o, 0>> \in PostedByUser'
  BY DEF SendInputs, PostedByUser, Inv, GatewayInv
<1>3. ASSUME NEW h PROVE AnnouncedIn(InputsFor(q, h))'
  <2> DEFINE s == InputsFor(q, h)
  <2>1. \A i \in 1..Len(s) : s[i].req = q /\ s[i].out \in Range(GlobalInputs) /\ s[i].serial = 0
    BY InputsForType
  <2>2. \A o \in Range(GlobalInputs) : o \notin CntOuts
    BY PostingAssumption
  <2> HIDE DEF s
  <2>3. \A i \in 1..Len(s) : Key(s[i]) \in Posted' /\ s[i].out \notin CntOuts
    BY <1>2, <2>1, <2>2 DEF Key, Posted
  <2>4. \A i \in 1..Len(s) : Announced(s[i])'
    BY <2>3 DEF Announced
  <2>5. AnnouncedIn(s)'
    BY <2>4 DEF AnnouncedIn
  <2> QED BY <2>5 DEF s
<1>4. UNCHANGED <<backlog, queue, runs, running, parked, inputDatas>>
  BY DEF SendInputs, inboxVars, greenVars, stateVars
<1>5. AnnouncedAt(backlog', queue', dataNet, runs', running', parked', inputDatas')
  BY <1>4 DEF AnnouncedInv, AnnouncedAt
<1>6. \A m \in dataNet' : m \in dataNet \/ \E h \in Hosts : m.datas = InputsFor(q, h)
  BY DEF SendInputs
<1> DEFINE News == {m.datas : m \in dataNet'}
<1>7. ASSUME NEW s \in News PROVE AnnouncedIn(s)'
  <2>1. AnnouncedIn(s) \/ \E h \in Hosts : s = InputsFor(q, h)
    BY <1>6, <1>7 DEF AnnouncedInv, AnnouncedAt
  <2> QED BY <1>1, <1>3, <2>1
<1>8. (\A m \in dataNet : AnnouncedIn(m.datas))'
  BY <1>7
<1>9. AnnouncedAt(backlog', queue', {}, runs', running', parked', inputDatas')
  BY <1>5 DEF AnnouncedAt
<1> QED BY <1>8, <1>9, AnnouncedButPosts

LEMMA RequestInfoAnnounced ==
  ASSUME KeepsCounts, Inv, AnnouncedInv, NEW h \in Hosts, NEW q \in Requests, RequestInfo(h, q) PROVE AnnouncedInv'
<1>2. UNCHANGED <<backlog, queue, dataNet, runs, running, parked>>
  BY DEF RequestInfo, greenVars
<1>3. \A p \in Requests, b \in Blocks : inputDatas'[p][b] = EmptyFn \/ inputDatas'[p][b] = inputDatas[p][b]
  BY DEF RequestInfo, Inv, StateInv
<1>4. \A b : AllAnnounced(b, EmptyFn)
  BY DEF AllAnnounced, EmptyFn
<1>5. \A p \in Requests, b \in Blocks : AllAnnounced(b, inputDatas'[p][b])
  BY <1>3, <1>4 DEF AnnouncedInv, AnnouncedAt
<1>6. AnnouncedAt(backlog', queue', dataNet', runs', running', parked', inputDatas')
  BY <1>2, <1>5 DEF AnnouncedInv, AnnouncedAt
<1> QED BY <1>6, AnnouncedKept

(* Only the inboxes of a host and its running greenlet change.             *)
LEMMA AnnouncedOnHost ==
  ASSUME KeepsCounts, Inv, AnnouncedInv, NEW h \in Hosts, NEW s, NEW t, NEW u,
         backlog' = [backlog EXCEPT ![h] = s], queue' = [queue EXCEPT ![h] = t],
         running' = [running EXCEPT ![h] = u],
         AnnouncedIn(s), AnnouncedIn(t), u # <<>> => Announced(u[1].data),
         UNCHANGED <<runs, parked, inputDatas>>, \A m \in dataNet' \ dataNet : AnnouncedIn(m.datas)
  PROVE  AnnouncedInv'
<1>2. \A k \in Hosts : /\ backlog'[k] = IF k = h THEN s ELSE backlog[k]
                       /\ queue'[k] = IF k = h THEN t ELSE queue[k]
                       /\ running'[k] = IF k = h THEN u ELSE running[k]
  BY DEF Inv, InboxInv, GreenInv
<1>3. AnnouncedAt(backlog', queue', dataNet', runs', running', parked', inputDatas')
  BY <1>2 DEF AnnouncedInv, AnnouncedAt
<1> QED BY <1>3, AnnouncedKept

(* What waits on a host.                                                   *)
LEMMA InboxesAnnounced ==
  ASSUME Inv, AnnouncedInv, NEW h \in Hosts
  PROVE  /\ backlog[h] \in Seq(Range(backlog[h])) /\ queue[h] \in Seq(Range(queue[h]))
         /\ AnnouncedIn(backlog[h]) /\ AnnouncedIn(queue[h])
         /\ running[h] # <<>> => Announced(running[h][1].data)
         /\ backlog = [backlog EXCEPT ![h] = backlog[h]] /\ queue = [queue EXCEPT ![h] = queue[h]]
         /\ running = [running EXCEPT ![h] = running[h]]
BY DEF Inv, InboxInv, IsInbox, GreenInv, AnnouncedInv, AnnouncedAt

LEMMA TransferDataAnnounced ==
  ASSUME KeepsCounts, Inv, AnnouncedInv, NEW m \in dataNet, TransferData(m) PROVE AnnouncedInv'
<1> DEFINE h == m.to
           t == IF Admitted(h, m.datas[1].req) THEN queue[h] \o m.datas ELSE queue[h]
<1>1. IsMessage(m) /\ AnnouncedIn(m.datas)
  BY DEF Inv, NetInv, AnnouncedInv, AnnouncedAt
<1>2. h \in Hosts /\ m.datas \in Seq(Data)
  BY <1>1 DEF IsMessage
<1>3. AnnouncedIn(t)
  BY <1>1, <1>2, InboxesAnnounced, ConcatAnnounced
<1>4. queue' = [queue EXCEPT ![h] = t]
  BY <1>2, InboxesAnnounced DEF TransferData
<1>5. dataNet' \subseteq dataNet /\ UNCHANGED <<backlog, runs, running, parked, inputDatas>>
  BY DEF TransferData, greenVars, stateVars
<1> HIDE DEF t, h
<1> QED BY <1>2, <1>3, <1>4, <1>5, InboxesAnnounced, AnnouncedOnHost

LEMMA SocketServerAnnounced ==
  ASSUME KeepsCounts, Inv, AnnouncedInv, NEW h \in Hosts, SocketServer(h) PROVE AnnouncedInv'
<1> DEFINE s == backlog[h]
           t == queue[h]
           d == Head(s)
           ss == Tail(s)
           tt == Append(t, d)
<1>1. /\ s # <<>> /\ backlog' = [backlog EXCEPT ![h] = ss]
      /\ queue' = [queue EXCEPT ![h] = tt] \/ queue' = queue
      /\ UNCHANGED <<dataNet, runs, running, parked, inputDatas>>
  BY DEF SocketServer, netVars, greenVars, stateVars
<1>2. s \in Seq(Range(s)) /\ t \in Seq(Range(t)) /\ AnnouncedIn(s) /\ AnnouncedIn(t)
  BY InboxesAnnounced
<1> HIDE DEF s, t
<1>3. AnnouncedIn(ss) /\ Announced(d)
  BY <1>1, <1>2, TailAnnounced
<1> HIDE DEF d, ss
<1>4. AnnouncedIn(tt)
  BY <1>2, <1>3, AppendAnnounced
<1>5. PICK u \in {t, tt} : queue' = [queue EXCEPT ![h] = u]
  BY <1>1, InboxesAnnounced DEF t
<1> HIDE DEF tt
<1> QED BY <1>1, <1>2, <1>3, <1>4, <1>5, InboxesAnnounced, AnnouncedOnHost

LEMMA DispatchAnnounced ==
  ASSUME KeepsCounts, Inv, AnnouncedInv, NEW h \in Hosts, DispatchFetched(h) \/ Dispatch(h) PROVE AnnouncedInv'
<1> DEFINE t == queue[h]
           d == Head(t)
           tt == Tail(t)
<1>1. /\ t # <<>> /\ queue' = [queue EXCEPT ![h] = tt]
      /\ running' = running \/ (running' = [running EXCEPT ![h] = Continue(Greenlet(h, d))] /\ d.kind # "fetched")
      /\ UNCHANGED <<backlog, dataNet, runs, parked, inputDatas>>
  BY DEF DispatchFetched, Dispatch, netVars, greenVars, stateVars
<1>2. t \in Seq(Range(t)) /\ AnnouncedIn(t)
  BY InboxesAnnounced
<1> HIDE DEF t
<1>3. AnnouncedIn(tt) /\ Announced(d)
  BY <1>1, <1>2, TailAnnounced
<1>4. Greenlet(h, d).data = d
  BY DEF Greenlet
<1> HIDE DEF d, tt
<1>5. PICK u : running' = [running EXCEPT ![h] = u] /\ (u # <<>> => Announced(u[1].data))
  <2>1. CASE running' = running
    BY <2>1, InboxesAnnounced
  <2>2. CASE running' = [running EXCEPT ![h] = Continue(Greenlet(h, d))]
    BY <1>3, <1>4, <2>2, ContinueIs
  <2> QED BY <1>1, <2>1, <2>2
<1> QED BY <1>1, <1>3, <1>5, InboxesAnnounced, AnnouncedOnHost

LEMMA ToUserAnnounced ==
  ASSUME KeepsCounts, Inv, AnnouncedInv, NEW h \in Hosts, ToUser(h) PROVE AnnouncedInv'
<1> DEFINE g == running[h][1]
<1>1. /\ running[h] # <<>> /\ running' = [running EXCEPT ![h] = Continue(Advance(g))]
      /\ UNCHANGED <<backlog, queue, dataNet, runs, parked, inputDatas>>
  BY DEF ToUser, inboxVars, stateVars
<1>2. Advance(g).data = g.data /\ Announced(g.data)
  BY <1>1, RunningIs, AdvanceType, InboxesAnnounced DEF Inv
<1>3. Continue(Advance(g)) # <<>> => Announced(Continue(Advance(g))[1].data)
  BY <1>2, ContinueIs
<1> DEFINE u == Continue(Advance(g))
<1> HIDE DEF g, u
<1>4. running' = [running EXCEPT ![h] = u] /\ (u # <<>> => Announced(u[1].data))
  BY <1>1, <1>3 DEF u
<1> QED BY <1>1, <1>4, InboxesAnnounced, AnnouncedOnHost

LEMMA ToRemoteAnnounced ==
  ASSUME KeepsCounts, Inv, AnnouncedInv, NEW h \in Hosts, ToRemote(h) PROVE AnnouncedInv'
<1> DEFINE g == running[h][1]
           b == Head(g.dests).block
           d == [g.data EXCEPT !.fromLocal = FALSE]
           m == [to |-> Home[b], sender |-> b, datas |-> <<d>>]
           w == [g EXCEPT !.sent = @ \cup {Home[b]}]
<1>1. /\ running[h] # <<>> /\ running' = [running EXCEPT ![h] = Continue(Advance(w))]
      /\ dataNet' = dataNet \/ dataNet' = dataNet \cup {m}
      /\ UNCHANGED <<backlog, queue, runs, parked, inputDatas>>
  BY DEF ToRemote, inboxVars, stateVars
<1>2. IsGreenlet(h, g) /\ g.data \in Data /\ Announced(g.data)
  BY <1>1, RunningIs, InboxesAnnounced DEF Inv
<1>3. Advance(w).data = g.data
  BY <1>2 DEF Advance, IsGreenlet
<1>4. Key(d) = Key(g.data) /\ d.val = g.data.val /\ g.data.kind # "fetched"
  BY <1>2 DEF Data, Key
<1> HIDE DEF g
<1>5. Announced(d)
  BY <1>2, <1>4, AnnouncedAlike
<1> HIDE DEF d
<1>6. AnnouncedIn(<<d>>)
  BY <1>5 DEF AnnouncedIn
<1>7. AnnouncedIn(m.datas)
  BY <1>6
<1>8. PICK u : running' = [running EXCEPT ![h] = u] /\ (u # <<>> => Announced(u[1].data))
  BY <1>1, <1>2, <1>3, ContinueIs
<1> HIDE DEF m
<1> QED BY <1>1, <1>7, <1>8, InboxesAnnounced, AnnouncedOnHost

(* What trigger_normal and the steps around it do to runs and greenlets.   *)
NewRun(r, b, ins) ==
  r.block = b /\ r.inputs = ins /\ r.uploads = <<>> /\ r.posts = <<>> /\ r.posted = <<>>

LEMMA AllocatesNew ==
  ASSUME NEW q, NEW b, NEW ins, Allocate(q, b, ins)
  PROVE  \E r : NewRun(r, b, ins) /\ runs' = runs \cup {r}
<1> DEFINE s == BlockSerial(b, ins)
           before == {r \in runs : r.req = q /\ r.block = b /\ r.serial = s}
           new == [req |-> q, block |-> b, serial |-> s, nth |-> Cardinality(before) + 1,
                   inputs |-> ins, state |-> "queued",
                   reads |-> <<>>, posts |-> <<>>, posted |-> <<>>, uploads |-> <<>>]
<1>1. runs' = runs \cup {new}
  BY DEF Allocate
<1>2. NewRun(new, b, ins)
  BY DEF NewRun
<1> QED BY <1>1, <1>2

LEMMA TriggerIs ==
  ASSUME Inv, NEW h \in Hosts, NEW g, IsGreenlet(h, g), NEW b, NEW ins, TriggerNormal(h, g, b, ins)
  PROVE  /\ \E u \in {<<>>, <<g>>} : running' = [running EXCEPT ![h] = u]
         /\ runs' = runs \/ \E r : NewRun(r, b, ins) /\ runs' = runs \cup {r}
         /\ \E w : /\ w.data = g.data /\ w.call # <<>> /\ w.call[1].block = b /\ w.call[1].inputs = ins
                   /\ \A k \in Hosts : parked'[k] \subseteq parked[k] \cup {w}
<1> DEFINE w == [g EXCEPT !.call = <<[block |-> b, inputs |-> ins]>>]
<1>1. w.data = g.data /\ w.call # <<>> /\ w.call[1].block = b /\ w.call[1].inputs = ins
  BY DEF IsGreenlet
<1>2. /\ \/ running' = [running EXCEPT ![h] = Continue(g)]
         \/ running' = [running EXCEPT ![h] = <<>>]
      /\ runs' = runs \/ Allocate(g.data.req, b, ins)
      /\ parked' = parked \/ parked' = [parked EXCEPT ![h] = @ \cup {w}]
  BY DEF TriggerNormal
<1> HIDE DEF w
<1>3. \E u \in {<<>>, <<g>>} : running' = [running EXCEPT ![h] = u]
  BY <1>2, ContinueIs
<1>4. runs' = runs \/ \E r : NewRun(r, b, ins) /\ runs' = runs \cup {r}
  BY <1>2, AllocatesNew
<1>5. \A k \in Hosts : parked'[k] \subseteq parked[k] \cup {w}
  BY <1>2 DEF Inv, GreenInv
<1> QED BY <1>1, <1>3, <1>4, <1>5

(* A greenlet that is announced flows: it stores ins, and triggers or not. *)
LEMMA FlowAnnounced ==
  ASSUME KeepsCounts, Inv, AnnouncedInv, NEW h \in Hosts, NEW u, NEW w, running' = [running EXCEPT ![h] = u],
         u # <<>> => Announced(u[1].data), Announced(w.data),
         runs \subseteq runs', \A r \in runs' \ runs : r.uploads = <<>>,
         \A k \in Hosts : parked'[k] \subseteq parked[k] \cup {w},
         \A q \in Requests, b \in Blocks : AllAnnounced(b, inputDatas'[q][b]),
         UNCHANGED <<backlog, queue, dataNet>>
  PROVE  AnnouncedInv'
<1>2. \A k \in Hosts : running'[k] = IF k = h THEN u ELSE running[k]
  BY DEF Inv, GreenInv
<1>3. AnnouncedIn(<<>>)
  BY DEF AnnouncedIn
<1>4. \A r \in runs' : AnnouncedIn(r.uploads)
  BY <1>3 DEF AnnouncedInv, AnnouncedAt
<1>5. /\ \A k \in Hosts : running'[k] # <<>> => Announced(running'[k][1].data)
      /\ \A k \in Hosts : \A g \in parked'[k] : Announced(g.data)
  BY <1>2 DEF AnnouncedInv, AnnouncedAt
<1>6. AnnouncedAt(backlog', queue', dataNet', runs', running', parked', inputDatas')
  BY <1>4, <1>5 DEF AnnouncedInv, AnnouncedAt
<1> QED BY <1>6, AnnouncedKept

LEMMA TriggerAnnounced ==
  ASSUME KeepsCounts, Inv, AnnouncedInv, NEW h \in Hosts, NEW g, IsGreenlet(h, g), Announced(g.data),
         NEW b, NEW ins, TriggerNormal(h, g, b, ins),
         \A p \in Requests, c \in Blocks : AllAnnounced(c, inputDatas'[p][c]),
         UNCHANGED <<backlog, queue, dataNet>>
  PROVE  AnnouncedInv'
<1>1. PICK u \in {<<>>, <<g>>} : running' = [running EXCEPT ![h] = u]
  BY TriggerIs
<1>2. runs \subseteq runs' /\ \A r \in runs' \ runs : r.uploads = <<>>
  BY TriggerIs DEF NewRun
<1>3. PICK w : w.data = g.data /\ \A k \in Hosts : parked'[k] \subseteq parked[k] \cup {w}
  BY TriggerIs
<1>4. u # <<>> => Announced(u[1].data)
  BY <1>1
<1> QED BY <1>1, <1>2, <1>3, <1>4, FlowAnnounced

LEMMA FlowForeachAnnounced ==
  ASSUME KeepsCounts, Inv, AnnouncedInv, NEW h \in Hosts, FlowForeach(h) PROVE AnnouncedInv'
<1> DEFINE g == running[h][1]
           x == Head(g.dests)
           ins == With(inputDatas[g.data.req][x.block], x.input, g.data)
<1>1. /\ Flowing(h, "FOREACH") /\ TriggerNormal(h, Advance(g), x.block, ins)
      /\ UNCHANGED <<backlog, queue, dataNet, inputDatas>>
  BY DEF FlowForeach, netVars, inboxVars, stateVars
<1>2. running[h] # <<>> /\ IsGreenlet(h, g) /\ g.dests # <<>>
  BY <1>1, FlowingIs DEF Inv
<1>3. IsGreenlet(h, Advance(g)) /\ Announced(Advance(g).data)
  BY <1>2, AdvanceType, InboxesAnnounced
<1>4. \A p \in Requests, c \in Blocks : AllAnnounced(c, inputDatas'[p][c])
  BY <1>1 DEF AnnouncedInv, AnnouncedAt
<1> HIDE DEF g, x, ins
<1> QED BY <1>1, <1>3, <1>4, TriggerAnnounced

(* The inputs that a flow stores.                                          *)
LEMMA StoresAnnounced ==
  ASSUME Inv, AnnouncedInv, NEW q \in Requests, NEW b \in Blocks, NEW ins, AllAnnounced(b, ins),
         inputDatas' = [inputDatas EXCEPT ![q][b] = ins]
  PROVE  \A p \in Requests, c \in Blocks : AllAnnounced(c, inputDatas'[p][c])
<1>1. \A p \in Requests, c \in Blocks : (c = b /\ inputDatas'[p][c] = ins) \/ inputDatas'[p][c] = inputDatas[p][c]
  BY DEF Inv, StateInv
<1> QED BY <1>1 DEF AnnouncedInv, AnnouncedAt

(* The greenlet that stores an input goes on, or triggers, or waits.       *)
LEMMA CountAnnounced ==
  ASSUME KeepsCounts, Inv, AnnouncedInv, NEW h \in Hosts, NEW g, IsGreenlet(h, g), Announced(g.data),
         NEW b \in Blocks, NEW ins, CountInput(h, g, b, ins),
         \A p \in Requests, c \in Blocks : AllAnnounced(c, inputDatas'[p][c]),
         UNCHANGED <<backlog, queue, dataNet>>
  PROVE  AnnouncedInv'
<1>1. CASE LastInput(g.data.req, b)
  BY <1>1, TriggerAnnounced DEF CountInput
<1>2. CASE ~LastInput(g.data.req, b)
  <2>1. running' = [running EXCEPT ![h] = Continue(g)] /\ UNCHANGED <<parked, runs>>
    BY <1>2 DEF CountInput
  <2>2. PICK u \in {<<>>, <<g>>} : running' = [running EXCEPT ![h] = u]
    BY <2>1, ContinueIs
  <2>3. u # <<>> => Announced(u[1].data)
    BY <2>2
  <2>4. \A k \in Hosts : parked'[k] \subseteq parked[k] \cup {g}
    BY <2>1
  <2> QED BY <2>1, <2>2, <2>3, <2>4, FlowAnnounced
<1> QED BY <1>1, <1>2

LEMMA FlowNormalAnnounced ==
  ASSUME KeepsCounts, Inv, AnnouncedInv, NEW h \in Hosts, FlowNormal(h) PROVE AnnouncedInv'
<1> DEFINE g == running[h][1]
           x == Head(g.dests)
           q == g.data.req
           stored == inputDatas[q][x.block]
           ins == With(stored, x.input, g.data)
           a == Advance(g)
<1>1. /\ Flowing(h, "NORMAL") /\ UNCHANGED <<backlog, queue, dataNet>>
      /\ \/ running' = [running EXCEPT ![h] = Continue(a)] /\ UNCHANGED <<parked, runs, inputDatas>>
         \/ /\ inputDatas' = [inputDatas EXCEPT ![q][x.block] = ins]
            /\ CountInput(h, a, x.block, ins)
  BY DEF FlowNormal, netVars, inboxVars, stateVars
<1>2. /\ running[h] # <<>> /\ IsGreenlet(h, g) /\ g.dests # <<>> /\ q \in Requests /\ x.block \in Blocks
      /\ Inputs[x.block][x.input] # "LIST"
  <2>1. GreenInv
    BY DEF Inv
  <2>2. ("NORMAL" = "MERGE") <=> (Inputs[x.block][x.input] = "LIST")
    BY <1>1, <2>1, FlowingIs
  <2> QED BY <1>1, <2>1, <2>2, FlowingIs
<1>3. IsGreenlet(h, a) /\ a.data = g.data /\ Announced(g.data)
  BY <1>2, AdvanceType, InboxesAnnounced
<1>4. CASE running' = [running EXCEPT ![h] = Continue(a)] /\ UNCHANGED <<parked, runs, inputDatas>>
  <2>1. PICK u \in {<<>>, <<a>>} : running' = [running EXCEPT ![h] = u]
    BY <1>4, ContinueIs
  <2>2. u # <<>> => Announced(u[1].data)
    BY <1>3, <2>1
  <2>3. backlog = [backlog EXCEPT ![h] = backlog[h]] /\ queue = [queue EXCEPT ![h] = queue[h]]
    BY InboxesAnnounced
  <2> HIDE DEF a
  <2> QED BY <1>1, <1>4, <2>1, <2>2, <2>3, InboxesAnnounced, AnnouncedOnHost
<1>5. CASE /\ inputDatas' = [inputDatas EXCEPT ![q][x.block] = ins]
           /\ CountInput(h, a, x.block, ins)
  <2>1. AllAnnounced(x.block, stored)
    BY <1>2 DEF AnnouncedInv, AnnouncedAt
  <2> HIDE DEF g, x, stored, q
  <2>2. AllAnnounced(x.block, ins)
    BY <1>2, <1>3, <2>1 DEF AllAnnounced, With
  <2> HIDE DEF ins, a
  <2>3. \A p \in Requests, c \in Blocks : AllAnnounced(c, inputDatas'[p][c])
    BY <1>2, <1>5, <2>2, StoresAnnounced
  <2> QED BY <1>1, <1>2, <1>3, <1>5, <2>3, CountAnnounced
<1> QED BY <1>1, <1>4, <1>5

LEMMA FlowMergeAnnounced ==
  ASSUME KeepsCounts, Inv, AnnouncedInv, NEW h \in Hosts, FlowMerge(h) PROVE AnnouncedInv'
<1> DEFINE g == running[h][1]
           x == Head(g.dests)
           q == g.data.req
           stored == inputDatas[q][x.block]
           a == Advance(g)
<1>0. PICK list : list = IF Cnt \in DOMAIN stored THEN With(ListInput(q, x), g.data.serial, g.data)
                         ELSE ListInput(q, x)
  OBVIOUS
<1> DEFINE ins == With(stored, x.input, list)
<1>1. /\ Flowing(h, "MERGE") /\ UNCHANGED <<backlog, queue, dataNet>>
      /\ inputDatas' = [inputDatas EXCEPT ![q][x.block] = ins]
      /\ \/ CountInput(h, a, x.block, ins)
         \/ /\ \/ running' = [running EXCEPT ![h] = Continue(a)]
               \/ running' = [running EXCEPT ![h] = <<>>]
            /\ \/ parked' = parked
               \/ parked' = [parked EXCEPT ![h] = @ \cup {g}]
            /\ UNCHANGED runs
  BY <1>0 DEF FlowMerge, netVars, inboxVars
<1>2. /\ running[h] # <<>> /\ IsGreenlet(h, g) /\ g.dests # <<>> /\ q \in Requests /\ x.block \in Blocks
      /\ x.input \in DOMAIN Inputs[x.block] /\ Inputs[x.block][x.input] = "LIST"
  BY <1>1, FlowingIs DEF Inv
<1>3. IsGreenlet(h, a) /\ a.data = g.data /\ Announced(g.data)
  BY <1>2, AdvanceType, InboxesAnnounced
<1>4. AllAnnounced(x.block, stored)
  BY <1>2 DEF AnnouncedInv, AnnouncedAt
<1>5. \A n \in DOMAIN list : Announced(list[n])
  <2>1. \A n \in DOMAIN ListInput(q, x) : Announced(ListInput(q, x)[n])
    <3>1. x.input \in DOMAIN stored => \A n \in DOMAIN stored[x.input] : Announced(stored[x.input][n])
      BY <1>2, <1>4 DEF AllAnnounced
    <3> QED BY <3>1 DEF ListInput, EmptyFn
  <2>2. \A l : (\A n \in DOMAIN l : Announced(l[n])) =>
                  \A n \in DOMAIN With(l, g.data.serial, g.data) : Announced(With(l, g.data.serial, g.data)[n])
    BY <1>3 DEF With
  <2> HIDE DEF stored, x
  <2> QED BY <1>0, <2>1, <2>2
<1>6. \A k \in Hosts : parked[k] \subseteq parked[k] \cup {g}
  OBVIOUS
<1> HIDE DEF g, x, stored, q
<1>7. AllAnnounced(x.block, ins)
  BY <1>2, <1>4, <1>5 DEF AllAnnounced, With
<1> HIDE DEF ins, a
<1>8. \A p \in Requests, c \in Blocks : AllAnnounced(c, inputDatas'[p][c])
  BY <1>1, <1>2, <1>7, StoresAnnounced
<1>9. CASE CountInput(h, a, x.block, ins)
  BY <1>1, <1>2, <1>3, <1>8, <1>9, CountAnnounced
<1>10. CASE /\ \/ running' = [running EXCEPT ![h] = Continue(a)]
               \/ running' = [running EXCEPT ![h] = <<>>]
            /\ \/ parked' = parked
               \/ parked' = [parked EXCEPT ![h] = @ \cup {g}]
            /\ UNCHANGED runs
  <2>1. PICK u \in {<<>>, <<a>>} : running' = [running EXCEPT ![h] = u]
    BY <1>10, ContinueIs
  <2>2. u # <<>> => Announced(u[1].data)
    BY <1>3, <2>1
  <2>3. \A k \in Hosts : parked'[k] \subseteq parked[k] \cup {g}
    BY <1>10 DEF Inv, GreenInv
  <2> QED BY <1>1, <1>3, <1>8, <1>10, <2>1, <2>2, <2>3, FlowAnnounced
<1> QED BY <1>1, <1>9, <1>10

LEMMA ResumeAnnounced ==
  ASSUME KeepsCounts, Inv, AnnouncedInv, NEW h \in Hosts, NEW g, ResumeMerge(h, g) \/ ResumeTrigger(h, g)
  PROVE  AnnouncedInv'
<1> DEFINE e == [g EXCEPT !.call = <<>>]
<1>1. /\ g \in parked[h] /\ parked' = [parked EXCEPT ![h] = @ \ {g}]
      /\ \/ running' = [running EXCEPT ![h] = <<g>>]
         \/ running' = [running EXCEPT ![h] = Continue(e)]
      /\ runs' = runs \/ Allocate(g.data.req, g.call[1].block, g.call[1].inputs)
      /\ UNCHANGED <<backlog, queue, dataNet, inputDatas>>
  BY DEF ResumeMerge, ResumeTrigger, netVars, inboxVars, stateVars
<1>2. e.data = g.data /\ Announced(g.data)
  BY <1>1 DEF Inv, GreenInv, IsGreenlet, AnnouncedInv, AnnouncedAt
<1> HIDE DEF e
<1>3. PICK u \in {<<>>, <<g>>, <<e>>} : running' = [running EXCEPT ![h] = u]
  BY <1>1, ContinueIs
<1>4. u # <<>> => Announced(u[1].data)
  BY <1>2, <1>3
<1>5. runs \subseteq runs' /\ \A r \in runs' \ runs : r.uploads = <<>>
  BY <1>1, AllocatesNew DEF NewRun
<1>6. \A k \in Hosts : parked'[k] \subseteq parked[k] \cup {g}
  BY <1>1 DEF Inv, GreenInv
<1>7. \A p \in Requests, c \in Blocks : AllAnnounced(c, inputDatas'[p][c])
  BY <1>1 DEF AnnouncedInv, AnnouncedAt
<1> QED BY <1>1, <1>2, <1>3, <1>4, <1>5, <1>6, <1>7, FlowAnnounced

-----------------------------------------------------------------------------
(* Steps of the runs                                                       *)

LEMMA AnnouncedByRun ==
  ASSUME Inv, AnnouncedInv, NEW r \in runs, NEW r2, Become(r, r2), r2.req = r.req,
         AnnouncedIn(r2.uploads), KeepsCounts, NEW s, AnnouncedIn(s),
         backlog' = [backlog EXCEPT ![Home[r.block]] = s],
         UNCHANGED <<queue, dataNet, running, parked, inputDatas>>
  PROVE  AnnouncedInv'
<1>1. Home[r.block] \in Hosts
  BY RunType
<1> DEFINE h == Home[r.block]
<1>2. \A k \in Hosts : backlog'[k] = IF k = h THEN s ELSE backlog[k]
  BY DEF Inv, InboxInv
<1> HIDE DEF h
<1>3. \A e \in runs' : AnnouncedIn(e.uploads)
  BY DEF Become, AnnouncedInv, AnnouncedAt
<1>4. AnnouncedAt(backlog', queue', dataNet', runs', running', parked', inputDatas')
  BY <1>2, <1>3 DEF AnnouncedInv, AnnouncedAt
<1> QED BY <1>4, AnnouncedKept

(* A run that posts nothing and uploads what it had to, or less.           *)
LEMMA QuietRun ==
  ASSUME KeepsCounts, Inv, AnnouncedInv, CountLastInv, NEW r \in runs, NEW r2, Become(r, r2), r2.req = r.req,
         r2.posted = r.posted, CountLast(r2), AnnouncedIn(r2.uploads), NEW d, Announced(d),
         UNCHANGED backlog \/ Send(Home[r.block], d),
         UNCHANGED <<queue, dataNet, running, parked, inputDatas>>
  PROVE  AnnouncedInv' /\ CountLastInv'
<1>1. Home[r.block] \in Hosts
  BY RunType
<1> DEFINE h == Home[r.block]
<1>3. PICK s \in {backlog[h], Append(backlog[h], d)} : backlog' = [backlog EXCEPT ![h] = s]
  BY <1>1, InboxesAnnounced DEF Send
<1>4. AnnouncedIn(s)
  <2>1. backlog[h] \in Seq(Range(backlog[h])) /\ AnnouncedIn(backlog[h])
    BY <1>1, InboxesAnnounced
  <2> HIDE DEF h
  <2>2. AnnouncedIn(Append(backlog[h], d))
    BY <2>1, AppendAnnounced
  <2> QED BY <2>1, <2>2
<1>5. CountLastInv'
  BY DEF CountLastInv, CountLast, Become
<1> QED BY <1>3, <1>4, <1>5, AnnouncedByRun

LEMMA EmptyPosts ==
  ASSUME NEW r, r.posts = <<>> PROVE CountLast(r)
BY DEF CountLast

LEMMA StartRunAnnounced ==
  ASSUME KeepsCounts, IInv, AnnouncedInv, CountLastInv, NEW r \in runs, StartRun(r)
  PROVE  AnnouncedInv' /\ CountLastInv'
<1>1. Inv /\ IsRun(r) /\ r.block \in Blocks /\ AnnouncedIn(r.uploads) /\ CountLast(r)
  BY RunType DEF IInv, Inv, RunInv, IsRun, AnnouncedInv, AnnouncedAt, CountLastInv
<1>2. r.posted = <<>> /\ r.posts = <<>>
  BY DEF StartRun, IInv, HistoryInv, PostInv, PostsOnce
<1>0. PICK s \in {"started", "failed"} : \E reads :
        \/ Become(r, [r EXCEPT !.state = s, !.reads = reads])
        \/ \E p \in Programs[r.block] :
             Become(r, [[r EXCEPT !.state = s, !.reads = reads] EXCEPT !.posts = p])
  BY DEF StartRun
<1>3. PICK reads :
        \/ Become(r, [r EXCEPT !.state = s, !.reads = reads])
        \/ \E p \in Programs[r.block] :
             Become(r, [[r EXCEPT !.state = s, !.reads = reads] EXCEPT !.posts = p])
  BY <1>0
<1> DEFINE w == [r EXCEPT !.state = s, !.reads = reads]
<1>4. w.req = r.req /\ w.posted = r.posted /\ w.uploads = r.uploads /\ w.posts = r.posts /\ DOMAIN w = DOMAIN r
  BY <1>1 DEF IsRun
<1>5. CountLast(w)
  BY <1>2, <1>4, EmptyPosts
<1> HIDE DEF w
<1>6. ASSUME NEW p \in Programs[r.block] PROVE CountLast([w EXCEPT !.posts = p])
  <2> DEFINE v == [w EXCEPT !.posts = p]
  <2>1. v.posts = p /\ v.posted = <<>>
    BY <1>1, <1>2, <1>4 DEF IsRun
  <2>2. Range(v.posted) = {}
    BY <2>1 DEF Range
  <2> HIDE DEF v
  <2>3. \A i, j \in 1..Len(p) : i < j /\ p[i] \in CntOuts => OutType[p[j]] # "FOREACH"
    BY <1>1, CountsAssumption
  <2> QED BY <2>1, <2>2, <2>3 DEF CountLast, v
<1>7. \A p : LET v == [w EXCEPT !.posts = p] IN v.req = r.req /\ v.posted = r.posted /\ v.uploads = r.uploads
  BY <1>1, <1>4 DEF IsRun
<1>8. PICK r2 : /\ Become(r, r2) /\ r2.req = r.req /\ r2.posted = r.posted /\ r2.uploads = r.uploads
                /\ CountLast(r2)
  BY <1>3, <1>4, <1>5, <1>6, <1>7 DEF w
<1>9. UNCHANGED <<backlog, queue, dataNet, running, parked, inputDatas>>
  BY DEF StartRun, netVars, inboxVars, greenVars, stateVars
<1>10. PICK d : d.kind = "fetched"
  <2>1. [kind |-> "fetched"].kind = "fetched"
    OBVIOUS
  <2> QED BY <2>1
<1>11. Announced(d)
  BY <1>10 DEF Announced
<1> QED BY <1>1, <1>8, <1>9, <1>11, QuietRun

LEMMA FetchAnnounced ==
  ASSUME KeepsCounts, Inv, AnnouncedInv, CountLastInv, NEW r \in runs, Fetch(r)
  PROVE  AnnouncedInv' /\ CountLastInv'
<1>1. IsRun(r) /\ AnnouncedIn(r.uploads) /\ CountLast(r)
  BY RunType DEF AnnouncedInv, AnnouncedAt, CountLastInv
<1> DEFINE w == [r EXCEPT !.reads = Tail(@)]
           d == Report(r, Head(r.reads))
<1>2. w.req = r.req /\ w.posted = r.posted /\ w.uploads = r.uploads /\ w.posts = r.posts
  BY <1>1 DEF IsRun
<1>3. Announced(d)
  BY DEF Report, Datum, Announced
<1>4. Become(r, w) /\ Send(Home[r.block], d) /\ UNCHANGED <<queue, dataNet, running, parked, inputDatas>>
  BY DEF Fetch, netVars, greenVars, stateVars
<1> HIDE DEF w, d
<1>5. CountLast(w)
  BY <1>1, <1>2 DEF CountLast
<1> QED BY <1>1, <1>2, <1>3, <1>4, <1>5, QuietRun

LEMMA StopAnnounced ==
  ASSUME KeepsCounts, Inv, AnnouncedInv, CountLastInv, NEW r \in runs, CountFails(r) \/ Crash(r)
  PROVE  AnnouncedInv' /\ CountLastInv'
<1>1. IsRun(r) /\ AnnouncedIn(r.uploads)
  BY RunType DEF AnnouncedInv, AnnouncedAt
<1>2. PICK r2 : /\ Become(r, r2) /\ r2.req = r.req /\ r2.posted = r.posted /\ r2.posts = <<>>
                /\ r2.uploads = r.uploads \/ r2.uploads = <<>>
  <2>1. CASE CountFails(r)
    <3> DEFINE w == [r EXCEPT !.state = "failed", !.posts = <<>>]
    <3>1. w.req = r.req /\ w.posted = r.posted /\ w.posts = <<>> /\ w.uploads = r.uploads
      BY <1>1 DEF IsRun
    <3> QED BY <2>1, <3>1 DEF CountFails
  <2>2. CASE Crash(r)
    <3>1. PICK u \in {r.uploads, <<>>} :
            Become(r, [r EXCEPT !.state = "crashed", !.posts = <<>>, !.uploads = u])
      BY <2>2 DEF Crash
    <3> DEFINE w == [r EXCEPT !.state = "crashed", !.posts = <<>>, !.uploads = u]
    <3>2. w.req = r.req /\ w.posted = r.posted /\ w.posts = <<>> /\ w.uploads = u
      BY <1>1 DEF IsRun
    <3> QED BY <3>1, <3>2
  <2> QED BY <2>1, <2>2
<1>3. AnnouncedIn(r2.uploads) /\ CountLast(r2)
  BY <1>1, <1>2, EmptyPosts DEF AnnouncedIn
<1>4. UNCHANGED <<backlog, queue, dataNet, running, parked, inputDatas>>
  BY DEF CountFails, Crash, netVars, inboxVars, greenVars, stateVars
<1>5. PICK d : d.kind = "fetched"
  <2>1. [kind |-> "fetched"].kind = "fetched"
    OBVIOUS
  <2> QED BY <2>1
<1>6. Announced(d)
  BY <1>5 DEF Announced
<1> QED BY <1>2, <1>3, <1>4, <1>6, QuietRun

LEMMA UploadAnnounced ==
  ASSUME KeepsCounts, Inv, AnnouncedInv, CountLastInv, NEW r \in runs, Upload(r)
  PROVE  AnnouncedInv' /\ CountLastInv'
<1>1. IsRun(r) /\ AnnouncedIn(r.uploads) /\ CountLast(r)
  BY RunType DEF AnnouncedInv, AnnouncedAt, CountLastInv
<1> DEFINE w == [r EXCEPT !.uploads = Tail(@)]
           d == Head(r.uploads)
<1>2. w.req = r.req /\ w.posted = r.posted /\ w.uploads = Tail(r.uploads) /\ w.posts = r.posts
  BY <1>1 DEF IsRun
<1>3. /\ r.uploads # <<>> /\ Become(r, w) /\ Send(Home[r.block], d)
      /\ UNCHANGED <<queue, dataNet, running, parked, inputDatas>>
  BY DEF Upload, netVars, greenVars, stateVars
<1>4. r.uploads \in Seq(Range(r.uploads))
  BY <1>1, InRange DEF IsRun
<1>5. AnnouncedIn(Tail(r.uploads)) /\ Announced(d)
  BY <1>1, <1>3, <1>4, TailAnnounced
<1> HIDE DEF w, d
<1>6. CountLast(w)
  BY <1>1, <1>2 DEF CountLast
<1> QED BY <1>2, <1>3, <1>5, <1>6, QuietRun

(* What a run posts next.                                                  *)
LEMMA AfterCount ==
  ASSUME NEW r, IsRun(r), r.posts # <<>>, CountLast(r), NEW r2,
         r2.posts = Tail(r.posts), r2.posted = Append(r.posted, Head(r.posts))
  PROVE  /\ CountLast(r2) /\ Head(r.posts) \in Range(r2.posted) /\ Range(r.posted) \subseteq Range(r2.posted)
         /\ OutType[Head(r.posts)] # "FOREACH" =>
              ForeachCount(r2) = ForeachCount(r) /\ ItemSerials(r2) = ItemSerials(r)
         /\ \A o \in CntOuts : o \in Range(r.posted) => OutType[Head(r.posts)] # "FOREACH"
<1> DEFINE o == Head(r.posts)
           s == r.posted
           t == r.posts
           s2 == r2.posted
           t2 == r2.posts
<1>1. s \in Seq(Outs) /\ t \in Seq(Outs) /\ t # <<>> /\ s2 = Append(s, o) /\ t2 = Tail(t)
  BY DEF IsRun
<1>2. /\ \A i, j \in 1..Len(t) : i < j /\ t[i] \in CntOuts => OutType[t[j]] # "FOREACH"
      /\ \A c \in CntOuts : c \in Range(s) => \A i \in 1..Len(t) : OutType[t[i]] # "FOREACH"
  BY DEF CountLast
<1> HIDE DEF s, t, s2, t2
<1>3. /\ DOMAIN s = 1..Len(s) /\ Len(s) \in Nat /\ Len(t) \in Nat /\ Len(t) >= 1
      /\ DOMAIN s2 = 1..(Len(s) + 1) /\ Len(s2) = Len(s) + 1 /\ s2[Len(s) + 1] = o
      /\ \A i \in 1..Len(s) : s2[i] = s[i]
      /\ Len(t2) = Len(t) - 1 /\ \A i \in 1..Len(t2) : t2[i] = t[i + 1]
      /\ o = t[1]
  BY <1>1 DEF t
<1> HIDE DEF o
<1>4. 1..(Len(s) + 1) = (1..Len(s)) \cup {Len(s) + 1}
  BY <1>3
<1>5. Range(s2) = Range(s) \cup {o}
  BY <1>3, <1>4 DEF Range
<1>6. \A c \in CntOuts : c \in Range(s) => OutType[o] # "FOREACH"
  BY <1>2, <1>3
<1>7. \A i \in 1..Len(t2) : i + 1 \in 1..Len(t) /\ 1 < i + 1 /\ 1 \in 1..Len(t)
  BY <1>3
<1>8. \A i, j \in 1..Len(t2) : i < j => i + 1 < j + 1
  BY <1>3
<1>9. CountLast(r2)
  <2>1. \A i, j \in 1..Len(t2) : i < j /\ t2[i] \in CntOuts => OutType[t2[j]] # "FOREACH"
    BY <1>2, <1>3, <1>7, <1>8
  <2>2. \A c \in CntOuts : c \in Range(s2) => \A i \in 1..Len(t2) : OutType[t2[i]] # "FOREACH"
    BY <1>2, <1>3, <1>5, <1>7
  <2> QED BY <2>1, <2>2 DEF CountLast, s2, t2
<1>10. ASSUME OutType[o] # "FOREACH"
       PROVE  ForeachCount(r2) = ForeachCount(r) /\ ItemSerials(r2) = ItemSerials(r)
  <2>1. {n \in 1..Len(s2) : OutType[s2[n]] = "FOREACH"} = {n \in 1..Len(s) : OutType[s[n]] = "FOREACH"}
    BY <1>3, <1>4, <1>10
  <2> DEFINE N == {n \in 1..Len(s) : OutType[s[n]] = "FOREACH"}
             before(n) == {m \in 1..(n - 1) : s[m] = s[n]}
             before2(n) == {m \in 1..(n - 1) : s2[m] = s2[n]}
  <2>2. \A n \in N : before2(n) = before(n)
    <3>1. \A n \in 1..Len(s) : \A m \in 1..(n - 1) : m \in 1..Len(s)
      BY <1>3
    <3> QED BY <1>3, <3>1
  <2>3. ItemSerials(r) = {Cardinality(before(n)) : n \in N}
    BY DEF ItemSerials, s
  <2>4. ItemSerials(r2) = {Cardinality(before2(n)) : n \in N}
    BY <2>1 DEF ItemSerials, s2
  <2> HIDE DEF N, before, before2
  <2>5. ItemSerials(r2) = ItemSerials(r)
    BY <2>2, <2>3, <2>4
  <2> QED BY <2>1, <2>5 DEF ForeachCount, s, s2
<1> QED BY <1>5, <1>6, <1>9, <1>10 DEF o, s, s2

(* A post: the run has posted o, and its datum, announced now, is sent or  *)
(* is uploaded.                                                            *)
LEMMA PostAnnounced ==
  ASSUME KeepsCounts, IInv, AnnouncedInv, CountLastInv, NEW r \in runs, Post(r)
  PROVE  AnnouncedInv' /\ CountLastInv'
<1>0. Inv
  BY DEF IInv
<1>1. IsRun(r) /\ AnnouncedIn(r.uploads) /\ CountLast(r) /\ Home[r.block] \in Hosts
  BY <1>0, RunType DEF AnnouncedInv, AnnouncedAt, CountLastInv
<1> DEFINE h == Home[r.block]
           o == Head(r.posts)
           after == [r EXCEPT !.posts = Tail(@), !.posted = Append(@, o)]
           more == [after EXCEPT !.uploads = Append(@, NextDatum(r, "kafka"))]
<1>2. /\ r.posts # <<>> /\ UNCHANGED <<queue, dataNet, running, parked, inputDatas>>
      /\ \/ UNCHANGED backlog
         \/ Send(h, NextDatum(r, "redis"))
         \/ Send(h, NextDatum(r, "direct"))
      /\ Become(r, after) \/ Become(r, more)
  BY DEF Post, netVars, greenVars, stateVars
<1>3. /\ after.req = r.req /\ after.posts = Tail(r.posts) /\ after.posted = Append(r.posted, o)
      /\ after.uploads = r.uploads
      /\ more.req = r.req /\ more.posts = Tail(r.posts) /\ more.posted = Append(r.posted, o)
      /\ more.uploads = Append(r.uploads, NextDatum(r, "kafka"))
      /\ after.state = r.state /\ more.state = r.state /\ RunId(after) = RunId(r) /\ RunId(more) = RunId(r)
  BY <1>1 DEF IsRun, RunId
<1> HIDE DEF after, more
<1>4. PICK r2 : /\ Become(r, r2) /\ r2.req = r.req /\ r2.state = r.state /\ RunId(r2) = RunId(r)
                /\ r2.posts = Tail(r.posts) /\ r2.posted = Append(r.posted, o)
                /\ r2.uploads = r.uploads \/ r2.uploads = Append(r.uploads, NextDatum(r, "kafka"))
  BY <1>2, <1>3
<1>5. /\ CountLast(r2) /\ o \in Range(r2.posted) /\ Range(r.posted) \subseteq Range(r2.posted)
      /\ OutType[o] # "FOREACH" => ForeachCount(r2) = ForeachCount(r)
  BY <1>1, <1>2, <1>4, AfterCount
<1>6. \A k : ProducedBy(r2) = ProducedBy(r) \cup {Key(NextDatum(r, k))}
  <2>1. PostsOnce(r)
    BY DEF IInv, HistoryInv, PostInv
  <2> QED BY <1>1, <1>2, <1>4, <2>1, AfterPost
<1>7. ASSUME NEW k PROVE Announced(NextDatum(r, k))'
  <2> DEFINE d == NextDatum(r, k)
  <2>1. d.req = r.req /\ d.out = o /\ (o \in CntOuts => d.val = ForeachCount(r))
    BY DEF NextDatum, Datum
  <2>2. o \in CntOuts => OutType[o] # "FOREACH"
    BY CountsAssumption
  <2>3. r2 \in runs'
    BY <1>4 DEF Become
  <2>4. Key(d) \in Posted'
    BY <1>6, <2>3 DEF Posted, Sent
  <2>5. o \in CntOuts => Announces(r2, d)
    BY <1>4, <1>5, <2>1, <2>2 DEF Announces
  <2> HIDE DEF d, o
  <2>6. Announced(d)'
    BY <2>1, <2>3, <2>4, <2>5 DEF Announced
  <2> QED BY <2>6 DEF d
<1> HIDE DEF o
<1>8. \A d : Announced(d) => Announced(d)'
  BY AnnouncedStays
<1>9. \A s : AnnouncedIn(s) => AnnouncedIn(s)'
  BY <1>8 DEF AnnouncedIn
<1>10. ASSUME NEW s, s \in Seq(Range(s)), AnnouncedIn(s), NEW k
       PROVE  AnnouncedIn(Append(s, NextDatum(r, k)))'
  <2> DEFINE d == NextDatum(r, k)
             t == Append(s, d)
  <2>1. /\ Len(t) = Len(s) + 1 /\ t[Len(s) + 1] = d
        /\ \A i \in 1..Len(s) : t[i] = s[i]
    BY <1>10, AppendIs
  <2>2. Announced(d)' /\ Len(s) \in Nat
    BY <1>7, <1>10
  <2> HIDE DEF d, t
  <2>3. \A i \in 1..Len(t) : i \in 1..Len(s) \/ i = Len(s) + 1
    BY <2>1, <2>2
  <2>4. \A i \in 1..Len(t) : Announced(t[i])'
    BY <1>8, <1>10, <2>1, <2>2, <2>3 DEF AnnouncedIn
  <2>5. AnnouncedIn(t)'
    BY <2>4 DEF AnnouncedIn
  <2> QED BY <2>5 DEF d, t
<1>11. AnnouncedIn(r2.uploads)'
  <2>1. r.uploads \in Seq(Range(r.uploads))
    BY <1>1, InRange DEF IsRun
  <2>2. AnnouncedIn(r.uploads)' /\ AnnouncedIn(Append(r.uploads, NextDatum(r, "kafka")))'
    BY <1>1, <1>9, <1>10, <2>1
  <2> QED BY <1>4, <2>2
<1>12. PICK bl : bl = backlog /\ (\A k \in Hosts : AnnouncedIn(bl[k]))
                 /\ \A k \in Hosts : bl[k] \in Seq(Range(bl[k]))
  BY <1>0, InboxesAnnounced
<1>13. ASSUME NEW k \in Hosts, NEW s, s = backlog'[k] PROVE AnnouncedIn(s)'
  <2>1. /\ AnnouncedIn(bl[k])' /\ AnnouncedIn(Append(bl[k], NextDatum(r, "redis")))'
        /\ AnnouncedIn(Append(bl[k], NextDatum(r, "direct")))'
    BY <1>9, <1>10, <1>12
  <2>2. backlog = [e \in Hosts |-> backlog[e]]
    BY <1>0 DEF Inv, InboxInv
  <2> HIDE DEF h
  <2>3. \/ s = bl[k]
        \/ s = Append(bl[k], NextDatum(r, "redis"))
        \/ s = Append(bl[k], NextDatum(r, "direct"))
    BY <1>2, <1>12, <1>13, <2>2 DEF Send
  <2> QED BY <2>1, <2>3
<1>14. (\A k \in Hosts : AnnouncedIn(backlog[k]))'
  BY <1>13 DEF AnnouncedIn
<1>15. (\A k \in Hosts : AnnouncedIn(queue[k]))'
  BY <1>0, <1>2, <1>9, InboxesAnnounced DEF AnnouncedIn
<1>16. (\A m \in dataNet : AnnouncedIn(m.datas))'
  BY <1>2, <1>9 DEF AnnouncedInv, AnnouncedAt
<1>17. (\A e \in runs : AnnouncedIn(e.uploads))'
  BY <1>4, <1>9, <1>11 DEF AnnouncedInv, AnnouncedAt, Become
<1>18. /\ (\A k \in Hosts : running[k] # <<>> => Announced(running[k][1].data))'
       /\ (\A k \in Hosts : \A g \in parked[k] : Announced(g.data))'
  BY <1>2, <1>8 DEF AnnouncedInv, AnnouncedAt, Announced
<1>19. (\A q \in Requests, b \in Blocks : AllAnnounced(b, inputDatas[q][b]))'
  BY <1>2, <1>8 DEF AnnouncedInv, AnnouncedAt, AllAnnounced
<1>20. AnnouncedInv'
  BY <1>14, <1>15, <1>16, <1>17, <1>18, <1>19 DEF AnnouncedInv, AnnouncedAt
<1>21. CountLastInv'
  BY <1>4, <1>5 DEF CountLastInv, CountLast, Become
<1> QED BY <1>20, <1>21

-----------------------------------------------------------------------------
(* Every step                                                              *)

(* What the steps of the workers allocate has posted nothing.              *)
LEMMA FlowRuns ==
  ASSUME NEW h \in Hosts, NEW g,
         FlowForeach(h) \/ FlowMerge(h) \/ FlowNormal(h) \/ ResumeMerge(h, g) \/ ResumeTrigger(h, g)
  PROVE  UNCHANGED runs \/ \E q, b, ins : Allocate(q, b, ins)
<1>1. CASE FlowForeach(h) \/ FlowMerge(h) \/ FlowNormal(h)
  <2>1. UNCHANGED runs \/ (\E e, b, ins : TriggerNormal(h, e, b, ins))
    BY <1>1 DEF FlowForeach, FlowMerge, FlowNormal, CountInput
  <2> QED BY <2>1 DEF TriggerNormal
<1>2. CASE ResumeMerge(h, g) \/ ResumeTrigger(h, g)
  BY <1>2 DEF ResumeMerge, ResumeTrigger
<1> QED BY <1>1, <1>2

(* Runs stay, and a step makes at most one new one or moves one on.        *)
LEMMA RunsStep ==
  ASSUME Inv, [Next]_vars
  PROVE  \/ UNCHANGED runs
         \/ \E q, b, ins : Allocate(q, b, ins)
         \/ \E r \in runs : StartRun(r) \/ Fetch(r) \/ Post(r) \/ CountFails(r) \/ Upload(r) \/ Crash(r)
<1>1. ASSUME NEW q \in Requests, Run(q) \/ SendInputs(q) \/ Answer(q) \/ PostUserData(q) PROVE UNCHANGED runs
  BY <1>1 DEF Run, SendInputs, Answer, PostUserData
<1>2. ASSUME NEW h \in Hosts, NEW q \in Requests, RequestInfo(h, q) PROVE UNCHANGED runs
  BY <1>2 DEF RequestInfo
<1>3. ASSUME NEW m \in dataNet, TransferData(m) PROVE UNCHANGED runs
  BY <1>3 DEF TransferData
<1>4. ASSUME NEW h \in Hosts, SocketServer(h) \/ DispatchFetched(h) \/ Dispatch(h) \/ ToUser(h) \/ ToRemote(h)
      PROVE  UNCHANGED runs
  BY <1>4 DEF SocketServer, DispatchFetched, Dispatch, ToUser, ToRemote
<1>5. ASSUME NEW h \in Hosts, NEW k, PrefetchData(h, k) \/ LosePrefetch(h, k) PROVE UNCHANGED runs
  BY <1>5 DEF PrefetchData, LosePrefetch
<1>6. CASE LosePost
  BY <1>6 DEF LosePost
<1>7. CASE UNCHANGED vars
  BY <1>7 DEF vars
<1>8. CASE Step
  BY <1>1, <1>2, <1>3, <1>4, <1>5, <1>8, FlowRuns DEF Step
<1>9. CASE Fault
  BY <1>5, <1>6, <1>9 DEF Fault
<1> QED BY <1>7, <1>8, <1>9 DEF Next

(* What the gateway and the user see: only the steps of the /run handlers  *)
(* and of a greenlet at $USER change it, and those hand out no block.      *)
LEMMA GatewayStep ==
  ASSUME [Next]_vars
  PROVE  \/ UNCHANGED <<phase, result>> /\ userNet' \subseteq userNet
         \/ \E q \in Requests : Run(q) \/ SendInputs(q) \/ Answer(q) \/ PostUserData(q)
         \/ \E h \in Hosts : ToUser(h)
<1> DEFINE Same == UNCHANGED <<phase, result>> /\ userNet' \subseteq userNet
<1>1. ASSUME NEW h \in Hosts, NEW q \in Requests, RequestInfo(h, q) PROVE Same
  BY <1>1 DEF RequestInfo, gatewayVars
<1>2. ASSUME NEW m \in dataNet, TransferData(m) PROVE Same
  BY <1>2 DEF TransferData, gatewayVars
<1>3. ASSUME NEW h \in Hosts, SocketServer(h) \/ DispatchFetched(h) \/ Dispatch(h) \/ ToRemote(h) PROVE Same
  BY <1>3 DEF SocketServer, DispatchFetched, Dispatch, ToRemote, gatewayVars, netVars
<1>4. ASSUME NEW h \in Hosts, FlowForeach(h) \/ FlowMerge(h) \/ FlowNormal(h) PROVE Same
  BY <1>4 DEF FlowForeach, FlowMerge, FlowNormal, gatewayVars, netVars
<1>5. ASSUME NEW h \in Hosts, NEW k, PrefetchData(h, k) \/ LosePrefetch(h, k) PROVE Same
  BY <1>5 DEF PrefetchData, LosePrefetch, gatewayVars, netVars
<1>6. ASSUME NEW h \in Hosts, NEW g, ResumeMerge(h, g) \/ ResumeTrigger(h, g) PROVE Same
  BY <1>6 DEF ResumeMerge, ResumeTrigger, gatewayVars, netVars
<1>7. ASSUME NEW r \in runs, StartRun(r) \/ Fetch(r) \/ Post(r) \/ CountFails(r) \/ Upload(r) \/ Crash(r)
      PROVE  Same
  BY <1>7 DEF StartRun, Fetch, Post, CountFails, Upload, Crash, gatewayVars, netVars
<1>8. CASE LosePost
  BY <1>8 DEF LosePost, gatewayVars
<1>9. CASE UNCHANGED vars
  BY <1>9 DEF vars, gatewayVars, netVars
<1> HIDE DEF Same
<1>10. CASE Step
  BY <1>1, <1>2, <1>3, <1>4, <1>5, <1>6, <1>7, <1>10 DEF Step, Same
<1>11. CASE Fault
  BY <1>5, <1>7, <1>8, <1>11 DEF Fault, Same
<1> QED BY <1>9, <1>10, <1>11 DEF Next, Same

(* The user's data stay posted.                                            *)
LEMMA UserPosts ==
  ASSUME Inv, [Next]_vars PROVE PostedByUser \subseteq PostedByUser'
<1>1. CASE UNCHANGED phase
  BY <1>1 DEF PostedByUser
<1>2. ASSUME NEW q \in Requests, Run(q) \/ SendInputs(q) \/ Answer(q) PROVE PostedByUser \subseteq PostedByUser'
  <2>1. \A p \in Requests : phase[p] \in {"inputs", "done"} => phase'[p] \in {"inputs", "done"}
    BY <1>2 DEF Run, SendInputs, Answer, Inv, GatewayInv
  <2> QED BY <2>1 DEF PostedByUser
<1>3. CASE (\E q \in Requests : PostUserData(q)) \/ (\E h \in Hosts : ToUser(h))
  BY <1>1, <1>3 DEF PostUserData, ToUser, gatewayVars
<1> QED BY <1>1, <1>2, <1>3, GatewayStep

LEMMA CountsKept ==
  ASSUME runs \subseteq runs', PostedByUser \subseteq PostedByUser' PROVE KeepsCounts
BY DEF KeepsCounts, Posted, Sent

LEMMA CountsOfRun ==
  ASSUME NEW r \in runs, NEW r2, Become(r, r2), r2.req = r.req,
         PostedByUser \subseteq PostedByUser', ProducedBy(r) \subseteq ProducedBy(r2),
         Range(r.posted) \subseteq Range(r2.posted),
         \A o \in CntOuts : o \in Range(r.posted) =>
           ForeachCount(r2) = ForeachCount(r) /\ ItemSerials(r2) = ItemSerials(r)
  PROVE  KeepsCounts
<1>1. Posted \subseteq Posted'
  BY DEF Posted, Sent, Become
<1> QED BY <1>1 DEF KeepsCounts, Become

LEMMA NextKeepsCounts ==
  ASSUME IInv, CountLastInv, [Next]_vars PROVE KeepsCounts
<1>0. Inv /\ PostedByUser \subseteq PostedByUser'
  BY UserPosts DEF IInv
<1>1. CASE UNCHANGED runs \/ \E q, b, ins : Allocate(q, b, ins)
  BY <1>0, <1>1, CountsKept DEF Allocate
<1>2. CASE \E r \in runs : StartRun(r) \/ Fetch(r) \/ Post(r) \/ CountFails(r) \/ Upload(r) \/ Crash(r)
  <2>1. PICK r \in runs : StartRun(r) \/ Fetch(r) \/ Post(r) \/ CountFails(r) \/ Upload(r) \/ Crash(r)
    BY <1>2
  <2>2. PICK r2 : /\ Become(r, r2) /\ r2.req = r.req /\ r2.serial = r.serial /\ r2.block = r.block
                  /\ \/ r2.posted = r.posted
                     \/ /\ r.posts # <<>> /\ r2.state = r.state
                        /\ r2.posted = Append(r.posted, Head(r.posts)) /\ r2.posts = Tail(r.posts)
    BY <1>0, <2>1, RunStepIs
  <2>3. CASE r2.posted = r.posted
    <3>1. /\ ForeachCount(r2) = ForeachCount(r) /\ ItemSerials(r2) = ItemSerials(r)
          /\ Range(r.posted) \subseteq Range(r2.posted)
      BY <2>3 DEF ForeachCount, ItemSerials
    <3>2. ProducedBy(r2) = ProducedBy(r)
      BY <2>2, <2>3 DEF ProducedBy, DatumPosted
    <3> QED BY <1>0, <2>2, <3>1, <3>2, CountsOfRun
  <2>4. CASE /\ r.posts # <<>> /\ r2.state = r.state
             /\ r2.posted = Append(r.posted, Head(r.posts)) /\ r2.posts = Tail(r.posts)
    <3>1. IsRun(r) /\ CountLast(r) /\ PostsOnce(r) /\ RunId(r2) = RunId(r)
      BY <1>0, <2>2, RunType DEF CountLastInv, IInv, HistoryInv, PostInv, RunId
    <3>2. ProducedBy(r) \subseteq ProducedBy(r2)
      BY <2>4, <3>1, AfterPost
    <3> QED BY <1>0, <2>2, <2>4, <3>1, <3>2, AfterCount, CountsOfRun
  <2> QED BY <2>2, <2>3, <2>4
<1> QED BY <1>0, <1>1, <1>2, RunsStep

LEMMA CountLastKept ==
  ASSUME CountLastInv, UNCHANGED runs \/ \E q, b, ins : Allocate(q, b, ins) PROVE CountLastInv'
<1>1. \A r \in runs' : r \in runs \/ r.posts = <<>>
  BY AllocatesNew DEF NewRun
<1> QED BY <1>1, EmptyPosts DEF CountLastInv, CountLast

LEMMA NextAnnounced ==
  ASSUME IInv, AnnouncedInv, CountLastInv, [Next]_vars PROVE AnnouncedInv' /\ CountLastInv'
<1> DEFINE Done == AnnouncedInv' /\ CountLastInv'
<1>0. Inv /\ KeepsCounts
  BY NextKeepsCounts DEF IInv
<1>1. ASSUME UNCHANGED <<backlog, queue, runs, running, parked, inputDatas>>, dataNet' \subseteq dataNet PROVE Done
  BY <1>0, <1>1, AnnouncedSame, CountLastKept
<1>2. ASSUME NEW q \in Requests, Run(q) \/ Answer(q) \/ PostUserData(q) PROVE Done
  BY <1>1, <1>2 DEF Run, Answer, PostUserData, netVars, inboxVars, greenVars, stateVars
<1>3. ASSUME NEW q \in Requests, SendInputs(q) PROVE Done
  BY <1>0, <1>3, SendInputsAnnounced, CountLastKept DEF SendInputs
<1>4. ASSUME NEW h \in Hosts, NEW q \in Requests, RequestInfo(h, q) PROVE Done
  BY <1>0, <1>4, RequestInfoAnnounced, CountLastKept DEF RequestInfo
<1>5. ASSUME NEW m \in dataNet, TransferData(m) PROVE Done
  BY <1>0, <1>5, TransferDataAnnounced, CountLastKept DEF TransferData
<1>6. ASSUME NEW h \in Hosts, SocketServer(h) PROVE Done
  BY <1>0, <1>6, SocketServerAnnounced, CountLastKept DEF SocketServer
<1>7. ASSUME NEW h \in Hosts, DispatchFetched(h) \/ Dispatch(h) PROVE Done
  BY <1>0, <1>7, DispatchAnnounced, CountLastKept DEF DispatchFetched, Dispatch
<1>8. ASSUME NEW h \in Hosts, ToUser(h) PROVE Done
  BY <1>0, <1>8, ToUserAnnounced, CountLastKept DEF ToUser
<1>9. ASSUME NEW h \in Hosts, ToRemote(h) PROVE Done
  BY <1>0, <1>9, ToRemoteAnnounced, CountLastKept DEF ToRemote
<1>10. ASSUME NEW h \in Hosts, FlowForeach(h) \/ FlowMerge(h) \/ FlowNormal(h) PROVE Done
  BY <1>0, <1>10, FlowForeachAnnounced, FlowMergeAnnounced, FlowNormalAnnounced, FlowRuns, CountLastKept
<1>11. ASSUME NEW h \in Hosts, NEW k, PrefetchData(h, k) \/ LosePrefetch(h, k) PROVE Done
  <2>1. UNCHANGED <<backlog, queue, runs, running, parked, inputDatas, dataNet>>
    BY <1>11 DEF PrefetchData, LosePrefetch, netVars, inboxVars, greenVars, stateVars
  <2> QED BY <1>1, <2>1
<1>12. ASSUME NEW h \in Hosts, NEW g, ResumeMerge(h, g) \/ ResumeTrigger(h, g) PROVE Done
  BY <1>0, <1>12, ResumeAnnounced, FlowRuns, CountLastKept
<1>13. ASSUME NEW r \in runs, StartRun(r) \/ Fetch(r) \/ Post(r) \/ CountFails(r) \/ Upload(r) \/ Crash(r)
       PROVE  Done
  BY <1>0, <1>13, StartRunAnnounced, FetchAnnounced, PostAnnounced, StopAnnounced, UploadAnnounced
<1>14. CASE LosePost
  <2>1. UNCHANGED <<backlog, queue, runs, running, parked, inputDatas>> /\ dataNet' \subseteq dataNet
    BY <1>14 DEF LosePost, inboxVars, greenVars, stateVars
  <2> QED BY <1>1, <2>1
<1>15. CASE UNCHANGED vars
  <2>1. UNCHANGED <<backlog, queue, runs, running, parked, inputDatas, dataNet>>
    BY <1>15 DEF vars, netVars, inboxVars, greenVars, stateVars
  <2> QED BY <1>1, <2>1
<1>16. CASE Step
  BY <1>2, <1>3, <1>4, <1>5, <1>6, <1>7, <1>8, <1>9, <1>10, <1>11, <1>12, <1>13, <1>16 DEF Step
<1>17. CASE Fault
  BY <1>11, <1>13, <1>14, <1>17 DEF Fault
<1> QED BY <1>15, <1>16, <1>17 DEF Next

-----------------------------------------------------------------------------
(* Lists                                                                   *)

(* What is in a list came from the items of the run that announces their   *)
(* number.                                                                 *)
LEMMA ItemOf ==
  ASSUME IInv, NEW q \in Requests, NEW b \in Blocks, NEW i \in DOMAIN inputDatas[q][b],
         Inputs[b][i] = "LIST", NEW s \in DOMAIN inputDatas[q][b][i],
         NEW u \in Outs, NEW y \in Range(Dest[u]), y.block = b, y.input = Cnt,
         NEW p \in runs, p.req = q, u \in Range(p.posted)
  PROVE  s \in ItemSerials(p)
<1> DEFINE l == inputDatas[q][b][i]
           a == p.block
<1>1. IsList(q, b, i, l)
  BY DEF IInv, Inv, StateInv, IsInputs
<1>2. PICK o, x : o \in Outs /\ x \in Range(Dest[o]) /\ x.block = b /\ x.input = i
  <2>1. IsInput(q, b, i, l[s])
    BY <1>1 DEF IsList
  <2> QED BY <2>1 DEF IsInput, Data
<1>3. OutType[o] = "MERGE" /\ x.block # User
  BY <1>2, WorkflowAssumption
<1>4. <<q, o, s>> \in Sent
  BY <1>2, <1>3 DEF IInv, HistoryInv, GotInv
<1>5. PICK r \in runs : \E k \in 1..Len(r.posted) : DatumPosted(r, k) = <<q, o, s>>
  BY <1>4 DEF Sent, ProducedBy
<1>6. PICK k \in 1..Len(r.posted) : DatumPosted(r, k) = <<q, o, s>>
  BY <1>5
<1>7. /\ IsRun(r) /\ IsRun(p) /\ PostsOnce(r) /\ PostsOnce(p) /\ RunId(r) \in Fired /\ RunId(p) \in Fired
  BY RunType DEF IInv, HistoryInv, PostInv, Fired
<1>8. /\ r.req = q /\ r.posted[k] = o /\ (r.serial # NoSerial => s = r.serial)
  BY <1>6 DEF DatumPosted
<1>9. o \in Outputs(r.block) /\ u \in Outputs(a) /\ r.block \in Blocks /\ a \in Blocks
  <2>1. r.posted \in Seq(Outs) /\ k \in DOMAIN r.posted
    BY <1>7 DEF IsRun
  <2>2. o \in Range(r.posted)
    BY <1>8, <2>1 DEF Range
  <2> QED BY <1>7, <2>2 DEF PostsOnce, IsRun
<1> HIDE DEF l, a
<1>10. Splits(a, r.block) /\ ~ForeachBlock(a)
  BY <1>2, <1>3, <1>9, CountsAssumption
<1>11. PICK v \in Outputs(a) : OutType[v] = "FOREACH" /\ \E z \in Range(Dest[v]) : z.block = r.block
  BY <1>10 DEF Splits
<1>12. v \in Outs
  BY <1>9, <1>11, WorkflowAssumption DEF Outputs, Range
<1>13. ForeachBlock(r.block) /\ r.block # User
  BY <1>9, <1>11, <1>12, WorkflowAssumption DEF ForeachBlock
<1>14. RunId(r) = <<q, r.block, s>>
  BY <1>7, <1>8, <1>13 DEF IInv, HistoryInv, InstInv, RunId
<1>15. <<q, v, s>> \in Sent
  <2>1. PICK z \in Range(Dest[v]) : z.block = r.block
    BY <1>11
  <2>2. \A f \in Fired : f[2] = z.block => <<f[1], v, f[3]>> \in Sent
    BY <1>11, <1>12, <1>13, <2>1 DEF IInv, HistoryInv, GotInv
  <2> QED BY <1>7, <1>14, <2>1, <2>2
<1>16. PICK e \in runs : \E n \in 1..Len(e.posted) : DatumPosted(e, n) = <<q, v, s>>
  BY <1>15 DEF Sent, ProducedBy
<1>17. PICK n \in 1..Len(e.posted) : DatumPosted(e, n) = <<q, v, s>>
  BY <1>16
<1>18. IsRun(e) /\ PostsOnce(e) /\ RunId(e) \in Fired
  BY RunType DEF IInv, HistoryInv, PostInv, Fired
<1>19. /\ e.req = q /\ e.posted[n] = v
       /\ e.serial = NoSerial => s = Cardinality({m \in 1..(n - 1) : e.posted[m] = e.posted[n]})
  BY <1>17 DEF DatumPosted
<1>20. e.block = a
  <2>1. e.posted \in Seq(Outs) /\ n \in DOMAIN e.posted
    BY <1>18 DEF IsRun
  <2>2. v \in Outputs(e.block)
    BY <1>18, <1>19, <2>1 DEF PostsOnce, Range
  <2> QED BY <1>9, <1>11, <1>18, <2>2, PostingAssumption DEF IsRun
<1>21. e.serial = NoSerial /\ p.serial = NoSerial
  BY <1>7, <1>10, <1>18, <1>20 DEF IInv, HistoryInv, InstInv, RunId, a
<1>22. e = p
  <2>1. RunId(e) = RunId(p)
    BY <1>19, <1>20, <1>21 DEF RunId, a
  <2> QED BY <2>1 DEF IInv, HistoryInv, FireInv
<1>23. n \in {m \in 1..Len(p.posted) : OutType[p.posted[m]] = "FOREACH"}
  BY <1>11, <1>19, <1>22
<1>24. s = Cardinality({m \in 1..(n - 1) : p.posted[m] = p.posted[n]})
  BY <1>19, <1>21, <1>22
<1> HIDE DEF a
<1> QED BY <1>23, <1>24 DEF ItemSerials

LEMMA ItemsAreCounted ==
  ASSUME NEW p, p.posted \in Seq(Outs)
  PROVE  /\ IsFiniteSet(ItemSerials(p)) /\ ForeachCount(p) \in Nat
         /\ Cardinality(ItemSerials(p)) \in Nat /\ Cardinality(ItemSerials(p)) <= ForeachCount(p)
<1> DEFINE N == {n \in 1..Len(p.posted) : OutType[p.posted[n]] = "FOREACH"}
           before(n) == Cardinality({m \in 1..(n - 1) : p.posted[m] = p.posted[n]})
           f == [n \in N |-> before(n)]
           T == {f[n] : n \in N}
<1>1. IsFiniteSet(N)
  <2>1. IsFiniteSet(1..Len(p.posted))
    BY FS_Interval
  <2>2. N \subseteq 1..Len(p.posted)
    OBVIOUS
  <2> QED BY <2>1, <2>2, FS_Subset
<1>2. ItemSerials(p) = T /\ ForeachCount(p) = Cardinality(N)
  BY DEF ItemSerials, ForeachCount
<1> HIDE DEF N, before
<1>3. f \in Surjection(N, T)
  BY DEF Surjection
<1> HIDE DEF f, T
<1>4. IsFiniteSet(T) /\ Cardinality(T) <= Cardinality(N)
  BY <1>1, <1>3, FS_Surjection
<1> QED BY <1>1, <1>2, <1>4, FS_CardinalityType

LEMMA ListsAreBounded == IInv /\ AnnouncedInv => BoundInv
<1> SUFFICES ASSUME IInv, AnnouncedInv, NEW q \in Requests, NEW b \in Blocks,
                    NEW i \in DOMAIN inputDatas[q][b], Inputs[b][i] = "LIST",
                    Cnt \in DOMAIN inputDatas[q][b]
             PROVE  \E p \in runs : /\ Announces(p, inputDatas[q][b][Cnt])
                                    /\ DOMAIN inputDatas[q][b][i] \subseteq ItemSerials(p)
  BY DEF BoundInv
<1> DEFINE ins == inputDatas[q][b]
           d == ins[Cnt]
<1>1. IsInputs(q, b, ins) /\ Announced(d)
  <2>1. IsInputs(q, b, ins)
    BY DEF IInv, Inv, StateInv
  <2>2. AllAnnounced(b, ins)
    BY DEF AnnouncedInv, AnnouncedAt
  <2>3. Cnt \in DOMAIN ins /\ Cnt \in DOMAIN Inputs[b] /\ Inputs[b][Cnt] # "LIST"
    BY <2>1, ItemsAssumption DEF IsInputs
  <2> HIDE DEF ins
  <2> QED BY <2>1, <2>2, <2>3 DEF AllAnnounced
<1>2. IsInput(q, b, Cnt, d)
  BY <1>1, ItemsAssumption DEF IsInputs
<1>3. PICK y : y \in Range(Dest[d.out]) /\ y.block = b /\ y.input = Cnt
  BY <1>2 DEF IsInput
<1>4. d.out \in Outs /\ d.req = q /\ d.kind # "fetched"
  BY <1>2 DEF IsInput, Data
<1>5. d.out \in CntOuts
  <2> HIDE DEF d
  <2>1. DOMAIN Dest[d.out] = 1..Len(Dest[d.out])
    BY <1>4, WorkflowAssumption
  <2> QED BY <1>3, <1>4, <2>1 DEF CntOuts, Range
<1>6. PICK p \in runs : Announces(p, d)
  BY <1>1, <1>4, <1>5 DEF Announced
<1>7. p.req = q /\ d.out \in Range(p.posted)
  BY <1>4, <1>6 DEF Announces
<1>8. \A s \in DOMAIN ins[i] : s \in ItemSerials(p)
  BY <1>3, <1>4, <1>7, ItemOf
<1> QED BY <1>6, <1>8

-----------------------------------------------------------------------------
(* Triggers                                                                *)

LEMMA WholeStays ==
  ASSUME KeepsCounts PROVE \A b, ins : Whole(b, ins) => Whole(b, ins)'
<1>1. \A d : Announced(d) => Announced(d)'
  BY AnnouncedStays
<1>2. \A b, ins : AllAnnounced(b, ins) => AllAnnounced(b, ins)'
  BY <1>1 DEF AllAnnounced
<1>3. ASSUME NEW d, NEW l, Collects(d, l) PROVE Collects(d, l)'
  <2>1. PICK p \in runs : Announces(p, d) /\ DOMAIN l = ItemSerials(p) /\ Cardinality(DOMAIN l) = ForeachCount(p)
    BY <1>3 DEF Collects
  <2>2. p.req = d.req /\ d.out \in CntOuts /\ d.out \in Range(p.posted) /\ d.val = ForeachCount(p)
    BY <2>1 DEF Announces
  <2>3. PICK r \in runs' : /\ r.req = p.req /\ d.out \in Range(r.posted)
                           /\ ForeachCount(r) = ForeachCount(p) /\ ItemSerials(r) = ItemSerials(p)
    BY <2>2 DEF KeepsCounts
  <2>4. /\ Announces(r, d) /\ DOMAIN l = ItemSerials(r) /\ Cardinality(DOMAIN l) = ForeachCount(r)
    BY <2>1, <2>2, <2>3 DEF Announces
  <2> QED BY <2>3, <2>4 DEF Collects
<1> QED BY <1>2, <1>3 DEF Whole

(* Runs and calls keep their inputs, and the new ones are whole.           *)
LEMMA WholeKept ==
  ASSUME WholeInv, KeepsCounts,
         \A r \in runs' : \/ \E p \in runs : p.block = r.block /\ p.inputs = r.inputs
                          \/ Whole(r.block, r.inputs)',
         NEW w, w.call # <<>> => Whole(w.call[1].block, w.call[1].inputs)',
         \A h \in Hosts : parked'[h] \subseteq parked[h] \cup {w}
  PROVE  WholeInv'
<1>1. \A b, ins : Whole(b, ins) => Whole(b, ins)'
  BY WholeStays
<1>2. \A r \in runs' : Whole(r.block, r.inputs)'
  BY <1>1 DEF WholeInv
<1>3. \A h \in Hosts : \A g \in Calls(h)' : g \in Calls(h) \/ (g = w /\ w.call # <<>>)
  BY DEF Calls
<1>4. \A h \in Hosts : \A g \in Calls(h)' : Whole(g.call[1].block, g.call[1].inputs)'
  BY <1>1, <1>3 DEF WholeInv
<1> QED BY <1>2, <1>4 DEF WholeInv

LEMMA WholeSame ==
  ASSUME WholeInv, KeepsCounts, UNCHANGED parked,
         \A r \in runs' : \E p \in runs : p.block = r.block /\ p.inputs = r.inputs
  PROVE  WholeInv'
<1>1. \A b, ins : Whole(b, ins) => Whole(b, ins)'
  BY WholeStays
<1>2. \A r \in runs' : Whole(r.block, r.inputs)'
  BY <1>1 DEF WholeInv
<1>3. \A h \in Hosts : \A g \in Calls(h)' : Whole(g.call[1].block, g.call[1].inputs)'
  BY <1>1 DEF WholeInv, Calls
<1> QED BY <1>2, <1>3 DEF WholeInv

LEMMA TriggersWhole ==
  ASSUME Inv, WholeInv, KeepsCounts, NEW h \in Hosts, NEW g, IsGreenlet(h, g), NEW b, NEW ins, Whole(b, ins)',
         TriggerNormal(h, g, b, ins)
  PROVE  WholeInv'
<1>1. PICK w : /\ w.call # <<>> /\ w.call[1].block = b /\ w.call[1].inputs = ins
               /\ \A k \in Hosts : parked'[k] \subseteq parked[k] \cup {w}
  BY TriggerIs
<1>2. \A r \in runs' : r \in runs \/ (r.block = b /\ r.inputs = ins)
  BY TriggerIs DEF NewRun
<1>3. \A r \in runs' : \/ \E p \in runs : p.block = r.block /\ p.inputs = r.inputs
                       \/ Whole(r.block, r.inputs)'
  BY <1>2
<1>4. Whole(w.call[1].block, w.call[1].inputs)'
  BY <1>1
<1> QED BY <1>1, <1>3, <1>4, WholeKept

LEMMA FlowForeachWhole ==
  ASSUME IInv, AnnouncedInv, WholeInv, KeepsCounts, NEW h \in Hosts, FlowForeach(h) PROVE WholeInv'
<1> DEFINE g == running[h][1]
           x == Head(g.dests)
           stored == inputDatas[g.data.req][x.block]
           ins == With(stored, x.input, g.data)
<1>1. Flowing(h, "FOREACH") /\ TriggerNormal(h, Advance(g), x.block, ins) /\ Inv /\ GreenInv /\ StateInv
  BY DEF FlowForeach, IInv, Inv
<1>2. /\ IsGreenlet(h, g) /\ g.dests # <<>> /\ g.data.req \in Requests /\ x.block \in Blocks
      /\ x.input \in DOMAIN Inputs[x.block]
  BY <1>1, FlowingIs
<1>3. DOMAIN ins \subseteq DOMAIN Inputs[x.block] /\ Announced(g.data) /\ AllAnnounced(x.block, stored)
  <2>1. IsInputs(g.data.req, x.block, stored)
    BY <1>1, <1>2 DEF StateInv
  <2>2. AllAnnounced(x.block, stored)
    BY <1>2 DEF AnnouncedInv, AnnouncedAt
  <2>3. Announced(g.data)
    BY <1>1 DEF Flowing, AnnouncedInv, AnnouncedAt
  <2> HIDE DEF g, x, stored
  <2> QED BY <1>2, <2>1, <2>2, <2>3 DEF With, IsInputs
<1>4. ForeachBlock(x.block)
  <2>1. g.data.out \in Outs /\ x \in Range(Dest[g.data.out]) /\ OutType[g.data.out] = "FOREACH"
    BY <1>1, <1>2, HeadType DEF Flowing
  <2> QED BY <2>1 DEF ForeachBlock
<1> DEFINE b == x.block
<1> HIDE DEF ins, stored, x
<1>5. \A i \in DOMAIN ins : Inputs[b][i] # "LIST"
  BY <1>2, <1>3, <1>4, CountsAssumption
<1>10. AllAnnounced(b, ins)
  BY <1>2, <1>3, <1>5 DEF AllAnnounced, With, ins, b
<1>6. PICK bb, ii : bb = b /\ ii = ins /\ Whole(bb, ii)
  BY <1>5, <1>10 DEF Whole
<1>7. Whole(bb, ii)'
  BY <1>6, WholeStays
<1>8. IsGreenlet(h, Advance(g))
  BY <1>2, AdvanceType
<1>9. TriggerNormal(h, Advance(g), bb, ii)
  BY <1>1, <1>6
<1> HIDE DEF b, g
<1> QED BY <1>1, <1>7, <1>8, <1>9, TriggersWhole

LEMMA CountInputWhole ==
  ASSUME IInv, IInv', AnnouncedInv', BoundInv', WholeInv, KeepsCounts,
         NEW h \in Hosts, NEW g, IsGreenlet(h, g), NEW b \in Blocks,
         g.data.req \in Requests, NEW ins, CountInput(h, g, b, ins),
         inputDatas' = [inputDatas EXCEPT ![g.data.req][b] = ins]
  PROVE  WholeInv'
<1> DEFINE q == g.data.req
<1>0. Inv
  BY DEF IInv
<1>1. CASE ~LastInput(q, b)
  BY <1>1, WholeSame DEF CountInput
<1>2. CASE LastInput(q, b)
  <2>1. TriggerNormal(h, g, b, ins) /\ inputCnt' = [inputCnt EXCEPT ![q][b] = @ + 1]
    BY <1>2 DEF CountInput
  <2>2. /\ inputDatas'[q][b] = ins /\ IsInputs(q, b, ins)
        /\ Complete(q, b)' = DOMAIN Inputs[b] /\ DOMAIN ins = DOMAIN Inputs[b]
    BY <1>2, <2>1, LastInputIs
  <2> HIDE DEF q
  <2>3. ASSUME NEW i \in DOMAIN ins, Inputs[b][i] = "LIST"
        PROVE  Cnt \in DOMAIN ins /\ Collects(ins[Cnt], ins[i])'
    <3>1. Cnt \in DOMAIN ins /\ Cardinality(DOMAIN ins[i]) >= ins[Cnt].val
      BY <2>2, <2>3 DEF Complete
    <3>2. q \in Requests
      BY DEF q
    <3>3. PICK p \in runs' : Announces(p, ins[Cnt]) /\ DOMAIN ins[i] \subseteq ItemSerials(p)
      BY <2>2, <2>3, <3>1, <3>2 DEF BoundInv
    <3>4. ins[Cnt].val = ForeachCount(p)
      BY <3>3 DEF Announces
    <3>5. /\ IsFiniteSet(ItemSerials(p)) /\ ForeachCount(p) \in Nat
          /\ Cardinality(ItemSerials(p)) \in Nat /\ Cardinality(ItemSerials(p)) <= ForeachCount(p)
      <4>1. p.posted \in Seq(Outs)
        BY DEF IInv, Inv, RunInv, IsRun
      <4> QED BY <4>1, ItemsAreCounted
    <3>6. /\ Cardinality(DOMAIN ins[i]) \in Nat
          /\ Cardinality(DOMAIN ins[i]) <= Cardinality(ItemSerials(p))
          /\ Cardinality(DOMAIN ins[i]) = Cardinality(ItemSerials(p)) => DOMAIN ins[i] = ItemSerials(p)
      BY <3>3, <3>5, FS_Subset, FS_CardinalityType
    <3>7. Cardinality(DOMAIN ins[i]) = ForeachCount(p) /\ DOMAIN ins[i] = ItemSerials(p)
      BY <3>1, <3>4, <3>5, <3>6
    <3> QED BY <3>1, <3>3, <3>7 DEF Collects
  <2>4. AllAnnounced(b, ins)'
    <3>1. q \in Requests
      BY DEF q
    <3>2. (\A p \in Requests, c \in Blocks : AllAnnounced(c, inputDatas[p][c]))'
      BY DEF AnnouncedInv, AnnouncedAt
    <3>3. AllAnnounced(b, inputDatas[q][b])'
      BY <3>1, <3>2
    <3> QED BY <2>2, <3>3 DEF AllAnnounced
  <2>5. Whole(b, ins)'
    BY <2>3, <2>4 DEF Whole
  <2> QED BY <1>0, <2>1, <2>5, TriggersWhole
<1> QED BY <1>1, <1>2

LEMMA FlowNormalWhole ==
  ASSUME IInv, IInv', AnnouncedInv', BoundInv', WholeInv, KeepsCounts, NEW h \in Hosts, FlowNormal(h)
  PROVE  WholeInv'
<1> DEFINE g == running[h][1]
           q == g.data.req
           x == Head(g.dests)
           ins == With(inputDatas[q][x.block], x.input, g.data)
<1>1. Flowing(h, "NORMAL") /\ GreenInv
  BY DEF FlowNormal, IInv, Inv
<1>2. \/ UNCHANGED <<parked, runs>>
      \/ /\ inputDatas' = [inputDatas EXCEPT ![q][x.block] = ins]
         /\ CountInput(h, Advance(g), x.block, ins)
  BY DEF FlowNormal
<1>3. IsGreenlet(h, g) /\ g.dests # <<>> /\ q \in Requests /\ x.block \in Blocks
  BY <1>1, FlowingIs
<1>4. IsGreenlet(h, Advance(g)) /\ Advance(g).data = g.data
  BY <1>3, AdvanceType
<1> HIDE DEF x, ins
<1>5. UNCHANGED <<parked, runs>> => WholeInv'
  BY WholeSame
<1> QED BY <1>2, <1>3, <1>4, <1>5, CountInputWhole

LEMMA FlowMergeWhole ==
  ASSUME IInv, IInv', AnnouncedInv', BoundInv', WholeInv, KeepsCounts, NEW h \in Hosts, FlowMerge(h)
  PROVE  WholeInv'
<1> DEFINE g == running[h][1]
           q == g.data.req
           x == Head(g.dests)
<1>1. Flowing(h, "MERGE") /\ GreenInv
  BY DEF FlowMerge, IInv, Inv
<1>2. IsGreenlet(h, g) /\ g.dests # <<>> /\ q \in Requests /\ x.block \in Blocks /\ g.call = <<>>
  BY <1>1, FlowingIs
<1>3. IsGreenlet(h, Advance(g)) /\ Advance(g).data = g.data
  BY <1>2, AdvanceType
<1>4. \/ UNCHANGED <<parked, runs>>
      \/ parked' = [parked EXCEPT ![h] = @ \cup {g}] /\ UNCHANGED runs
      \/ \E ins : /\ inputDatas' = [inputDatas EXCEPT ![q][x.block] = ins]
                  /\ CountInput(h, Advance(g), x.block, ins)
  BY DEF FlowMerge
<1>5. CASE parked' = [parked EXCEPT ![h] = @ \cup {g}] /\ UNCHANGED runs
  <2>1. \A k \in Hosts : parked'[k] \subseteq parked[k] \cup {g}
    BY <1>1, <1>5 DEF GreenInv
  <2>2. PICK w : w = g
    OBVIOUS
  <2>3. w.call = <<>> /\ \A k \in Hosts : parked'[k] \subseteq parked[k] \cup {w}
    BY <1>2, <2>1, <2>2
  <2> QED BY <1>5, <2>3, WholeKept
<1> HIDE DEF x
<1>6. UNCHANGED <<parked, runs>> => WholeInv'
  BY WholeSame
<1> QED BY <1>2, <1>3, <1>4, <1>5, <1>6, CountInputWhole

LEMMA ResumeWhole ==
  ASSUME IInv, WholeInv, KeepsCounts, NEW h \in Hosts, NEW g, ResumeMerge(h, g) \/ ResumeTrigger(h, g)
  PROVE  WholeInv'
<1>1. /\ parked' = [parked EXCEPT ![h] = @ \ {g}] /\ g \in parked[h]
      /\ UNCHANGED runs \/ (g.call # <<>> /\ Allocate(g.data.req, g.call[1].block, g.call[1].inputs))
  BY DEF ResumeMerge, ResumeTrigger
<1>2. \A k \in Hosts : parked'[k] \subseteq parked[k] \cup {g}
  BY <1>1 DEF IInv, Inv, GreenInv
<1>3. \A b, ins : Whole(b, ins) => Whole(b, ins)'
  BY WholeStays
<1>4. g.call # <<>> => Whole(g.call[1].block, g.call[1].inputs)'
  BY <1>1, <1>3 DEF WholeInv, Calls
<1>5. \A r \in runs' : r \in runs \/ (g.call # <<>> /\ r.block = g.call[1].block /\ r.inputs = g.call[1].inputs)
  BY <1>1, AllocatesNew DEF NewRun
<1>6. \A r \in runs' : \/ \E p \in runs : p.block = r.block /\ p.inputs = r.inputs
                       \/ Whole(r.block, r.inputs)'
  BY <1>4, <1>5
<1> QED BY <1>2, <1>4, <1>6, WholeKept

LEMMA NextWhole ==
  ASSUME IInv, IInv', AnnouncedInv, AnnouncedInv', BoundInv', WholeInv, KeepsCounts, [Next]_vars PROVE WholeInv'
<1>1. ASSUME UNCHANGED <<runs, parked>> PROVE WholeInv'
  BY <1>1, WholeSame
<1>2. ASSUME NEW q \in Requests, Run(q) \/ SendInputs(q) \/ Answer(q) \/ PostUserData(q) PROVE WholeInv'
  BY <1>1, <1>2 DEF Run, SendInputs, Answer, PostUserData, greenVars
<1>3. ASSUME NEW h \in Hosts, NEW q \in Requests, RequestInfo(h, q) PROVE WholeInv'
  BY <1>1, <1>3 DEF RequestInfo, greenVars
<1>4. ASSUME NEW m \in dataNet, TransferData(m) PROVE WholeInv'
  BY <1>1, <1>4 DEF TransferData, greenVars
<1>5. ASSUME NEW h \in Hosts, SocketServer(h) \/ DispatchFetched(h) \/ Dispatch(h) \/ ToUser(h) \/ ToRemote(h)
      PROVE  WholeInv'
  BY <1>1, <1>5 DEF SocketServer, DispatchFetched, Dispatch, ToUser, ToRemote, greenVars
<1>6. ASSUME NEW h \in Hosts, FlowForeach(h) \/ FlowMerge(h) \/ FlowNormal(h) PROVE WholeInv'
  BY <1>6, FlowForeachWhole, FlowMergeWhole, FlowNormalWhole
<1>7. ASSUME NEW h \in Hosts, NEW k, PrefetchData(h, k) \/ LosePrefetch(h, k) PROVE WholeInv'
  BY <1>1, <1>7 DEF PrefetchData, LosePrefetch, greenVars
<1>8. ASSUME NEW h \in Hosts, NEW g, ResumeMerge(h, g) \/ ResumeTrigger(h, g) PROVE WholeInv'
  BY <1>8, ResumeWhole
<1>9. ASSUME NEW r \in runs, StartRun(r) \/ Fetch(r) \/ Post(r) \/ CountFails(r) \/ Upload(r) \/ Crash(r)
      PROVE  WholeInv'
  <2>1. UNCHANGED parked /\ \E r2 : Become(r, r2) /\ r2.block = r.block /\ r2.inputs = r.inputs
    BY <1>9, RunStepIs DEF IInv
  <2>2. \A e \in runs' : \E p \in runs : p.block = e.block /\ p.inputs = e.inputs
    BY <2>1 DEF Become
  <2> QED BY <2>1, <2>2, WholeSame
<1>10. CASE LosePost
  BY <1>1, <1>10 DEF LosePost, greenVars
<1>11. CASE UNCHANGED vars
  BY <1>1, <1>11 DEF vars, greenVars
<1>12. CASE Step
  BY <1>2, <1>3, <1>4, <1>5, <1>6, <1>7, <1>8, <1>9, <1>12 DEF Step
<1>13. CASE Fault
  BY <1>7, <1>9, <1>10, <1>13 DEF Fault
<1> QED BY <1>11, <1>12, <1>13 DEF Next

-----------------------------------------------------------------------------
(* Theorems                                                                *)

(* A block that items do not trigger runs on all its inputs in every       *)
(* workflow, one that they do if it takes no other input.                  *)
THEOREM TriggeredOnAllInputs == Spec => []AllInputsInv
<1>1. Init => AllInputsInv
  BY DEF Init, AllInputsInv, Calls
<1>2. IInv /\ IInv' /\ AllInputsInv /\ [Next]_vars => AllInputsInv'
  BY NextAllInputs
<1> QED BY <1>1, <1>2, DeliveredOnce, PTL DEF Spec

(* No fetch of a block's code raises for an input that has not arrived, in *)
(* a workflow that joins no item with another input.                       *)
THEOREM CompleteRuns ==
  ASSUME \A b \in Blocks : ItemsAlone(b) PROVE Spec => []RunsComplete
<1>1. Inv /\ AllInputsInv => RunsComplete
  BY DEF Inv, RunInv, IsRun, AllInputsInv, HasAll, RunsComplete
<1> QED BY <1>1, TriggeredOnAllInputs, Invariance, PTL

(* Every datum that is on its way or stored was posted, and a count is the *)
(* number of all the items of a run that has posted it, which posts no     *)
(* further item.                                                           *)
THEOREM CountsAreAnnounced == Spec => [](AnnouncedInv /\ CountLastInv)
<1>1. Init => AnnouncedInv /\ CountLastInv
  <2> SUFFICES ASSUME Init PROVE AnnouncedInv /\ CountLastInv
    OBVIOUS
  <2>1. AnnouncedIn(<<>>) /\ \A b : AllAnnounced(b, EmptyFn)
    BY DEF AnnouncedIn, AllAnnounced, EmptyFn
  <2>2. \A q \in Requests, b \in Blocks : AllAnnounced(b, inputDatas[q][b])
    BY <2>1 DEF Init
  <2> QED BY <2>1, <2>2 DEF Init, AnnouncedInv, AnnouncedAt, CountLastInv
<1>2. IInv /\ AnnouncedInv /\ CountLastInv /\ [Next]_vars => AnnouncedInv' /\ CountLastInv'
  BY NextAnnounced
<1> QED BY <1>1, <1>2, DeliveredOnce, PTL DEF Spec

(* What is handed to a container, or is about to be, was posted, and its   *)
(* lists hold what each of the announced items became, and nothing else.   *)
THEOREM ListsAreWhole == Spec => []WholeInv
<1>1. Init => WholeInv
  BY DEF Init, WholeInv, Calls
<1>2. IInv /\ IInv' /\ AnnouncedInv /\ AnnouncedInv' /\ CountLastInv /\ BoundInv' /\ WholeInv /\ [Next]_vars
      => WholeInv'
  BY NextWhole, NextKeepsCounts DEF IInv
<1> QED BY <1>1, <1>2, DeliveredOnce, CountsAreAnnounced, ListsAreBounded, PTL DEF Spec

(* MergeComplete, whatever is delayed, reordered or lost, in every         *)
(* workflow whose lists collect the results of one split.                  *)
THEOREM MergesAreComplete == Spec => []MergeComplete
<1>1. Inv /\ WholeInv => MergeComplete
  <2> SUFFICES ASSUME Inv, WholeInv, NEW r \in runs, NEW i \in DOMAIN r.inputs, Inputs[r.block][i] = "LIST"
               PROVE  \E p \in runs :
                        /\ p.req = r.req /\ r.inputs[Cnt].out \in Range(p.posted)
                        /\ Cardinality(DOMAIN r.inputs[i]) = ForeachCount(p)
    BY DEF MergeComplete, ForeachCount
  <2>1. Collects(r.inputs[Cnt], r.inputs[i])
    BY DEF WholeInv, Whole
  <2>2. \A q \in Requests : IsInputs(q, r.block, r.inputs) => r.inputs[Cnt].req = q
    <3>1. r.block \in Blocks /\ Cnt \in DOMAIN r.inputs
      BY RunType DEF IsRun, WholeInv, Whole
    <3> QED BY <3>1, ItemsAssumption DEF IsInputs, IsInput
  <2>3. r.inputs[Cnt].req = r.req
    BY <2>2, RunType DEF IsRun
  <2> QED BY <2>1, <2>3 DEF Collects, Announces
<1> QED BY <1>1, ListsAreWhole, Invariance, PTL

-----------------------------------------------------------------------------
(* Dataflow's operators, said of WorkerSP's own                            *)

LEMMA SameRange ==
  ASSUME NEW f PROVE Promise!Range(f) = Range(f)
BY DEF Promise!Range, Range

LEMMA SameCardinality ==
  ASSUME NEW S PROVE Promise!Cardinality(S) = Cardinality(S)
BY DEF Promise!Cardinality, Cardinality

LEMMA SameOutputs ==
  ASSUME NEW b PROVE Promise!Outputs(b) = Outputs(b)
BY SameRange DEF Promise!Outputs, Outputs

(* Dataflow!Available, from the data in P.                                 *)
Feeds(o, b, i) == \E x \in Range(Dest[o]) : x.block = b /\ x.input = i
ItemsBecome(v, o) ==
  OutType[v] = "FOREACH" /\ \E x \in Range(Dest[v]) : x.block \in Blocks /\ o \in Outputs(x.block)
AvailableFrom(P, q, b, i, s) ==
  \E o \in Outs :
     /\ Feeds(o, b, i)
     /\ CASE OutType[o] = "FOREACH" -> <<q, o, s>> \in P
          [] OutType[o] = "MERGE"   ->
               /\ \E p \in P : p[1] = q /\ Feeds(p[2], b, Cnt)
               /\ \A p \in P : p[1] = q /\ ItemsBecome(p[2], o) => <<q, o, p[3]>> \in P
          [] OTHER -> \E p \in P : p[1] = q /\ p[2] = o

LEMMA SamePosted == PostedByUser \cup PostedByRuns = Posted
BY DEF Posted, Sent, ProducedBy, PostedByRuns

LEMMA SameAvailable ==
  ASSUME NEW q, NEW b, NEW i, NEW s
  PROVE  Promise!Available(q, b, i, s) <=> AvailableFrom(Posted, q, b, i, s)
<1>1. \A o : Promise!Feeds(o, b, i) <=> Feeds(o, b, i)
  BY SameRange DEF Promise!Feeds, Feeds
<1>2. \A o : Promise!Feeds(o, b, Cnt) <=> Feeds(o, b, Cnt)
  BY SameRange DEF Promise!Feeds, Feeds
<1>3. \A v, o : Promise!ItemsBecome(v, o) <=> ItemsBecome(v, o)
  BY SameRange, SameOutputs DEF Promise!ItemsBecome, ItemsBecome
<1>4. Promise!Counted(q, b) <=> \E p \in Posted : p[1] = q /\ Feeds(p[2], b, Cnt)
  BY <1>2, SamePosted DEF Promise!Counted
<1>5. \A o : Promise!Items(q, o) = {p \in Posted : p[1] = q /\ ItemsBecome(p[2], o)}
  BY <1>3, SamePosted DEF Promise!Items
<1>6. \A o : (\A p \in Promise!Items(q, o) : <<q, o, p[3]>> \in Posted) <=>
               \A p \in Posted : p[1] = q /\ ItemsBecome(p[2], o) => <<q, o, p[3]>> \in Posted
  BY <1>5
<1> HIDE DEF Feeds, ItemsBecome
<1> QED BY <1>1, <1>4, <1>6, SamePosted DEF Promise!Available, Promise!Outs, AvailableFrom, Outs

-----------------------------------------------------------------------------
(* Who posts what                                                          *)

(* A block that items do not trigger runs once for a request: whoever has  *)
(* posted one of its outputs is its run.                                   *)
LEMMA OnePoster ==
  ASSUME IInv, NEW r \in runs, ~ForeachBlock(r.block), NEW e \in runs, e.req = r.req,
         NEW n \in 1..Len(e.posted), e.posted[n] \in Outputs(r.block)
  PROVE  e = r /\ r.serial = NoSerial
<1>1. IsRun(r) /\ IsRun(e) /\ PostsOnce(e) /\ RunId(r) \in Fired /\ RunId(e) \in Fired
  BY RunType DEF IInv, HistoryInv, PostInv, Fired
<1>2. e.posted[n] \in Outputs(e.block)
  <2>1. e.posted \in Seq(Outs) /\ n \in DOMAIN e.posted
    BY <1>1 DEF IsRun
  <2> QED BY <1>1, <2>1 DEF PostsOnce, Range
<1>3. e.block = r.block
  BY <1>1, <1>2, PostingAssumption DEF IsRun
<1>4. e.serial = NoSerial /\ r.serial = NoSerial
  BY <1>1, <1>3 DEF IInv, HistoryInv, InstInv, RunId
<1>5. RunId(e) = RunId(r)
  BY <1>3, <1>4 DEF RunId
<1> QED BY <1>4, <1>5 DEF IInv, HistoryInv, FireInv

(* What a run has posted, and who has posted what.                         *)
LEMMA Posts ==
  ASSUME IInv, NEW r \in runs, NEW n \in 1..Len(r.posted)
  PROVE  DatumPosted(r, n) \in Posted /\ r.posted[n] \in Outs /\ r.posted[n] \in Outputs(r.block)
<1>1. r.posted \in Seq(Outs) /\ PostsOnce(r) /\ n \in DOMAIN r.posted
  BY RunType DEF IInv, HistoryInv, PostInv, IsRun
<1>2. DatumPosted(r, n) \in Posted
  BY DEF Posted, Sent, ProducedBy
<1> QED BY <1>1, <1>2 DEF PostsOnce, Range

LEMMA PosterOf ==
  ASSUME IInv, NEW p \in Posted, p[2] \notin Range(GlobalInputs)
  PROVE  \E e \in runs : \E n \in 1..Len(e.posted) :
           p = DatumPosted(e, n) /\ e.req = p[1] /\ e.posted[n] = p[2]
<1>1. p \in Sent
  BY DEF Posted, PostedByUser
<1>2. PICK e \in runs : p \in ProducedBy(e)
  BY <1>1 DEF Sent
<1>3. PICK n \in 1..Len(e.posted) : p = DatumPosted(e, n)
  BY <1>2 DEF ProducedBy
<1>4. DatumPosted(e, n)[1] = e.req /\ DatumPosted(e, n)[2] = e.posted[n]
  BY DEF DatumPosted
<1> QED BY <1>3, <1>4

-----------------------------------------------------------------------------
(* A run's inputs are available                                            *)

(* What came in was posted, if it is no element of a list.                 *)
LEMMA ValueAvailable ==
  ASSUME IInv, WholeInv, NEW r \in runs, NEW i \in DOMAIN r.inputs, Inputs[r.block][i] # "LIST"
  PROVE  AvailableFrom(Posted, r.req, r.block, i, r.serial)
<1> DEFINE q == r.req
           b == r.block
           d == r.inputs[i]
           o == d.out
<1>1. b \in Blocks /\ q \in Requests /\ IsInputs(q, b, r.inputs) /\ RunId(r) \in Fired
  BY RunType DEF IInv, IsRun, Fired
<1>2. IsInput(q, b, i, d) /\ Announced(d)
  BY <1>1 DEF IsInputs, WholeInv, Whole, AllAnnounced
<1>3. d \in Data /\ d.req = q
  BY <1>2 DEF IsInput
<1>4. PICK x \in Range(Dest[o]) : x.block = b /\ x.input = i
  BY <1>2 DEF IsInput
<1>5. Key(d) \in Posted
  BY <1>2, <1>3 DEF Announced, Data
<1>6. o \in Outs /\ x.block # User /\ OutType[o] # "MERGE"
  BY <1>1, <1>3, <1>4, WorkflowAssumption DEF Data
<1>7. Feeds(o, b, i)
  BY <1>4 DEF Feeds
<1> HIDE DEF b, q, o
<1>8. CASE OutType[o] = "FOREACH"
  <2>1. \A f \in Fired : f[2] = x.block => <<f[1], o, f[3]>> \in Sent
    BY <1>6, <1>8 DEF IInv, HistoryInv, GotInv
  <2>2. RunId(r)[1] = q /\ RunId(r)[2] = b /\ RunId(r)[3] = r.serial
    BY DEF RunId, q, b
  <2>3. <<q, o, r.serial>> \in Posted
    BY <1>1, <1>4, <2>1, <2>2 DEF Posted
  <2>4. AvailableFrom(Posted, q, b, i, r.serial)
    BY <1>6, <1>7, <1>8, <2>3 DEF AvailableFrom
  <2> QED BY <2>4 DEF q, b
<1>9. CASE OutType[o] # "FOREACH"
  <2>1. Key(d)[1] = q /\ Key(d)[2] = o
    BY <1>3 DEF Key, o
  <2>2. AvailableFrom(Posted, q, b, i, r.serial)
    BY <1>5, <1>6, <1>7, <1>9, <2>1 DEF AvailableFrom
  <2> QED BY <2>2 DEF q, b
<1> QED BY <1>8, <1>9

(* What an item of b's split becomes is collected: the item is one of the  *)
(* run p that announced their number, for only its block splits into the   *)
(* one that posts o.                                                       *)
LEMMA ItemIsCounted ==
  ASSUME IInv, NEW b \in Blocks, NEW p \in runs,
         NEW u \in Range(p.posted), Feeds(u, b, Cnt),
         NEW o \in Outs, OutType[o] = "MERGE", NEW i, Feeds(o, b, i),
         NEW d \in Posted, d[1] = p.req, ItemsBecome(d[2], o)
  PROVE  d[3] \in ItemSerials(p)
<1> DEFINE v == d[2]
<1>1. IsRun(p) /\ u \in Outputs(p.block) /\ p.block \in Blocks
  BY RunType DEF IInv, HistoryInv, PostInv, PostsOnce, IsRun
<1>2. PICK z \in Range(Dest[v]) : z.block \in Blocks /\ o \in Outputs(z.block)
  BY DEF ItemsBecome
<1>3. OutType[v] = "FOREACH"
  BY DEF ItemsBecome
<1>4. PICK x \in Range(Dest[o]) : x.block = b
  BY DEF Feeds
<1>5. PICK y \in Range(Dest[u]) : y.block = b /\ y.input = Cnt
  BY DEF Feeds
<1>6. Splits(p.block, z.block) /\ ~ForeachBlock(p.block)
  BY <1>1, <1>2, <1>4, <1>5, CountsAssumption, WorkflowAssumption
<1>7. PICK w \in Outputs(p.block) : OutType[w] = "FOREACH" /\ \E t \in Range(Dest[w]) : t.block = z.block
  BY <1>6 DEF Splits
<1>8. v \notin Range(GlobalInputs)
  BY <1>3, PostingAssumption
<1> HIDE DEF v
<1>9. PICK e \in runs : \E n \in 1..Len(e.posted) : d = DatumPosted(e, n) /\ e.req = d[1] /\ e.posted[n] = v
  BY <1>8, PosterOf DEF v
<1>10. PICK n \in 1..Len(e.posted) : d = DatumPosted(e, n) /\ e.req = d[1] /\ e.posted[n] = v
  BY <1>9
<1>11. v \in Outs /\ w \in Outs
  BY <1>1, <1>7, <1>10, Posts, WorkflowAssumption DEF Outputs, Range
<1>12. v = w
  BY <1>2, <1>3, <1>7, <1>11, ItemsAssumption
<1>13. e = p /\ p.serial = NoSerial
  BY <1>6, <1>7, <1>10, <1>12, OnePoster
<1>14. d[3] = Cardinality({m \in 1..(n - 1) : p.posted[m] = p.posted[n]})
  BY <1>10, <1>13 DEF DatumPosted
<1> QED BY <1>3, <1>10, <1>13, <1>14 DEF ItemSerials

(* A list has what every item became, all of it posted.                    *)
LEMMA ListAvailable ==
  ASSUME IInv, WholeInv, NEW r \in runs, NEW i \in DOMAIN r.inputs, Inputs[r.block][i] = "LIST"
  PROVE  AvailableFrom(Posted, r.req, r.block, i, r.serial)
<1> DEFINE q == r.req
           b == r.block
           l == r.inputs[i]
           c == r.inputs[Cnt]
<1>1. b \in Blocks /\ q \in Requests /\ IsInputs(q, b, r.inputs)
  BY RunType DEF IInv, IsRun
<1>2. /\ AllAnnounced(b, r.inputs) /\ Cnt \in DOMAIN r.inputs /\ Collects(c, l)
      /\ Inputs[b][Cnt] # "LIST" /\ IsList(q, b, i, l)
  <2>1. AllAnnounced(b, r.inputs) /\ Cnt \in DOMAIN r.inputs /\ Collects(c, l)
    BY DEF WholeInv, Whole
  <2> QED BY <1>1, <2>1, ItemsAssumption DEF IsInputs
<1>3. IsInput(q, b, Cnt, c) /\ Announced(c) /\ \A n \in DOMAIN l : Announced(l[n])
  BY <1>1, <1>2 DEF IsInputs, AllAnnounced
<1>4. PICK p \in runs : Announces(p, c) /\ DOMAIN l = ItemSerials(p) /\ Cardinality(DOMAIN l) = ForeachCount(p)
  BY <1>2 DEF Collects
<1> HIDE DEF l, c, q, b
<1>5. c \in Data /\ c.req = q /\ Feeds(c.out, b, Cnt)
  BY <1>3 DEF IsInput, Feeds
<1>6. Key(c) \in Posted /\ Key(c)[1] = q /\ Key(c)[2] = c.out
  BY <1>3, <1>5 DEF Announced, Data, Key
<1>7. p.req = q /\ c.out \in Range(p.posted) /\ Cardinality(DOMAIN l) > 0
  BY <1>4, <1>5 DEF Announces, Data
<1>8. PICK s : s \in DOMAIN l
  <2>1. DOMAIN l # {}
    BY <1>7, FS_EmptySet
  <2> QED BY <2>1
<1>9. \A n \in DOMAIN l : IsInput(q, b, i, l[n]) /\ l[n].serial = n
  BY <1>2 DEF IsList
<1> DEFINE o == l[s].out
<1>10. o \in Outs /\ Feeds(o, b, i) /\ OutType[o] = "MERGE"
  <2>1. l[s] \in Data /\ Feeds(o, b, i)
    BY <1>8, <1>9 DEF IsInput, Feeds
  <2>2. o \in Outs
    BY <2>1 DEF Data
  <2>3. PICK x \in Range(Dest[o]) : x.block = b /\ x.input = i
    BY <2>1 DEF Feeds
  <2>4. x.block # User /\ Inputs[x.block][x.input] = "LIST"
    BY <1>1, <2>3, WorkflowAssumption DEF b
  <2> QED BY <2>1, <2>2, <2>3, <2>4, WorkflowAssumption
<1> HIDE DEF o
<1>11. ASSUME NEW n \in DOMAIN l PROVE <<q, o, n>> \in Posted
  <2>1. l[n] \in Data /\ l[n].req = q /\ l[n].serial = n /\ Announced(l[n]) /\ Feeds(l[n].out, b, i)
    BY <1>3, <1>9, <1>11 DEF IsInput, Feeds
  <2>2. l[n].out \in Outs /\ Key(l[n]) \in Posted /\ Key(l[n]) = <<q, l[n].out, n>>
    BY <2>1 DEF Data, Announced, Key
  <2>3. PICK x \in Range(Dest[l[n].out]) : x.block = b /\ x.input = i
    BY <2>1 DEF Feeds
  <2>4. PICK y \in Range(Dest[o]) : y.block = b /\ y.input = i
    BY <1>10 DEF Feeds
  <2>5. OutType[l[n].out] = "MERGE"
    <3>1. x.block # User /\ Inputs[x.block][x.input] = "LIST"
      BY <1>1, <2>3, WorkflowAssumption DEF b
    <3> QED BY <2>2, <2>3, <3>1, WorkflowAssumption
  <2>6. l[n].out = o
    BY <1>10, <2>2, <2>3, <2>4, <2>5, ItemsAssumption
  <2> QED BY <2>2, <2>6
<1>12. \A d \in Posted : d[1] = q /\ ItemsBecome(d[2], o) => <<q, o, d[3]>> \in Posted
  BY <1>1, <1>4, <1>5, <1>7, <1>10, <1>11, ItemIsCounted
<1>13. AvailableFrom(Posted, q, b, i, r.serial)
  BY <1>5, <1>6, <1>10, <1>12 DEF AvailableFrom
<1> QED BY <1>13 DEF q, b

(* All inputs of a run are available, and its serial is one of its item.   *)
AvailableInv ==
  \A r \in runs :
    /\ \A i \in DOMAIN Inputs[r.block] : AvailableFrom(Posted, r.req, r.block, i, r.serial)
    /\ r.serial # NoSerial => \E p \in Posted : p[3] = r.serial

LEMMA InputsAvailable ==
  ASSUME \A b \in Blocks : ItemsAlone(b) PROVE IInv /\ AllInputsInv /\ WholeInv => AvailableInv
<1> SUFFICES ASSUME IInv, AllInputsInv, WholeInv, NEW r \in runs
             PROVE  /\ \A i \in DOMAIN Inputs[r.block] : AvailableFrom(Posted, r.req, r.block, i, r.serial)
                    /\ r.serial # NoSerial => \E p \in Posted : p[3] = r.serial
  BY DEF AvailableInv
<1>1. r.block \in Blocks /\ RunId(r) \in Fired
  BY RunType DEF IInv, IsRun, Fired
<1>2. DOMAIN r.inputs = DOMAIN Inputs[r.block]
  BY <1>1 DEF AllInputsInv, HasAll
<1>3. ASSUME r.serial # NoSerial PROVE \E p \in Posted : p[3] = r.serial
  <2>1. RunId(r)[1] = r.req /\ RunId(r)[2] = r.block /\ RunId(r)[3] = r.serial
    BY DEF RunId
  <2>2. ForeachBlock(r.block)
    BY <1>1, <1>3, <2>1 DEF IInv, HistoryInv, InstInv
  <2>3. PICK o \in Outs : OutType[o] = "FOREACH" /\ \E x \in Range(Dest[o]) : x.block = r.block
    BY <2>2 DEF ForeachBlock
  <2>4. r.block # User
    BY <1>1, WorkflowAssumption
  <2>5. <<r.req, o, r.serial>> \in Sent
    BY <1>1, <2>1, <2>3, <2>4 DEF IInv, HistoryInv, GotInv
  <2> QED BY <2>5 DEF Posted
<1> QED BY <1>2, <1>3, ValueAvailable, ListAvailable

-----------------------------------------------------------------------------
(* The user's answer                                                       *)

(* A request is answered, or about to be, from a datum for $USER.          *)
Answerable(q) == \E p \in Posted : p[1] = q /\ \E x \in Range(Dest[p[2]]) : x.block = User
UserInv == \A q \in Requests : q \in userNet \/ result[q] \/ phase[q] = "done" => Answerable(q)

LEMMA NextUser ==
  ASSUME Inv, AnnouncedInv, KeepsCounts, UserInv, [Next]_vars PROVE UserInv'
<1>1. \A q : Answerable(q) => Answerable(q)'
  BY DEF Answerable, KeepsCounts
<1>2. CASE UNCHANGED <<phase, result>> /\ userNet' \subseteq userNet
  BY <1>1, <1>2 DEF UserInv
<1>3. ASSUME NEW q \in Requests, Run(q) \/ SendInputs(q) \/ Answer(q) \/ PostUserData(q) PROVE UserInv'
  <2>1. \A p \in Requests : p \in userNet' \/ result'[p] \/ phase'[p] = "done" =>
                              p \in userNet \/ result[p] \/ phase[p] = "done"
    BY <1>3 DEF Run, SendInputs, Answer, PostUserData, netVars, Inv, GatewayInv
  <2> QED BY <1>1, <2>1 DEF UserInv
<1>4. ASSUME NEW h \in Hosts, ToUser(h) PROVE UserInv'
  <2> DEFINE g == running[h][1]
  <2>1. /\ running[h] # <<>> /\ Head(g.dests).block = User
        /\ userNet' = userNet \cup {g.data.req} /\ UNCHANGED <<phase, result>>
    BY <1>4 DEF ToUser, gatewayVars
  <2>2. IsGreenlet(h, g) /\ g.dests # <<>>
    BY <2>1 DEF Inv, GreenInv
  <2>3. g.data \in Data /\ Head(g.dests) \in Range(Dest[g.data.out])
    BY <2>2, HeadType
  <2>4. Announced(g.data)
    BY <2>1 DEF AnnouncedInv, AnnouncedAt
  <2>5. Key(g.data) \in Posted /\ Key(g.data)[1] = g.data.req /\ Key(g.data)[2] = g.data.out
    BY <2>3, <2>4 DEF Announced, Data, Key
  <2> HIDE DEF g
  <2>6. Answerable(g.data.req)
    BY <2>1, <2>3, <2>5 DEF Answerable
  <2> QED BY <1>1, <2>1, <2>6 DEF UserInv
<1> QED BY <1>2, <1>3, <1>4, GatewayStep

-----------------------------------------------------------------------------
(* Every step is a step of Dataflow                                        *)

(* What Dataflow sees of WorkerSP.                                         *)
Answers == {q \in Requests : phase[q] = "done"}
seen == <<PostedByUser \cup PostedByRuns, FiredRuns, Answers>>

(* A step that changes no run is one of the gateway, or is not seen.       *)
LEMMA GatewaySteps ==
  ASSUME Inv, UserInv, [Next]_vars, UNCHANGED runs PROVE Promise!Next \/ UNCHANGED seen
<1>1. UNCHANGED <<PostedByRuns, FiredRuns>>
  BY DEF PostedByRuns, FiredRuns, DatumPosted
<1>2. CASE UNCHANGED phase
  BY <1>1, <1>2 DEF seen, PostedByUser, Answers
<1>3. ASSUME NEW q \in Requests, Run(q) PROVE UNCHANGED seen
  <2>1. phase[q] = "idle" /\ phase' = [phase EXCEPT ![q] = "info"]
    BY <1>3 DEF Run
  <2>2. UNCHANGED <<PostedByUser, Answers>>
    BY <2>1 DEF PostedByUser, Answers, Inv, GatewayInv
  <2> QED BY <1>1, <2>2 DEF seen
<1>4. ASSUME NEW q \in Requests, SendInputs(q) PROVE Promise!Start(q)
  <2>1. phase[q] = "info" /\ phase' = [phase EXCEPT ![q] = "inputs"]
    BY <1>4 DEF SendInputs
  <2>2. Answers' = Answers
    BY <2>1 DEF Answers, Inv, GatewayInv
  <2>3. {p \in Requests : phase'[p] \in {"inputs", "done"}} = {p \in Requests : phase[p] \in {"inputs", "done"}} \cup {q}
    BY <2>1 DEF Inv, GatewayInv
  <2>4. PostedByUser' = PostedByUser \cup {<<q, o, 0>> : o \in Range(GlobalInputs)}
    BY <2>3 DEF PostedByUser
  <2>5. Promise!Range(GlobalInputs) = Range(GlobalInputs)
    BY SameRange
  <2> QED BY <1>1, <2>2, <2>4, <2>5 DEF Promise!Start, Answers
<1>5. ASSUME NEW q \in Requests, Answer(q) PROVE Promise!Answer(q)
  <2>1. phase[q] = "inputs" /\ result[q] /\ phase' = [phase EXCEPT ![q] = "done"]
    BY <1>5 DEF Answer
  <2>2. Answers' = Answers \cup {q}
    BY <2>1 DEF Answers, Inv, GatewayInv
  <2>3. {p \in Requests : phase'[p] \in {"inputs", "done"}} = {p \in Requests : phase[p] \in {"inputs", "done"}}
    BY <2>1 DEF Inv, GatewayInv
  <2>4. PostedByUser' = PostedByUser
    BY <2>3 DEF PostedByUser
  <2>5. Answerable(q)
    BY <2>1 DEF UserInv
  <2>6. \E p \in PostedByUser \cup PostedByRuns : p[1] = q /\ \E x \in Promise!Range(Dest[p[2]]) : x.block = User
    BY <2>5, SameRange, SamePosted DEF Answerable
  <2> QED BY <1>1, <2>2, <2>4, <2>6 DEF Promise!Answer, Answers
<1>6. CASE (\E q \in Requests : PostUserData(q)) \/ (\E h \in Hosts : ToUser(h))
  BY <1>2, <1>6 DEF PostUserData, ToUser, gatewayVars
<1> QED BY <1>2, <1>3, <1>4, <1>5, <1>6, GatewayStep DEF Promise!Next

(* A step that changes a run leaves the gateway alone.                     *)
LEMMA RunsLeaveGateway ==
  ASSUME [Next]_vars, runs' # runs PROVE UNCHANGED <<PostedByUser, Answers>>
<1>1. UNCHANGED phase
  BY GatewayStep DEF Run, SendInputs, Answer, PostUserData, ToUser
<1> QED BY <1>1 DEF PostedByUser, Answers

(* What is handed to a container fires.                                    *)
LEMMA AllocateFires ==
  ASSUME IInv', AvailableInv', UNCHANGED <<PostedByUser, Answers>>, NEW q, NEW b, NEW ins, Allocate(q, b, ins)
  PROVE  Promise!Next \/ UNCHANGED seen
<1>1. PICK new, s : runs' = runs \cup {new} /\ new.req = q /\ new.block = b /\ new.serial = s /\ new.posted = <<>>
  <2> DEFINE s == BlockSerial(b, ins)
             before == {r \in runs : r.req = q /\ r.block = b /\ r.serial = s}
             new == [req |-> q, block |-> b, serial |-> s, nth |-> Cardinality(before) + 1,
                     inputs |-> ins, state |-> "queued",
                     reads |-> <<>>, posts |-> <<>>, posted |-> <<>>, uploads |-> <<>>]
  <2>1. runs' = runs \cup {new}
    BY DEF Allocate
  <2>2. new.req = q /\ new.block = b /\ new.serial = s /\ new.posted = <<>>
    OBVIOUS
  <2> HIDE DEF new
  <2> QED BY <2>1, <2>2
<1>2. RunId(new) = <<q, b, s>>
  BY <1>1 DEF RunId
<1>3. PostedByRuns' = PostedByRuns
  <2>1. ProducedBy(new) = {}
    BY <1>1 DEF ProducedBy
  <2> QED BY <1>1, <2>1 DEF PostedByRuns, ProducedBy
<1>4. Posted' = Posted
  BY <1>3, SamePosted DEF Posted, Sent, ProducedBy, PostedByRuns
<1>5. FiredRuns' = FiredRuns \cup {<<q, b, s, new.nth>>}
  BY <1>1 DEF FiredRuns
<1>6. CASE new \in runs
  <2>1. FiredRuns' = FiredRuns
    BY <1>1, <1>6 DEF FiredRuns
  <2> QED BY <1>3, <2>1 DEF seen
<1>7. CASE new \notin runs
  <2>1. new \in runs' /\ new.nth = 1 /\ \A r \in runs : RunId(r) # RunId(new)
    BY <1>1, <1>7 DEF IInv, HistoryInv, FireInv, RunId
  <2>2. b \in Blocks /\ q \in Requests
    <3>1. IsRun(new)' /\ known' \in [Hosts -> SUBSET Requests]
      BY <2>1 DEF IInv, Inv, RunInv, InboxInv
    <3> QED BY <1>1, <3>1 DEF IsRun, Hosts
  <2>3. \A i \in DOMAIN Inputs[b] : AvailableFrom(Posted, q, b, i, s)
    BY <1>1, <1>4, <2>1 DEF AvailableInv
  <2>4. s \in Promise!Serials
    <3>1. s = NoSerial \/ \E p \in Posted : p[3] = s
      BY <1>1, <1>4, <2>1 DEF AvailableInv
    <3>2. Promise!NoSerial = NoSerial
      BY DEF Promise!NoSerial, NoSerial
    <3> QED BY <3>1, <3>2, SamePosted DEF Promise!Serials
  <2>5. \A f \in FiredRuns : <<f[1], f[2], f[3]>> # <<q, b, s>>
    BY <1>2, <2>1 DEF FiredRuns, RunId
  <2>6. \A i \in DOMAIN Inputs[b] : Promise!Available(q, b, i, s)
    BY <2>3, SameAvailable
  <2>7. FiredRuns' = FiredRuns \cup {<<q, b, s, 1>>}
    BY <1>5, <2>1
  <2>8. Promise!Fire(q, b, s)
    BY <1>3, <2>5, <2>6, <2>7 DEF Promise!Fire, Answers
  <2> QED BY <2>2, <2>4, <2>8 DEF Promise!Next
<1> QED BY <1>6, <1>7

(* Data of an output that have been posted are numbered from 0.            *)
LEMMA PostedSoFar ==
  ASSUME IInv, NEW r \in runs, r.serial = NoSerial, NEW o \in Outputs(r.block)
  PROVE  Cardinality({p \in Posted : p[1] = r.req /\ p[2] = o})
           = Cardinality({n \in 1..Len(r.posted) : r.posted[n] = o})
<1> DEFINE D == {p \in Posted : p[1] = r.req /\ p[2] = o}
           N == {n \in 1..Len(r.posted) : r.posted[n] = o}
           before(n) == {m \in 1..(n - 1) : r.posted[m] = o}
           f == [n \in N |-> <<r.req, o, Cardinality(before(n))>>]
<1>1. IsRun(r) /\ RunId(r) \in Fired /\ r.block \in Blocks
  BY RunType DEF IInv, Fired, IsRun
<1>2. ~ForeachBlock(r.block) /\ o \notin Range(GlobalInputs)
  BY <1>1, PostingAssumption DEF IInv, HistoryInv, InstInv, RunId
<1>3. \A n \in N : DatumPosted(r, n) = <<r.req, o, Cardinality(before(n))>>
  BY DEF DatumPosted
<1>4. D = {<<r.req, o, Cardinality(before(n))>> : n \in N}
  <2>1. ASSUME NEW n \in N PROVE <<r.req, o, Cardinality(before(n))>> \in D
    <3>1. DatumPosted(r, n) \in Posted
      BY <2>1, Posts
    <3> HIDE DEF before
    <3> QED BY <1>3, <3>1
  <2>2. ASSUME NEW p \in D PROVE \E n \in N : p = <<r.req, o, Cardinality(before(n))>>
    <3>1. PICK e \in runs : \E n \in 1..Len(e.posted) :
                 p = DatumPosted(e, n) /\ e.req = p[1] /\ e.posted[n] = p[2]
      BY <1>2, <2>2, PosterOf
    <3>2. PICK n \in 1..Len(e.posted) : p = DatumPosted(e, n) /\ e.req = p[1] /\ e.posted[n] = p[2]
      BY <3>1
    <3>3. e = r
      BY <1>2, <2>2, <3>2, OnePoster
    <3> HIDE DEF before
    <3> QED BY <1>3, <2>2, <3>2, <3>3
  <2> HIDE DEF D, N, before
  <2> QED BY <2>1, <2>2
<1>5. r.posted \in Seq(Outs) /\ Len(r.posted) \in Nat
  BY <1>1 DEF IsRun
<1>6. IsFiniteSet(N)
  <2>1. IsFiniteSet(1..Len(r.posted))
    BY <1>5, FS_Interval
  <2>2. N \subseteq 1..Len(r.posted)
    OBVIOUS
  <2> QED BY <2>1, <2>2, FS_Subset
<1>7. ASSUME NEW m \in N, NEW n \in N, m < n PROVE Cardinality(before(m)) # Cardinality(before(n))
  <2>1. before(m) \subseteq before(n) /\ m \in before(n) /\ m \notin before(m)
    BY <1>5, <1>7
  <2>2. before(n) \subseteq N
    BY <1>5, <1>7
  <2>3. IsFiniteSet(before(n))
    BY <1>6, <2>2, FS_Subset
  <2> HIDE DEF before, N
  <2> QED BY <2>1, <2>3, FS_Subset
<1>8. N \subseteq Nat
  BY <1>5
<1> HIDE DEF N, before
<1>9. \A m, n \in N : Cardinality(before(m)) = Cardinality(before(n)) => m = n
  BY <1>7, <1>8
<1>10. f \in Bijection(N, D)
  <2>1. f \in [N -> D] /\ \A d \in D : \E n \in N : f[n] = d
    BY <1>4
  <2>2. \A m, n \in N : f[m] = f[n] => m = n
    BY <1>9
  <2> HIDE DEF f, D
  <2>3. f \in Injection(N, D)
    BY <2>1, <2>2 DEF Injection, IsInjective
  <2>4. f \in Surjection(N, D)
    BY <2>1 DEF Surjection
  <2> QED BY <2>3, <2>4 DEF Bijection
<1> HIDE DEF f, D
<1>11. ExistsBijection(N, D)
  BY <1>10 DEF ExistsBijection
<1>12. Cardinality(D) = Cardinality(N)
  BY <1>6, <1>11, FS_Bijection
<1> QED BY <1>12 DEF D, N

(* What a container does posts one new datum, or is not seen.              *)
LEMMA RunSteps ==
  ASSUME IInv, UNCHANGED <<PostedByUser, Answers>>, NEW r \in runs,
         StartRun(r) \/ Fetch(r) \/ Post(r) \/ CountFails(r) \/ Upload(r) \/ Crash(r)
  PROVE  Promise!Next \/ UNCHANGED seen
<1>1. PICK r2 : /\ Become(r, r2) /\ r2.req = r.req /\ r2.block = r.block /\ r2.serial = r.serial /\ r2.nth = r.nth
                /\ \/ r2.posted = r.posted
                   \/ /\ r.posts # <<>> /\ r2.state = r.state
                      /\ r2.posted = Append(r.posted, Head(r.posts)) /\ r2.posts = Tail(r.posts)
  BY RunStepIs DEF IInv
<1>2. FiredRuns' = FiredRuns
  BY <1>1 DEF FiredRuns, Become
<1>3. PostedByRuns = UNION {ProducedBy(e) : e \in runs} /\ PostedByRuns' = UNION {ProducedBy(e) : e \in runs'}
  BY DEF PostedByRuns, ProducedBy
<1>4. CASE r2.posted = r.posted
  <2>1. ProducedBy(r2) = ProducedBy(r)
    BY <1>1, <1>4 DEF ProducedBy, DatumPosted
  <2>2. PostedByRuns' = PostedByRuns
    BY <1>1, <1>3, <2>1 DEF Become
  <2> QED BY <1>2, <2>2 DEF seen
<1>5. CASE /\ r.posts # <<>> /\ r2.state = r.state
           /\ r2.posted = Append(r.posted, Head(r.posts)) /\ r2.posts = Tail(r.posts)
  <2> DEFINE o == Head(r.posts)
             f == <<r.req, r.block, r.serial, r.nth>>
             datum == <<r.req, o, Promise!SerialOf(f, o)>>
  <2>1. IsRun(r) /\ PostsOnce(r) /\ RunId(r2) = RunId(r)
    BY <1>1, RunType DEF IInv, HistoryInv, PostInv, RunId
  <2>2. o \in Outs /\ o \in Outputs(r.block) /\ r.block \in Blocks
    <3>1. r.posts \in Seq(Outs) /\ o = r.posts[1] /\ 1 \in DOMAIN r.posts /\ r.block \in Blocks
      BY <1>5, <2>1 DEF IsRun
    <3> HIDE DEF o
    <3> QED BY <2>1, <3>1 DEF PostsOnce, Range
  <2>3. Promise!SerialOf(f, o) =
          IF r.serial = NoSerial THEN Cardinality({n \in 1..Len(r.posted) : r.posted[n] = o}) ELSE r.serial
    <3>1. Promise!SerialOf(f, o) =
            IF r.serial = Promise!NoSerial THEN Promise!Cardinality({p \in Posted : p[1] = r.req /\ p[2] = o})
            ELSE r.serial
      BY SamePosted DEF Promise!SerialOf
    <3>2. Promise!NoSerial = NoSerial
      BY DEF Promise!NoSerial, NoSerial
    <3> HIDE DEF o, f
    <3> QED BY <2>2, <3>1, <3>2, SameCardinality, PostedSoFar
  <2>4. Key(NextDatum(r, "direct")) = datum
    BY <2>3 DEF Key, NextDatum, Datum
  <2>5. ProducedBy(r2) = ProducedBy(r) \cup {datum}
    BY <1>5, <2>1, <2>4, AfterPost
  <2>6. datum \notin Posted
    <3>1. datum \notin Sent
      BY <1>5, <2>4, PostIsNew
    <3>2. o \notin Range(GlobalInputs)
      BY <2>2, PostingAssumption
    <3> HIDE DEF o, f
    <3> QED BY <3>1, <3>2 DEF Posted, PostedByUser
  <2> HIDE DEF datum, o
  <2>7. PostedByRuns' = PostedByRuns \cup {datum}
    BY <1>1, <1>3, <2>5 DEF Become
  <2>8. Promise!Post(f, o)
    <3>1. f[1] = r.req /\ f[2] = r.block /\ datum = <<f[1], o, Promise!SerialOf(f, o)>>
      BY DEF datum
    <3> HIDE DEF f
    <3> QED BY <1>2, <2>2, <2>6, <2>7, <3>1, SameOutputs, SamePosted DEF Promise!Post, Answers
  <2>9. f \in FiredRuns
    BY DEF FiredRuns
  <2> HIDE DEF f
  <2> QED BY <2>2, <2>8, <2>9 DEF Promise!Next, Promise!Outs, Outs
<1> QED BY <1>1, <1>4, <1>5

LEMMA StepsImplement ==
  ASSUME IInv, IInv', UserInv, AvailableInv', [Next]_vars PROVE [Promise!Next]_seen
<1>1. CASE UNCHANGED runs
  BY <1>1, GatewaySteps DEF IInv
<1>2. CASE runs' # runs
  BY <1>2, RunsLeaveGateway, RunsStep, AllocateFires, RunSteps DEF IInv
<1> QED BY <1>1, <1>2

LEMMA StartsEmpty == Init => Promise!Init
<1> SUFFICES ASSUME Init PROVE Promise!Init
  OBVIOUS
<1>1. PostedByUser = {} /\ PostedByRuns = {} /\ FiredRuns = {} /\ Answers = {}
  BY DEF Init, PostedByUser, PostedByRuns, FiredRuns, Answers
<1> QED BY <1>1 DEF Promise!Init, Answers

-----------------------------------------------------------------------------
(* WorkerSP implements Dataflow                                            *)

(* Whoever is answered is answered from a datum that its workflow sends to *)
(* $USER.                                                                  *)
THEOREM AnswersAreBacked == Spec => []UserInv
<1>1. Init => UserInv
  BY DEF Init, UserInv
<1>2. IInv /\ AnnouncedInv /\ CountLastInv /\ UserInv /\ [Next]_vars => UserInv'
  BY NextUser, NextKeepsCounts DEF IInv
<1> QED BY <1>1, <1>2, DeliveredOnce, CountsAreAnnounced, PTL DEF Spec

(* The engine implements Dataflow: an instance fires once and only on all  *)
(* its inputs, across hosts, whatever is delayed, reordered or lost.       *)
THEOREM Implementation ==
  ASSUME \A b \in Blocks : ItemsAlone(b) PROVE Spec => ImplementsDataflow
<1>1. Init => Promise!Init
  BY StartsEmpty
<1>2. IInv /\ IInv' /\ UserInv /\ AvailableInv' /\ [Next]_vars => [Promise!Next]_seen
  BY StepsImplement
<1>3. IInv /\ AllInputsInv /\ WholeInv => AvailableInv
  BY InputsAvailable
<1>4. Spec => Promise!Spec
  BY <1>1, <1>2, <1>3, DeliveredOnce, TriggeredOnAllInputs, ListsAreWhole, AnswersAreBacked, PTL
     DEF Spec, Promise!Spec, seen, Answers
<1> QED BY <1>4 DEF ImplementsDataflow
=============================================================================
