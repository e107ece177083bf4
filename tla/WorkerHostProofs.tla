-------------------------- MODULE WorkerHostProofs --------------------------
(***************************************************************************)
(* The engine keeps what the flow monitor of its host relies on, for any   *)
(* requests, workflow that joins no item with another input, placement and *)
(* faults.                                                                 *)
(*                                                                         *)
(* The engine's facts come first (EngineInv): where references to a large  *)
(* datum may be, that redis announces it once, and what a run has still to *)
(* post.  Then the agreement of engine and monitor (HostInv): the keys and *)
(* counts are the same, and a reader of the monitor is past its read when  *)
(* a run of the engine has read.  With FlowMonitor's own invariant these   *)
(* are inductive, and every step of the host is one of each, or leaves     *)
(* that one alone.                                                         *)
(***************************************************************************)
EXTENDS KeptUntilReadProofs, WorkerHost

-----------------------------------------------------------------------------
(* What each step posts and sends                                          *)

(* A run's step sends a report, the head of its uploads or what it posts,  *)
(* and a reference only of a large output with somebody to read it there.  *)
HasReadersAt(h, o) == BlocksAt(o, h) # {} \/ Dest[o][1].block = User
LEMMA RunMails ==
  ASSUME Inv, NEW r \in runs,
         StartRun(r) \/ Fetch(r) \/ Post(r) \/ CountFails(r) \/ Upload(r) \/ Crash(r)
  PROVE  /\ UNCHANGED <<queue, dataNet, running, deps>>
         /\ \/ UNCHANGED backlog
            \/ \E d : /\ Send(Home[r.block], d)
                      /\ \/ d.kind \in {"fetched", "direct"} \/ d \in Range(r.uploads)
                         \/ /\ Post(r) /\ d = NextDatum(r, "redis")
                            /\ Head(r.posts) \in Big /\ HasReadersAt(Home[r.block], Head(r.posts))
         /\ \E r2 : /\ Become(r, r2) /\ r2.block = r.block
                    /\ \A d \in Range(r2.uploads) :
                         d \in Range(r.uploads) \/ (Post(r) /\ d = NextDatum(r, "kafka"))
<1>1. IsRun(r) /\ r.uploads \in Seq(Range(r.uploads))
  BY RunType, InRange DEF IsRun
<1> DEFINE h == Home[r.block]
           Sends(d) == /\ Send(h, d)
                       /\ \/ d.kind \in {"fetched", "direct"} \/ d \in Range(r.uploads)
                          \/ /\ Post(r) /\ d = NextDatum(r, "redis")
                             /\ Head(r.posts) \in Big /\ HasReadersAt(h, Head(r.posts))
           Keeps(r2) == /\ r2.block = r.block
                        /\ \A d \in Range(r2.uploads) :
                             d \in Range(r.uploads) \/ (Post(r) /\ d = NextDatum(r, "kafka"))
<1>2. UNCHANGED <<queue, dataNet, running, deps>>
  BY DEF StartRun, Fetch, Post, CountFails, Upload, Crash, netVars, inboxVars, greenVars, keyVars
<1>3. UNCHANGED backlog \/ \E d : Sends(d)
  <2>1. CASE StartRun(r) \/ CountFails(r) \/ Crash(r)
    BY <2>1 DEF StartRun, CountFails, Crash, inboxVars
  <2>2. CASE Fetch(r)
    BY <2>2 DEF Fetch, Report, Datum
  <2>3. CASE Upload(r)
    <3>1. Send(h, Head(r.uploads)) /\ r.uploads # <<>>
      BY <2>3 DEF Upload
    <3>2. Head(r.uploads) \in Range(r.uploads)
      BY <1>1, <3>1, RangesAre
    <3> QED BY <3>1, <3>2
  <2>4. CASE Post(r)
    <3>1. \/ UNCHANGED backlog
          \/ Send(h, NextDatum(r, "direct"))
          \/ /\ Send(h, NextDatum(r, "redis"))
             /\ Head(r.posts) \in Big /\ HasReadersAt(h, Head(r.posts))
      BY <2>4 DEF Post, HasReadersAt
    <3>2. NextDatum(r, "direct").kind = "direct"
      BY DEF NextDatum, Datum
    <3> QED BY <2>4, <3>1, <3>2
  <2> QED BY <2>1, <2>2, <2>3, <2>4
<1>4. \E r2 : Become(r, r2) /\ Keeps(r2)
  <2>1. CASE StartRun(r)
    <3>1. PICK s \in {"started", "failed"} : \E reads :
            \/ Become(r, [r EXCEPT !.state = s, !.reads = reads])
            \/ \E p : Become(r, [[r EXCEPT !.state = s, !.reads = reads] EXCEPT !.posts = p])
      BY <2>1 DEF StartRun
    <3>2. PICK reads :
            \/ Become(r, [r EXCEPT !.state = s, !.reads = reads])
            \/ \E p : Become(r, [[r EXCEPT !.state = s, !.reads = reads] EXCEPT !.posts = p])
      BY <3>1
    <3> DEFINE w == [r EXCEPT !.state = s, !.reads = reads]
    <3>3. Keeps(w) /\ \A p : Keeps([w EXCEPT !.posts = p])
      BY <1>1 DEF IsRun
    <3> HIDE DEF Keeps
    <3> QED BY <3>2, <3>3
  <2>2. CASE Fetch(r)
    <3>1. Become(r, [r EXCEPT !.reads = Tail(@)]) /\ Keeps([r EXCEPT !.reads = Tail(@)])
      BY <1>1, <2>2 DEF Fetch, IsRun
    <3> QED BY <3>1
  <2>3. CASE CountFails(r)
    <3> DEFINE w == [r EXCEPT !.state = "failed", !.posts = <<>>]
    <3>1. Become(r, w) /\ Keeps(w)
      BY <1>1, <2>3 DEF CountFails, IsRun
    <3> QED BY <3>1
  <2>4. CASE Upload(r)
    <3> DEFINE w == [r EXCEPT !.uploads = Tail(@)]
    <3>1. Become(r, w) /\ w.block = r.block /\ w.uploads = Tail(r.uploads) /\ r.uploads # <<>>
      BY <1>1, <2>4 DEF Upload, IsRun
    <3>2. Range(Tail(r.uploads)) \subseteq Range(r.uploads)
      BY <1>1, <3>1, RangesAre
    <3> HIDE DEF w
    <3> QED BY <3>1, <3>2
  <2>5. CASE Crash(r)
    <3>1. PICK u \in {r.uploads, <<>>} : Become(r, [r EXCEPT !.state = "crashed", !.posts = <<>>, !.uploads = u])
      BY <2>5 DEF Crash
    <3> DEFINE w == [r EXCEPT !.state = "crashed", !.posts = <<>>, !.uploads = u]
    <3>2. Become(r, w) /\ w.block = r.block /\ w.uploads = u
      BY <1>1, <3>1 DEF IsRun
    <3>3. Range(u) \subseteq Range(r.uploads)
      BY <3>1 DEF Range
    <3> HIDE DEF w
    <3> QED BY <3>2, <3>3
  <2>6. CASE Post(r)
    <3> DEFINE w == [r EXCEPT !.posts = Tail(@), !.posted = Append(@, Head(r.posts))]
               v == [w EXCEPT !.uploads = Append(@, NextDatum(r, "kafka"))]
    <3>1. Become(r, w) \/ Become(r, v)
      BY <2>6 DEF Post
    <3>2. /\ w.block = r.block /\ w.uploads = r.uploads
          /\ v.block = r.block /\ v.uploads = Append(r.uploads, NextDatum(r, "kafka"))
      BY <1>1 DEF IsRun
    <3>3. Range(Append(r.uploads, NextDatum(r, "kafka"))) = Range(r.uploads) \cup {NextDatum(r, "kafka")}
      BY <1>1, RangesAre
    <3> HIDE DEF w, v
    <3> QED BY <2>6, <3>1, <3>2, <3>3
  <2> QED BY <2>1, <2>2, <2>3, <2>4, <2>5, <2>6
<1> QED BY <1>2, <1>3, <1>4

(* What is sent stays sent; a post sends one new datum.                    *)
LEMMA SentStep ==
  ASSUME IInv, [Next]_vars
  PROVE  \/ Sent' = Sent
         \/ \E r \in runs : Post(r) /\ \A kind : Sent' = Sent \cup {Key(NextDatum(r, kind))}
<1>1. Inv
  BY DEF IInv
<1>2. ASSUME UNCHANGED runs PROVE Sent' = Sent
  BY <1>2 DEF Sent, ProducedBy, DatumPosted
<1>3. ASSUME NEW q, NEW b, NEW ins, Allocate(q, b, ins) PROVE Sent' = Sent
  <2>1. PICK r : r.posted = <<>> /\ runs' = runs \cup {r}
    BY <1>3, AllocatesNew DEF NewRun
  <2>2. ProducedBy(r) = {}
    BY <2>1 DEF ProducedBy
  <2>3. Sent' = UNION {ProducedBy(e) : e \in runs'}
    BY DEF Sent, ProducedBy, DatumPosted
  <2>4. Sent = UNION {ProducedBy(e) : e \in runs}
    BY DEF Sent
  <2> HIDE DEF Sent, ProducedBy
  <2> QED BY <2>1, <2>2, <2>3, <2>4
<1>4. ASSUME NEW r \in runs,
             StartRun(r) \/ Fetch(r) \/ Post(r) \/ CountFails(r) \/ Upload(r) \/ Crash(r)
      PROVE  \/ Sent' = Sent
             \/ Post(r) /\ \A kind : Sent' = Sent \cup {Key(NextDatum(r, kind))}
  <2>1. PICK r2 : /\ Become(r, r2) /\ r2.req = r.req /\ r2.block = r.block /\ r2.serial = r.serial
                  /\ \/ r2.posted = r.posted
                     \/ /\ Post(r) /\ r.posts # <<>> /\ r2.state = r.state
                        /\ r2.posted = Append(r.posted, Head(r.posts)) /\ r2.posts = Tail(r.posts)
    BY <1>1, <1>4, RunStepIs
  <2>2. Sent' = UNION {ProducedBy(e) : e \in runs'}
    BY DEF Sent, ProducedBy, DatumPosted
  <2>3. Sent = UNION {ProducedBy(e) : e \in runs}
    BY DEF Sent
  <2>4. runs' = (runs \ {r}) \cup {r2}
    BY <2>1 DEF Become
  <2>5. CASE r2.posted = r.posted
    <3>1. ProducedBy(r2) = ProducedBy(r)
      BY <2>1, <2>5 DEF ProducedBy, DatumPosted
    <3> QED BY <2>2, <2>3, <2>4, <3>1
  <2>6. CASE r2.posted # r.posted
    <3>1. IsRun(r) /\ PostsOnce(r) /\ RunId(r2) = RunId(r)
      BY <1>1, <2>1, RunType DEF IInv, HistoryInv, PostInv, RunId
    <3>2. ASSUME NEW kind PROVE ProducedBy(r2) = ProducedBy(r) \cup {Key(NextDatum(r, kind))}
      BY <2>1, <2>6, <3>1, AfterPost
    <3> HIDE DEF ProducedBy
    <3>3. ASSUME NEW kind PROVE Sent' = Sent \cup {Key(NextDatum(r, kind))}
      BY <2>2, <2>3, <2>4, <3>2
    <3> QED BY <2>1, <2>6, <3>3
  <2> QED BY <2>5, <2>6
<1> QED BY <1>1, <1>2, <1>3, <1>4, RunsStep

-----------------------------------------------------------------------------
(* Where a running greenlet has its datum from                             *)

LEMMA RunsOn ==
  ASSUME Inv, NEW k \in Hosts, NEW w, running' = [running EXCEPT ![k] = Continue(w)], NEW h \in Hosts,
         running'[h] # <<>>
  PROVE  running'[h] = running[h] \/ (h = k /\ running'[h][1] = w)
<1>1. PICK u \in {<<>>, <<w>>} : running' = [running EXCEPT ![k] = u]
  BY ContinueIs
<1>2. running = [e \in Hosts |-> running[e]]
  BY DEF Inv, GreenInv
<1> QED BY <1>1, <1>2

LEMMA FlowRuns2 ==
  ASSUME NEW h \in Hosts, FlowForeach(h) \/ FlowMerge(h) \/ FlowNormal(h)
  PROVE  /\ Flowing(h, "NORMAL") \/ Flowing(h, "MERGE") \/ Flowing(h, "FOREACH")
         /\ \E u \in {<<>>, <<Advance(running[h][1])>>} : running' = [running EXCEPT ![h] = u]
<1> DEFINE g == Advance(running[h][1])
           GoesTo(u) == running' = [running EXCEPT ![h] = u]
<1>1. Flowing(h, "NORMAL") \/ Flowing(h, "MERGE") \/ Flowing(h, "FOREACH")
  BY DEF FlowForeach, FlowMerge, FlowNormal
<1>2. Continue(g) \in {<<>>, <<g>>}
  BY ContinueIs
<1>3. ASSUME NEW b, NEW ins, TriggerNormal(h, g, b, ins) PROVE GoesTo(Continue(g)) \/ GoesTo(<<>>)
  BY <1>3 DEF TriggerNormal
<1>4. ASSUME NEW b, NEW ins, CountInput(h, g, b, ins) PROVE GoesTo(Continue(g)) \/ GoesTo(<<>>)
  BY <1>3, <1>4 DEF CountInput
<1> HIDE DEF g, GoesTo
<1>5. GoesTo(Continue(g)) \/ GoesTo(<<>>)
  <2>1. CASE FlowForeach(h)
    BY <1>3, <2>1 DEF FlowForeach, g
  <2>2. CASE FlowMerge(h)
    BY <1>4, <2>2 DEF FlowMerge, g, GoesTo
  <2>3. CASE FlowNormal(h)
    BY <1>4, <2>3 DEF FlowNormal, g, GoesTo
  <2> QED BY <2>1, <2>2, <2>3
<1>6. PICK u \in {<<>>, <<g>>} : GoesTo(u)
  BY <1>2, <1>5
<1> QED BY <1>1, <1>6 DEF g, GoesTo

LEMMA RunningIsFrom ==
  ASSUME Inv, [Next]_vars, NEW h \in Hosts, running'[h] # <<>>
  PROVE  \/ running[h] # <<>> /\ running'[h][1].data = running[h][1].data
         \/ \E g \in parked[h] : running'[h][1].data = g.data
         \/ Dispatch(h) /\ running'[h][1].data = Head(queue[h])
<1> DEFINE Done == \/ running[h] # <<>> /\ running'[h][1].data = running[h][1].data
                   \/ \E g \in parked[h] : running'[h][1].data = g.data
                   \/ Dispatch(h) /\ running'[h][1].data = Head(queue[h])
<1> SUFFICES Done
  OBVIOUS
<1>1. ASSUME running'[h] = running[h] PROVE Done
  BY <1>1
<1>2. ASSUME NEW k \in Hosts, NEW w, running' = [running EXCEPT ![k] = Continue(w)],
             running[k] # <<>>, w.data = running[k][1].data
      PROVE  Done
  BY <1>1, <1>2, RunsOn
<1>3. ASSUME NEW k \in Hosts, NEW w, running' = [running EXCEPT ![k] = Continue(w)],
             NEW g \in parked[k], w.data = g.data
      PROVE  Done
  <2>1. running'[h] = running[h] \/ (h = k /\ running'[h][1] = w)
    BY <1>3, RunsOn
  <2>2. CASE h = k /\ running'[h][1] = w
    BY <1>3, <2>2
  <2> QED BY <1>1, <2>1, <2>2
<1>4. ASSUME NEW k \in Hosts, NEW u \in {<<>>, <<Advance(running[k][1])>>}, Flowing(k, "NORMAL") \/ Flowing(k, "MERGE") \/ Flowing(k, "FOREACH"),
             running' = [running EXCEPT ![k] = u]
      PROVE  Done
  <2>1. running[k] # <<>> /\ IsGreenlet(k, running[k][1])
    BY <1>4 DEF Flowing, Inv, GreenInv
  <2>2. Advance(running[k][1]).data = running[k][1].data
    BY <2>1 DEF Advance, IsGreenlet
  <2>3. running = [e \in Hosts |-> running[e]]
    BY DEF Inv, GreenInv
  <2>4. running'[h] = running[h] \/ (h = k /\ running'[h][1] = Advance(running[k][1]))
    <3> DEFINE w == Advance(running[k][1])
    <3> HIDE DEF w
    <3> QED BY <1>4, <2>3 DEF w
  <2> QED BY <1>1, <2>1, <2>2, <2>4
<1>5. ASSUME NEW k \in Hosts, Dispatch(k) PROVE Done
  <2>1. PICK d : d = Head(queue[k])
    OBVIOUS
  <2>2. Greenlet(k, d).data = d /\ running' = [running EXCEPT ![k] = Continue(Greenlet(k, d))]
    BY <1>5, <2>1 DEF Dispatch, Greenlet
  <2>3. PICK w : w.data = d /\ running' = [running EXCEPT ![k] = Continue(w)]
    BY <2>2
  <2>4. running'[h] = running[h] \/ (h = k /\ running'[h][1] = w)
    BY <2>3, RunsOn
  <2> QED BY <1>1, <1>5, <2>1, <2>3, <2>4
<1>6. ASSUME NEW k \in Hosts, ToUser(k) \/ ToRemote(k) PROVE Done
  <2> DEFINE g == running[k][1]
             e == [g EXCEPT !.sent = @ \cup {Home[Head(g.dests).block]}]
  <2>1. /\ running[k] # <<>>
        /\ \/ running' = [running EXCEPT ![k] = Continue(Advance(g))]
           \/ running' = [running EXCEPT ![k] = Continue(Advance(e))]
    BY <1>6 DEF ToUser, ToRemote
  <2>2. IsGreenlet(k, g)
    BY <2>1 DEF Inv, GreenInv
  <2>3. Advance(g).data = g.data /\ Advance(e).data = g.data
    BY <2>2 DEF Advance, IsGreenlet
  <2> HIDE DEF e
  <2> QED BY <1>2, <2>1, <2>3
<1>7. ASSUME NEW k \in Hosts, NEW g, ResumeMerge(k, g) \/ ResumeTrigger(k, g) PROVE Done
  <2>1. g \in parked[k] /\ IsGreenlet(k, g)
    BY <1>7 DEF ResumeMerge, ResumeTrigger, Inv, GreenInv
  <2>2. [g EXCEPT !.call = <<>>].data = g.data
    BY <2>1 DEF IsGreenlet
  <2>3. CASE ResumeTrigger(k, g)
    <3>1. running' = [running EXCEPT ![k] = Continue([g EXCEPT !.call = <<>>])]
      BY <2>3 DEF ResumeTrigger
    <3>2. PICK w : w = [g EXCEPT !.call = <<>>]
      OBVIOUS
    <3> QED BY <1>3, <2>1, <2>2, <3>1, <3>2
  <2>4. CASE ResumeMerge(k, g)
    <3>1. running' = [running EXCEPT ![k] = <<g>>]
      BY <2>4 DEF ResumeMerge
    <3>2. running = [e \in Hosts |-> running[e]]
      BY DEF Inv, GreenInv
    <3>3. running'[h] = running[h] \/ (h = k /\ running'[h][1] = g)
      BY <3>1, <3>2
    <3> QED BY <1>1, <2>1, <3>3
  <2> QED BY <1>7, <2>3, <2>4
<1>8. ASSUME NEW k \in Hosts, FlowForeach(k) \/ FlowMerge(k) \/ FlowNormal(k) PROVE Done
  BY <1>4, <1>8, FlowRuns2
<1> HIDE DEF Done
<1>9. ASSUME UNCHANGED running PROVE Done
  BY <1>1, <1>9
<1>10. CASE Step
  <2>1. ASSUME NEW q \in Requests, Run(q) \/ SendInputs(q) \/ Answer(q) \/ PostUserData(q) PROVE Done
    BY <1>9, <2>1 DEF Run, SendInputs, Answer, PostUserData, greenVars
  <2>2. ASSUME NEW k \in Hosts, NEW q \in Requests, RequestInfo(k, q) PROVE Done
    BY <1>9, <2>2 DEF RequestInfo, greenVars
  <2>3. ASSUME NEW m \in dataNet, TransferData(m) PROVE Done
    BY <1>9, <2>3 DEF TransferData, greenVars
  <2>4. ASSUME NEW k \in Hosts, SocketServer(k) \/ DispatchFetched(k) PROVE Done
    BY <1>9, <2>4 DEF SocketServer, DispatchFetched, greenVars
  <2>5. ASSUME NEW k \in Hosts, NEW e, PrefetchData(k, e) PROVE Done
    BY <1>9, <2>5 DEF PrefetchData, greenVars
  <2>6. ASSUME NEW r \in runs, StartRun(r) \/ Fetch(r) \/ Post(r) \/ CountFails(r) \/ Upload(r) PROVE Done
    BY <1>9, <2>6 DEF StartRun, Fetch, Post, CountFails, Upload, greenVars
  <2> QED BY <1>5, <1>6, <1>7, <1>8, <1>10, <2>1, <2>2, <2>3, <2>4, <2>5, <2>6 DEF Step
<1>11. CASE Fault
  BY <1>9, <1>11 DEF Fault, LosePost, LosePrefetch, Crash, greenVars
<1>12. CASE UNCHANGED vars
  BY <1>9, <1>12 DEF vars, greenVars
<1> QED BY <1>10, <1>11, <1>12 DEF Next

LEMMA NextHeld ==
  ASSUME IInv, NEW G, HeldIn(G, running, parked, inputDatas, runs), [Next]_vars,
         \A h \in Hosts : Dispatch(h) => ForwardedFrom(Head(queue[h])) \/ Head(queue[h]) \in G[h]
  PROVE  HeldIn(G, running', parked', inputDatas', runs')
<1>1. Inv /\ KeysInv
  BY DEF IInv, DeliveryInv, AheadInv
<1> DEFINE Done == HeldIn(G, running', parked', inputDatas', runs')
<1>4. ASSUME UNCHANGED <<running, parked, inputDatas, runs>> PROVE Done
  BY <1>4
<1> SUFFICES Done
  OBVIOUS
<1> HIDE DEF Done
<1>5. ASSUME NEW h \in Hosts, NEW q \in Requests, RequestInfo(h, q) PROVE Done
  BY <1>1, <1>5, RequestInfoHeld DEF Done
<1>6. ASSUME NEW h \in Hosts, Dispatch(h) PROVE Done
  <2>1. PICK d : d = Head(queue[h])
    OBVIOUS
  <2>2. /\ running' = [running EXCEPT ![h] = Continue(Greenlet(h, d))] /\ Greenlet(h, d).data = d
        /\ UNCHANGED <<parked, inputDatas, runs>>
    BY <1>1, <1>6, <2>1, DispatchRegisters
  <2>4. ForwardedFrom(d) \/ d \in G[h]
    BY <1>6, <2>1
  <2>5. PICK w : running' = [running EXCEPT ![h] = Continue(w)] /\ w.data = d
    BY <2>2
  <2> QED BY <1>1, <2>2, <2>4, <2>5, MovesOnHeld DEF Done
<1>7. ASSUME NEW h \in Hosts, ToUser(h) \/ ToRemote(h) PROVE Done
  BY <1>1, <1>7, SendsHeld DEF Done
<1>8. ASSUME NEW h \in Hosts, FlowForeach(h) \/ FlowMerge(h) \/ FlowNormal(h) PROVE Done
  BY <1>1, <1>8, FlowForeachHeld, FlowMergeHeld, FlowNormalHeld DEF Done
<1>9. ASSUME NEW h \in Hosts, NEW g, ResumeMerge(h, g) \/ ResumeTrigger(h, g) PROVE Done
  BY <1>1, <1>9, ResumeHeld DEF Done
<1>10. ASSUME NEW r \in runs, StartRun(r) \/ Fetch(r) \/ Post(r) \/ CountFails(r) \/ Upload(r) \/ Crash(r)
       PROVE  Done
  BY <1>1, <1>10, RunStepHeld DEF Done
<1>11. ASSUME NEW q \in Requests, Run(q) \/ SendInputs(q) \/ Answer(q) \/ PostUserData(q) PROVE Done
  BY <1>4, <1>11 DEF Run, SendInputs, Answer, PostUserData, greenVars, stateVars
<1>12. ASSUME NEW m \in dataNet, TransferData(m) PROVE Done
  BY <1>4, <1>12 DEF TransferData, greenVars, stateVars
<1>13. ASSUME NEW h \in Hosts, SocketServer(h) \/ DispatchFetched(h) PROVE Done
  BY <1>4, <1>13 DEF SocketServer, DispatchFetched, greenVars, stateVars
<1>14. ASSUME NEW h \in Hosts, NEW k, PrefetchData(h, k) \/ LosePrefetch(h, k) PROVE Done
  BY <1>4, <1>14 DEF PrefetchData, LosePrefetch, greenVars, stateVars
<1>15. CASE LosePost
  BY <1>4, <1>15 DEF LosePost, greenVars, stateVars
<1>16. CASE UNCHANGED vars
  BY <1>4, <1>16 DEF vars, greenVars, stateVars
<1>17. CASE Step
  BY <1>5, <1>6, <1>7, <1>8, <1>9, <1>10, <1>11, <1>12, <1>13, <1>14, <1>17 DEF Step
<1>18. CASE Fault
  BY <1>10, <1>14, <1>15, <1>18 DEF Fault
<1> QED BY <1>16, <1>17, <1>18 DEF Next

RunStep(r) == StartRun(r) \/ Fetch(r) \/ Post(r) \/ CountFails(r) \/ Upload(r) \/ Crash(r)

(* What each step does to the inboxes, with where a new message is from.   *)
LEMMA InboxMoves ==
  ASSUME Inv, [Next]_vars
  PROVE  \/ UNCHANGED <<backlog, queue, deps>>
         \/ \E m \in dataNet : /\ queue' = [queue EXCEPT ![m.to] = @ \o m.datas]
                               /\ UNCHANGED <<backlog, deps, runs>>
         \/ \E h \in Hosts :
              /\ backlog[h] # <<>> /\ backlog' = [backlog EXCEPT ![h] = Tail(@)]
              /\ queue' = [queue EXCEPT ![h] = Append(@, Head(backlog[h]))] /\ UNCHANGED <<deps, runs>>
         \/ \E h \in Hosts : DispatchFetched(h) \/ Dispatch(h)
         \/ \E r \in runs : RunStep(r)
<1> DEFINE Done == \/ UNCHANGED <<backlog, queue, deps>>
                   \/ \E m \in dataNet : /\ queue' = [queue EXCEPT ![m.to] = @ \o m.datas]
                                         /\ UNCHANGED <<backlog, deps, runs>>
                   \/ \E h \in Hosts :
                        /\ backlog[h] # <<>> /\ backlog' = [backlog EXCEPT ![h] = Tail(@)]
                        /\ queue' = [queue EXCEPT ![h] = Append(@, Head(backlog[h]))] /\ UNCHANGED <<deps, runs>>
                   \/ \E h \in Hosts : DispatchFetched(h) \/ Dispatch(h)
                   \/ \E r \in runs : RunStep(r)
<1> SUFFICES Done
  OBVIOUS
<1>1. ASSUME NEW m \in dataNet, TransferData(m) PROVE Done
  BY <1>1 DEF TransferData, keyVars
<1>2. ASSUME NEW h \in Hosts, SocketServer(h) PROVE Done
  <2>1. Head(backlog[h]).req \in known[h]
    BY <1>2, InboxTail DEF Inv, InboxInv, SocketServer
  <2>2. /\ backlog[h] # <<>> /\ backlog' = [backlog EXCEPT ![h] = Tail(@)]
        /\ queue' = [queue EXCEPT ![h] = Append(@, Head(backlog[h]))] /\ UNCHANGED <<deps, runs>>
    BY <1>2, <2>1 DEF SocketServer, keyVars
  <2> QED BY <2>2
<1>3. ASSUME UNCHANGED <<backlog, queue, deps>> PROVE Done
  BY <1>3
<1>4. ASSUME NEW h \in Hosts, DispatchFetched(h) \/ Dispatch(h) PROVE Done
  BY <1>4
<1>5. ASSUME NEW r \in runs, RunStep(r) PROVE Done
  BY <1>5
<1> HIDE DEF Done
<1>6. CASE Step
  <2>1. ASSUME NEW q \in Requests, Run(q) \/ SendInputs(q) \/ Answer(q) \/ PostUserData(q) PROVE Done
    BY <1>3, <2>1 DEF Run, SendInputs, Answer, PostUserData, inboxVars, keyVars
  <2>2. ASSUME NEW h \in Hosts, NEW q \in Requests, RequestInfo(h, q) PROVE Done
    BY <1>3, <2>2 DEF RequestInfo, keyVars
  <2>3. ASSUME NEW h \in Hosts, ToUser(h) \/ ToRemote(h) \/ FlowForeach(h) \/ FlowMerge(h) \/ FlowNormal(h)
        PROVE  Done
    BY <1>3, <2>3 DEF ToUser, ToRemote, FlowForeach, FlowMerge, FlowNormal, inboxVars, keyVars
  <2>4. ASSUME NEW h \in Hosts, NEW k, PrefetchData(h, k) PROVE Done
    BY <1>3, <2>4 DEF PrefetchData, inboxVars
  <2>5. ASSUME NEW h \in Hosts, NEW g, ResumeMerge(h, g) \/ ResumeTrigger(h, g) PROVE Done
    BY <1>3, <2>5 DEF ResumeMerge, ResumeTrigger, inboxVars, keyVars
  <2> QED BY <1>1, <1>2, <1>4, <1>5, <1>6, <2>1, <2>2, <2>3, <2>4, <2>5 DEF Step, RunStep
<1>7. CASE Fault
  BY <1>3, <1>5, <1>7 DEF Fault, LosePost, LosePrefetch, inboxVars, keyVars, RunStep
<1>8. CASE UNCHANGED vars
  BY <1>3, <1>8 DEF vars, inboxVars, keyVars
<1> QED BY <1>6, <1>7, <1>8 DEF Next

(* Every message in an inbox was there, or came over the network, or a     *)
(* run of the host has sent it.                                            *)
LEMMA InboxFrom ==
  ASSUME Inv, [Next]_vars, NEW h \in Hosts, NEW d \in Range(backlog'[h]) \cup Range(queue'[h])
  PROVE  \/ d \in Range(backlog[h]) \cup Range(queue[h])
         \/ \E m \in dataNet : m.to = h /\ d \in Range(m.datas)
         \/ \E r \in runs : RunStep(r) /\ Home[r.block] = h /\ d \in Range(backlog'[h]) /\ Send(h, d)
<1> DEFINE Done == \/ d \in Range(backlog[h]) \cup Range(queue[h])
                   \/ \E m \in dataNet : m.to = h /\ d \in Range(m.datas)
                   \/ \E r \in runs : RunStep(r) /\ Home[r.block] = h /\ d \in Range(backlog'[h]) /\ Send(h, d)
<1> SUFFICES Done
  OBVIOUS
<1>1. /\ backlog = [k \in Hosts |-> backlog[k]] /\ queue = [k \in Hosts |-> queue[k]]
      /\ backlog[h] \in Seq(Range(backlog[h])) /\ queue[h] \in Seq(Range(queue[h]))
  BY InboxTypes DEF Inv, InboxInv
<1>2. ASSUME backlog'[h] = backlog[h], Range(queue'[h]) \subseteq Range(queue[h]) PROVE Done
  BY <1>2
<1>3. ASSUME NEW m \in dataNet, queue' = [queue EXCEPT ![m.to] = @ \o m.datas], UNCHANGED backlog PROVE Done
  <2>1. CASE m.to = h
    <3>1. m.datas \in Seq(Range(m.datas))
      BY InRange DEF Inv, NetInv, IsMessage
    <3>2. Range(queue[h] \o m.datas) \subseteq Range(queue[h]) \cup Range(m.datas)
      BY <1>1, <3>1, RangesAre
    <3> QED BY <1>1, <1>3, <2>1, <3>2
  <2>2. CASE m.to # h
    BY <1>1, <1>2, <1>3, <2>2
  <2> QED BY <2>1, <2>2
<1>4. ASSUME NEW k \in Hosts, backlog[k] # <<>>, backlog' = [backlog EXCEPT ![k] = Tail(@)],
             queue' = [queue EXCEPT ![k] = Append(@, Head(backlog[k]))]
      PROVE  Done
  <2>1. CASE k = h
    <3>1. /\ Head(backlog[h]) \in Range(backlog[h]) /\ Range(Tail(backlog[h])) \subseteq Range(backlog[h])
          /\ Range(Append(queue[h], Head(backlog[h]))) = Range(queue[h]) \cup {Head(backlog[h])}
      BY <1>1, <1>4, <2>1, RangesAre
    <3>2. backlog'[h] = Tail(backlog[h]) /\ queue'[h] = Append(queue[h], Head(backlog[h]))
      BY <1>1, <1>4, <2>1
    <3> QED BY <3>1, <3>2
  <2>2. CASE k # h
    BY <1>1, <1>2, <1>4, <2>2
  <2> QED BY <2>1, <2>2
<1>5. ASSUME NEW k \in Hosts, DispatchFetched(k) \/ Dispatch(k) PROVE Done
  <2>1. UNCHANGED backlog /\ queue[k] # <<>> /\ queue' = [queue EXCEPT ![k] = Tail(@)]
    BY <1>5 DEF DispatchFetched, Dispatch
  <2>2. queue'[h] = queue[h] \/ (k = h /\ queue'[h] = Tail(queue[h]))
    BY <1>1, <2>1
  <2>3. Range(queue'[h]) \subseteq Range(queue[h])
    BY <1>1, <2>1, <2>2, RangesAre
  <2> QED BY <1>2, <2>1, <2>3
<1>6. ASSUME NEW r \in runs, RunStep(r) PROVE Done
  <2>1. /\ UNCHANGED queue /\ (UNCHANGED backlog \/ \E e : Send(Home[r.block], e))
    BY <1>6, RunMails DEF RunStep
  <2>2. CASE UNCHANGED backlog
    BY <2>1, <2>2
  <2>3. ASSUME NEW e, Send(Home[r.block], e) PROVE Done
    <3>1. CASE Home[r.block] = h
      <4>1. backlog'[h] = Append(backlog[h], e)
        BY <1>1, <2>3, <3>1 DEF Send
      <4>2. Range(backlog'[h]) = Range(backlog[h]) \cup {e}
        BY <1>1, <4>1, RangesAre
      <4> QED BY <1>6, <2>1, <2>3, <3>1, <4>2
    <3>2. CASE Home[r.block] # h
      BY <1>1, <2>1, <2>3, <3>2 DEF Send
    <3> QED BY <3>1, <3>2
  <2> QED BY <2>1, <2>2, <2>3
<1> HIDE DEF Done
<1>7. ASSUME UNCHANGED <<backlog, queue>> PROVE Done
  BY <1>2, <1>7
<1> QED BY <1>3, <1>4, <1>5, <1>6, <1>7, InboxMoves

-----------------------------------------------------------------------------
(* Where a large datum is, and where it was produced                       *)

Made(h, o) == \E b \in Blocks : o \in Outputs(b) /\ Home[b] = h

(* A datum announced in the redis of h, or uploaded from there, was posted *)
(* on h; one that h prefetches was posted elsewhere and has readers on h.  *)
Located(h, d) ==
  /\ d.kind = "redis" => Made(h, d.out) /\ HasReadersAt(h, d.out)
  /\ ForwardedFrom(d) => Made(h, d.out)
  /\ d.kind = "kafka" /\ ~d.fromLocal =>
       (\E g \in Hosts \ {h} : Made(g, d.out)) /\ BlocksAt(d.out, h) # {}
LocatedAt == [h \in Hosts |-> {d \in Data : Located(h, d)}]
Crosses(h, d) == d.kind # "redis" /\ ~ForwardedFrom(d) /\ Located(h, d)
LocatedInv ==
  /\ HeldIn(LocatedAt, running, parked, inputDatas, runs)
  /\ \A h \in Hosts : running[h] # <<>> => Located(h, running[h][1].data)
  /\ \A h \in Hosts : \A d \in Range(backlog[h]) \cup Range(queue[h]) : Located(h, d)
  /\ \A m \in dataNet : \A d \in Range(m.datas) : Crosses(m.to, d)
  /\ \A r \in runs : \A d \in Range(r.uploads) : ForwardedFrom(d) /\ Made(Home[r.block], d.out)

LEMMA InitLocated == Init => LocatedInv
<1> SUFFICES ASSUME Init PROVE LocatedInv
  OBVIOUS
<1>1. \A S, b : AllIn(S, b, EmptyFn)
  BY DEF AllIn, EmptyFn
<1>2. HeldIn(LocatedAt, running, parked, inputDatas, runs)
  BY <1>1 DEF Init, HeldIn
<1>3. Range(<<>>) = {}
  BY DEF Range
<1>4. \A h \in Hosts : running[h] = <<>> /\ backlog[h] = <<>> /\ queue[h] = <<>>
  BY DEF Init
<1>5. dataNet = {} /\ runs = {}
  BY DEF Init
<1> QED BY <1>2, <1>3, <1>4, <1>5 DEF LocatedInv

LEMMA InputsAreDirect ==
  ASSUME NEW q, NEW h, NEW d \in Range(InputsFor(q, h))
  PROVE  d.kind = "direct"
BY DEF InputsFor, Datum, Range

(* What a run posts is posted on its host.                                 *)
LEMMA PostIsMade ==
  ASSUME IInv, NEW r \in runs, r.posts # <<>>, NEW kind
  PROVE  /\ NextDatum(r, kind).out = Head(r.posts) /\ NextDatum(r, kind).kind = kind
         /\ NextDatum(r, kind).fromLocal = TRUE
         /\ Made(Home[r.block], Head(r.posts))
<1>1. IsRun(r)
  BY RunType DEF IInv
<1>2. Head(r.posts) \in Outputs(r.block) /\ r.block \in Blocks
  BY <1>1 DEF IsRun
<1> QED BY <1>2 DEF NextDatum, Datum, Made

(* Every message on the network was there, or carries the inputs of the    *)
(* user, or what the running greenlet of a worker sends on.                *)
LEMMA NetFrom ==
  ASSUME Inv, [Next]_vars, NEW m \in dataNet'
  PROVE  \/ m \in dataNet
         \/ \E q \in Requests : m.datas = InputsFor(q, m.to)
         \/ \E h \in Hosts : /\ ToRemote(h) /\ m.to = Home[Head(running[h][1].dests).block]
                             /\ m.datas = <<[running[h][1].data EXCEPT !.fromLocal = FALSE]>>
<1> DEFINE Done == \/ m \in dataNet
                   \/ \E q \in Requests : m.datas = InputsFor(q, m.to)
                   \/ \E h \in Hosts : /\ ToRemote(h) /\ m.to = Home[Head(running[h][1].dests).block]
                                       /\ m.datas = <<[running[h][1].data EXCEPT !.fromLocal = FALSE]>>
<1> SUFFICES Done
  OBVIOUS
<1>1. ASSUME dataNet' \subseteq dataNet PROVE Done
  BY <1>1
<1>2. ASSUME NEW q \in Requests, SendInputs(q) PROVE Done
  BY <1>2 DEF SendInputs
<1>3. ASSUME NEW h \in Hosts, ToRemote(h) PROVE Done
  <2>1. PICK d : d = [running[h][1].data EXCEPT !.fromLocal = FALSE]
    OBVIOUS
  <2>2. PICK b : b = Head(running[h][1].dests).block
    OBVIOUS
  <2>3. \/ m \in dataNet
        \/ m = [to |-> Home[b], sender |-> b, datas |-> <<d>>]
    BY <1>3, <2>1, <2>2 DEF ToRemote
  <2>4. m \in dataNet \/ (m.to = Home[b] /\ m.datas = <<d>>)
    BY <2>3
  <2>5. ASSUME m \notin dataNet PROVE m.to = Home[Head(running[h][1].dests).block] /\ m.datas = <<[running[h][1].data EXCEPT !.fromLocal = FALSE]>>
    BY <2>1, <2>2, <2>4, <2>5
  <2> QED BY <1>3, <2>5
<1> HIDE DEF Done
<1>4. ASSUME NEW q \in Requests, Run(q) \/ Answer(q) \/ PostUserData(q) PROVE Done
  BY <1>1, <1>4 DEF Run, Answer, PostUserData, netVars
<1>5. ASSUME NEW h \in Hosts, NEW q \in Requests, RequestInfo(h, q) PROVE Done
  BY <1>1, <1>5 DEF RequestInfo
<1>6. ASSUME NEW e \in dataNet, TransferData(e) PROVE Done
  BY <1>1, <1>6 DEF TransferData
<1>7. ASSUME NEW h \in Hosts, SocketServer(h) \/ DispatchFetched(h) \/ Dispatch(h) \/ ToUser(h) PROVE Done
  BY <1>1, <1>7 DEF SocketServer, DispatchFetched, Dispatch, ToUser, netVars
<1>8. ASSUME NEW h \in Hosts, FlowForeach(h) \/ FlowMerge(h) \/ FlowNormal(h) PROVE Done
  BY <1>1, <1>8 DEF FlowForeach, FlowMerge, FlowNormal, netVars
<1>9. ASSUME NEW h \in Hosts, NEW k, PrefetchData(h, k) \/ LosePrefetch(h, k) PROVE Done
  BY <1>1, <1>9 DEF PrefetchData, LosePrefetch, netVars
<1>10. ASSUME NEW h \in Hosts, NEW g, ResumeMerge(h, g) \/ ResumeTrigger(h, g) PROVE Done
  BY <1>1, <1>10 DEF ResumeMerge, ResumeTrigger, netVars
<1>11. ASSUME NEW r \in runs, RunStep(r) PROVE Done
  BY <1>1, <1>11, RunMails DEF RunStep
<1>12. CASE LosePost
  BY <1>1, <1>12 DEF LosePost
<1>13. CASE UNCHANGED vars
  BY <1>1, <1>13 DEF vars, netVars
<1>14. CASE Step
  BY <1>2, <1>3, <1>4, <1>5, <1>6, <1>7, <1>8, <1>9, <1>10, <1>11, <1>14 DEF Step, RunStep
<1>15. CASE Fault
  BY <1>9, <1>11, <1>12, <1>15 DEF Fault, RunStep
<1> QED BY <1>13, <1>14, <1>15 DEF Next

(* What a worker sends on was posted there, and goes to a reader.          *)
LEMMA SentOnCrosses ==
  ASSUME IInv, LocatedInv, NEW h \in Hosts, ToRemote(h)
  PROVE  Crosses(Home[Head(running[h][1].dests).block], [running[h][1].data EXCEPT !.fromLocal = FALSE])
<1> DEFINE g == running[h][1]
           x == Head(g.dests)
           k == Home[x.block]
           d == [g.data EXCEPT !.fromLocal = FALSE]
<1>1. running[h] # <<>> /\ x.block # User /\ k # h
  BY DEF ToRemote
<1>2. /\ g.data \in Data /\ g.data.out \in Outs /\ x \in Range(Dest[g.data.out])
      /\ WorkFor(h, g.data, x) /\ x.block \in Blocks
  BY <1>1, RunningIs DEF IInv, Inv
<1>3. g.data.fromLocal /\ g.data.kind # "redis"
  BY <1>1, <1>2 DEF WorkFor
<1>4. d.out = g.data.out /\ d.kind = g.data.kind /\ d.fromLocal = FALSE
  BY <1>2 DEF Data
<1>5. Located(h, g.data)
  BY <1>1 DEF LocatedInv
<1>6. d.kind = "kafka" => Made(h, d.out)
  BY <1>3, <1>4, <1>5 DEF Located, ForwardedFrom
<1>7. x.block \in BlocksAt(d.out, k)
  BY <1>2, <1>4, BlockAt
<1> HIDE DEF d
<1> QED BY <1>1, <1>3, <1>4, <1>6, <1>7 DEF Crosses, Located, ForwardedFrom

LEMMA NextLocated ==
  ASSUME IInv, LocatedInv, [Next]_vars PROVE LocatedInv'
<1>1. Inv
  BY DEF IInv
<1>2. ASSUME NEW h \in Hosts, Dispatch(h) PROVE Head(queue[h]) \in Data /\ Located(h, Head(queue[h]))
  <2>1. queue[h] # <<>> /\ Head(queue[h]).kind # "fetched"
    BY <1>2 DEF Dispatch
  <2>2. Head(queue[h]) \in Range(queue[h])
    BY <1>1, <2>1, InboxTypes, RangesAre
  <2>3. Head(queue[h]) \in Data
    BY <1>1, <2>1, InboxTail DEF Inv, InboxInv
  <2> QED BY <2>2, <2>3 DEF LocatedInv
<1>3. HeldIn(LocatedAt, running, parked, inputDatas, runs)'
  <2>1. HeldIn(LocatedAt, running, parked, inputDatas, runs)
    BY DEF LocatedInv
  <2>2. \A h \in Hosts : Dispatch(h) => Head(queue[h]) \in LocatedAt[h]
    BY <1>2 DEF LocatedAt
  <2>3. PICK G : G = LocatedAt
    OBVIOUS
  <2>4. HeldIn(G, running', parked', inputDatas', runs')
    BY <2>1, <2>2, <2>3, NextHeld
  <2>5. LocatedAt' = LocatedAt
    BY DEF LocatedAt, Located
  <2> QED BY <2>3, <2>4, <2>5
<1>4. ASSUME NEW h \in Hosts, running'[h] # <<>> PROVE Located(h, running'[h][1].data)
  <2>1. CASE \E g \in parked[h] : running'[h][1].data = g.data
    BY <2>1 DEF LocatedInv, HeldIn, WaitsIn, LocatedAt
  <2> QED BY <1>1, <1>2, <1>4, <2>1, RunningIsFrom DEF LocatedInv
<1>5. ASSUME NEW r \in runs, RunStep(r), NEW d, Send(Home[r.block], d), NEW h \in Hosts, h = Home[r.block],
             d \in Range(backlog'[h])
      PROVE  Located(h, d)
  <2>1. \/ UNCHANGED backlog
        \/ \E e : /\ Send(h, e)
                  /\ \/ e.kind \in {"fetched", "direct"} \/ e \in Range(r.uploads)
                     \/ /\ Post(r) /\ e = NextDatum(r, "redis")
                        /\ Head(r.posts) \in Big /\ HasReadersAt(h, Head(r.posts))
    BY <1>1, <1>5, RunMails DEF RunStep
  <2>2. CASE UNCHANGED backlog
    BY <1>5, <2>2 DEF LocatedInv
  <2>3. ASSUME NEW e, Send(h, e), \/ e.kind \in {"fetched", "direct"} \/ e \in Range(r.uploads)
                                  \/ /\ Post(r) /\ e = NextDatum(r, "redis")
                                     /\ Head(r.posts) \in Big /\ HasReadersAt(h, Head(r.posts))
        PROVE  Located(h, d)
    <3>1. backlog'[h] = Append(backlog[h], e)
      BY <1>1, <2>3, InboxTypes DEF Send
    <3>2. d \in Range(backlog[h]) \/ d = e
      BY <1>1, <1>5, <3>1, InboxTypes, RangesAre
    <3>3. Located(h, e)
      <4>1. CASE e.kind \in {"fetched", "direct"}
        BY <4>1 DEF Located, ForwardedFrom
      <4>2. CASE e \in Range(r.uploads)
        BY <1>5, <4>2 DEF LocatedInv, Located, ForwardedFrom
      <4>3. CASE Post(r) /\ e = NextDatum(r, "redis") /\ HasReadersAt(h, Head(r.posts))
        <5>1. r.posts # <<>>
          BY <4>3 DEF Post
        <5> QED BY <1>5, <4>3, <5>1, PostIsMade DEF Located, ForwardedFrom
      <4> QED BY <2>3, <4>1, <4>2, <4>3
    <3> QED BY <3>2, <3>3 DEF LocatedInv
  <2> QED BY <2>1, <2>2, <2>3
<1>6. ASSUME NEW h \in Hosts, NEW d \in Range(backlog'[h]) \cup Range(queue'[h]) PROVE Located(h, d)
  <2>1. CASE d \in Range(backlog[h]) \cup Range(queue[h])
    BY <2>1 DEF LocatedInv
  <2>2. CASE \E m \in dataNet : m.to = h /\ d \in Range(m.datas)
    BY <2>2 DEF LocatedInv, Crosses
  <2>3. CASE \E r \in runs : RunStep(r) /\ Home[r.block] = h /\ d \in Range(backlog'[h]) /\ Send(h, d)
    BY <1>5, <2>3
  <2> QED BY <1>1, <2>1, <2>2, <2>3, InboxFrom
<1>7. ASSUME NEW m \in dataNet', NEW d \in Range(m.datas) PROVE Crosses(m.to, d)
  <2>1. CASE m \in dataNet
    BY <1>7, <2>1 DEF LocatedInv
  <2>2. ASSUME NEW q \in Requests, m.datas = InputsFor(q, m.to) PROVE Crosses(m.to, d)
    <3>1. d.kind = "direct"
      BY <1>7, <2>2, InputsAreDirect
    <3> QED BY <3>1 DEF Crosses, Located, ForwardedFrom
  <2>3. ASSUME NEW h \in Hosts, ToRemote(h), m.to = Home[Head(running[h][1].dests).block],
               m.datas = <<[running[h][1].data EXCEPT !.fromLocal = FALSE]>>
        PROVE  Crosses(m.to, d)
    <3>1. d = [running[h][1].data EXCEPT !.fromLocal = FALSE]
      BY <1>7, <2>3 DEF Range
    <3> QED BY <2>3, <3>1, SentOnCrosses
  <2> QED BY <1>1, <2>1, <2>2, <2>3, NetFrom
<1>8. ASSUME NEW r \in runs', NEW d \in Range(r.uploads) PROVE ForwardedFrom(d) /\ Made(Home[r.block], d.out)
  <2>1. CASE UNCHANGED runs
    BY <1>8, <2>1 DEF LocatedInv
  <2>2. ASSUME NEW q, NEW b, NEW ins, Allocate(q, b, ins) PROVE ForwardedFrom(d) /\ Made(Home[r.block], d.out)
    <3>1. r \in runs \/ r.uploads = <<>>
      BY <2>2, AllocatesNew DEF NewRun
    <3>2. Range(<<>>) = {}
      BY DEF Range
    <3> QED BY <1>8, <3>1, <3>2 DEF LocatedInv
  <2>3. ASSUME NEW s \in runs, RunStep(s) PROVE ForwardedFrom(d) /\ Made(Home[r.block], d.out)
    <3>1. PICK s2 : /\ Become(s, s2) /\ s2.block = s.block
                    /\ \A e \in Range(s2.uploads) : e \in Range(s.uploads) \/ (Post(s) /\ e = NextDatum(s, "kafka"))
      BY <1>1, <2>3, RunMails DEF RunStep
    <3>2. ASSUME Post(s), d = NextDatum(s, "kafka") PROVE ForwardedFrom(d) /\ Made(Home[s.block], d.out)
      <4>1. s.posts # <<>>
        BY <3>2 DEF Post
      <4> QED BY <3>2, <4>1, PostIsMade DEF ForwardedFrom
    <3> QED BY <1>8, <3>1, <3>2 DEF Become, LocatedInv
  <2> QED BY <1>1, <2>1, <2>2, <2>3, RunsStep DEF RunStep
<1>9. /\ \A h \in Hosts : running'[h] # <<>> => Located(h, running'[h][1].data)
      /\ \A h \in Hosts : \A d \in Range(backlog'[h]) \cup Range(queue'[h]) : Located(h, d)
      /\ \A m \in dataNet' : \A d \in Range(m.datas) : Crosses(m.to, d)
      /\ \A r \in runs' : \A d \in Range(r.uploads) : ForwardedFrom(d) /\ Made(Home[r.block], d.out)
  BY <1>4, <1>6, <1>7, <1>8
<1> QED BY <1>3, <1>9 DEF LocatedInv

-----------------------------------------------------------------------------
(* A value is put in redis, and announced, once                            *)

IsRedis(d) == d.kind = "redis"
RedisKeys(s) == {Key(s[n]) : n \in {n \in 1..Len(s) : IsRedis(s[n])}}
RedisOnce(s) == \A m, n \in 1..Len(s) : IsRedis(s[m]) /\ IsRedis(s[n]) /\ Key(s[m]) = Key(s[n]) => m = n

LEMMA RedisAppend ==
  ASSUME NEW s, s \in Seq(Range(s)), NEW d
  PROVE  /\ RedisKeys(Append(s, d)) = RedisKeys(s) \cup {Key(e) : e \in {e \in {d} : IsRedis(e)}}
         /\ RedisOnce(s) /\ (IsRedis(d) => Key(d) \notin RedisKeys(s)) => RedisOnce(Append(s, d))
<1> DEFINE a == Append(s, d)
           N == 1..Len(s)
<1>1. /\ Len(a) = Len(s) + 1 /\ a[Len(s) + 1] = d /\ \A i \in N : a[i] = s[i]
  BY AppendIs
<1>2. Len(s) \in Nat
  OBVIOUS
<1> HIDE DEF a
<1>3. 1..Len(a) = N \cup {Len(s) + 1} /\ Len(s) + 1 \notin N
  BY <1>1, <1>2
<1> HIDE DEF N
<1>4. RedisKeys(s) = {Key(s[n]) : n \in {n \in N : IsRedis(s[n])}}
  BY DEF RedisKeys, N
<1>5. RedisKeys(a) = RedisKeys(s) \cup {Key(e) : e \in {e \in {d} : IsRedis(e)}}
  <2>1. RedisKeys(a) = {Key(a[n]) : n \in {n \in N \cup {Len(s) + 1} : IsRedis(a[n])}}
    BY <1>3 DEF RedisKeys
  <2> QED BY <1>1, <1>4, <2>1
<1>6. ASSUME RedisOnce(s), IsRedis(d) => Key(d) \notin RedisKeys(s) PROVE RedisOnce(a)
  <2> SUFFICES ASSUME NEW m \in N \cup {Len(s) + 1}, NEW n \in N \cup {Len(s) + 1},
                      IsRedis(a[m]), IsRedis(a[n]), Key(a[m]) = Key(a[n])
               PROVE  m = n
    BY <1>3 DEF RedisOnce
  <2>1. CASE m \in N /\ n \in N
    BY <1>1, <1>6, <2>1 DEF RedisOnce, N
  <2>2. CASE m \in N /\ n = Len(s) + 1
    BY <1>1, <1>4, <1>6, <2>2
  <2>3. CASE n \in N /\ m = Len(s) + 1
    BY <1>1, <1>4, <1>6, <2>3
  <2> QED BY <2>1, <2>2, <2>3
<1> QED BY <1>5, <1>6 DEF a

LEMMA RedisTail ==
  ASSUME NEW s, s \in Seq(Range(s)), s # <<>>
  PROVE  /\ RedisKeys(Tail(s)) \subseteq RedisKeys(s)
         /\ IsRedis(Head(s)) => Key(Head(s)) \in RedisKeys(s)
         /\ RedisOnce(s) => /\ RedisOnce(Tail(s))
                            /\ IsRedis(Head(s)) => Key(Head(s)) \notin RedisKeys(Tail(s))
<1> DEFINE a == Tail(s)
<1>1. /\ Len(a) = Len(s) - 1 /\ Len(s) >= 1 /\ Head(s) = s[1]
      /\ \A i \in 1..Len(a) : a[i] = s[i + 1]
  BY TailIs
<1>2. Len(s) \in Nat
  OBVIOUS
<1> HIDE DEF a
<1>3. \A i \in 1..Len(a) : i + 1 \in 1..Len(s) /\ i + 1 # 1
  BY <1>1, <1>2
<1>4. 1 \in 1..Len(s)
  BY <1>1, <1>2
<1>5. RedisKeys(a) \subseteq RedisKeys(s)
  BY <1>1, <1>3 DEF RedisKeys
<1>6. IsRedis(Head(s)) => Key(Head(s)) \in RedisKeys(s)
  BY <1>1, <1>4 DEF RedisKeys
<1>7. ASSUME RedisOnce(s) PROVE RedisOnce(a)
  <2> SUFFICES ASSUME NEW m \in 1..Len(a), NEW n \in 1..Len(a),
                      IsRedis(a[m]), IsRedis(a[n]), Key(a[m]) = Key(a[n])
               PROVE  m = n
    BY DEF RedisOnce
  <2>1. m + 1 = n + 1
    BY <1>1, <1>3, <1>7 DEF RedisOnce
  <2> QED BY <2>1
<1>8. ASSUME RedisOnce(s), IsRedis(Head(s)), NEW n \in 1..Len(a), IsRedis(a[n]), Key(a[n]) = Key(Head(s)) PROVE FALSE
  BY <1>1, <1>3, <1>4, <1>8 DEF RedisOnce
<1> QED BY <1>5, <1>6, <1>7, <1>8 DEF a, RedisKeys

LEMMA RedisConcat ==
  ASSUME NEW s, s \in Seq(Range(s)), NEW t, t \in Seq(Range(t)), \A d \in Range(t) : ~IsRedis(d)
  PROVE  /\ RedisKeys(s \o t) \subseteq RedisKeys(s)
         /\ RedisOnce(s) => RedisOnce(s \o t)
<1> DEFINE a == s \o t
<1>1. /\ Len(a) = Len(s) + Len(t)
      /\ \A i \in 1..Len(s) : a[i] = s[i]
      /\ \A i \in 1..Len(t) : a[Len(s) + i] = t[i]
  BY ConcatIs
<1>2. Len(s) \in Nat /\ Len(t) \in Nat /\ DOMAIN t = 1..Len(t)
  OBVIOUS
<1> HIDE DEF a
<1>3. ASSUME NEW n \in 1..Len(a), IsRedis(a[n]) PROVE n \in 1..Len(s) /\ a[n] = s[n]
  <2>1. CASE n \in 1..Len(s)
    BY <1>1, <2>1
  <2>2. CASE n \notin 1..Len(s)
    <3>1. n - Len(s) \in 1..Len(t) /\ n = Len(s) + (n - Len(s))
      BY <1>1, <1>2, <2>2
    <3>2. a[n] \in Range(t)
      BY <1>1, <1>2, <3>1 DEF Range
    <3> QED BY <1>3, <3>2
  <2> QED BY <2>1, <2>2
<1>4. RedisKeys(a) \subseteq RedisKeys(s)
  BY <1>3 DEF RedisKeys
<1>5. RedisOnce(s) => RedisOnce(a)
  BY <1>3 DEF RedisOnce
<1> QED BY <1>4, <1>5 DEF a

RedisInv ==
  /\ \A h \in Hosts : /\ RedisOnce(backlog[h]) /\ RedisOnce(queue[h])
                      /\ RedisKeys(backlog[h]) \cap RedisKeys(queue[h]) = {}
                      /\ RedisKeys(backlog[h]) \cup RedisKeys(queue[h]) \subseteq Sent \ DOMAIN deps[h]
  /\ \A h \in Hosts : DOMAIN deps[h] \subseteq Sent

LEMMA InitRedis == Init => RedisInv
BY DEF Init, RedisInv, RedisOnce, RedisKeys, EmptyFn

LEMMA SentGrows == ASSUME IInv, [Next]_vars PROVE Sent \subseteq Sent'
BY SentStep

(* The key a host registers next is not known there.                       *)
LEMMA NewKey ==
  ASSUME IInv, NEW h \in Hosts, queue[h] # <<>>,
         NEW d, d = Head(queue[h]), d.kind = "redis" \/ (d.kind = "kafka" /\ ~d.fromLocal),
         BlocksAt(d.out, h) # {}
  PROVE  Key(d) \notin DOMAIN deps[h] /\ Key(d) \in Sent
<1>1. Inv /\ KeysInv /\ queue[h] \in Seq(Range(queue[h]))
  BY InboxTypes DEF IInv, DeliveryInv, AheadInv
<1>2. d \in Data
  BY <1>1, InboxTail DEF Inv, InboxInv
<1>3. PICK b : b \in Blocks /\ Home[b] = h /\ \E x \in Range(Dest[d.out]) : x.block = b
  BY <1>2, BlockAt DEF Data
<1>4. PICK x \in Range(Dest[d.out]) : x.block = b
  BY <1>3
<1>5. x.block # User
  BY <1>3, <1>4, WorkflowAssumption
<1> DEFINE t == <<Key(d), x>>
<1>6. t \in Due(h, d)
  BY <1>2, <1>3, <1>4, <1>5, RegisteredDue
<1>7. t \in DueOf(h, queue[h])
  BY <1>1, <1>6, DueTail
<1>8. <<"queue", h>> \in Places /\ t \in Held(<<"queue", h>>)
  BY <1>7, HeldIs, PlacesAre DEF HeldFacts, PlaceFacts
<1>9. ~AtHome(<<"queue", h>>, t)
  BY DEF AtHome
<1>10. ~Registers(t) /\ t[1] \in Sent
  BY <1>8, <1>9 DEF IInv, DeliveryInv, AheadInv
<1> QED BY <1>3, <1>4, <1>10 DEF Registers

(* A key is one of redis or of a file, for one block posts an output.      *)
LEMMA OneMaker ==
  ASSUME NEW g \in Hosts, NEW h \in Hosts, NEW o, Made(g, o), Made(h, o) PROVE g = h
BY PostingAssumption DEF Made

LEMMA RedisSame ==
  ASSUME RedisInv, Sent \subseteq Sent', \A h \in Hosts : DOMAIN deps'[h] = DOMAIN deps[h],
         NEW k \in Hosts,
         \A h \in Hosts \ {k} : backlog'[h] = backlog[h] /\ queue'[h] = queue[h],
         RedisOnce(backlog'[k]) /\ RedisOnce(queue'[k]),
         RedisKeys(backlog'[k]) \cap RedisKeys(queue'[k]) = {},
         RedisKeys(backlog'[k]) \cup RedisKeys(queue'[k]) \subseteq Sent' \ DOMAIN deps[k]
  PROVE  RedisInv'
<1> SUFFICES ASSUME NEW h \in Hosts
             PROVE  /\ RedisOnce(backlog'[h]) /\ RedisOnce(queue'[h])
                    /\ RedisKeys(backlog'[h]) \cap RedisKeys(queue'[h]) = {}
                    /\ RedisKeys(backlog'[h]) \cup RedisKeys(queue'[h]) \subseteq Sent' \ DOMAIN deps'[h]
                    /\ DOMAIN deps'[h] \subseteq Sent'
  BY DEF RedisInv, RedisOnce, RedisKeys, IsRedis, Key
<1>1. CASE h = k
  BY <1>1 DEF RedisInv
<1>2. CASE h # k
  BY <1>2 DEF RedisInv
<1> QED BY <1>1, <1>2

LEMMA DispatchRedis ==
  ASSUME IInv, LocatedInv, RedisInv, NEW h \in Hosts, Dispatch(h), UNCHANGED runs
  PROVE  RedisInv'
<1>1. Inv /\ KeysInv /\ queue[h] \in Seq(Range(queue[h])) /\ queue[h] # <<>>
  BY InboxTypes DEF IInv, DeliveryInv, AheadInv, Dispatch
<1>2. PICK d : d = Head(queue[h])
  OBVIOUS
<1>3. d \in Data /\ Located(h, d)
  BY <1>1, <1>2, RangesAre, InboxTail DEF Dispatch, Inv, InboxInv, LocatedInv
<1>4. PICK k, v : /\ k = Key(d)
                  /\ deps' = IF d.kind = "redis" \/ (d.kind = "kafka" /\ ~d.fromLocal)
                             THEN [deps EXCEPT ![h] = With(@, k, v)] ELSE deps
  BY <1>2 DEF Dispatch
<1>5. UNCHANGED backlog /\ queue' = [queue EXCEPT ![h] = Tail(@)]
  BY DEF Dispatch
<1>6. Sent' = Sent
  BY DEF Sent, ProducedBy, DatumPosted
<1>7. /\ queue'[h] = Tail(queue[h]) /\ \A g \in Hosts \ {h} : queue'[g] = queue[g]
  BY <1>1, <1>5, InboxTypes DEF Inv, InboxInv
<1>8. /\ RedisKeys(queue'[h]) \subseteq RedisKeys(queue[h])
      /\ IsRedis(d) => k \in RedisKeys(queue[h])
      /\ RedisOnce(queue'[h]) /\ (IsRedis(d) => k \notin RedisKeys(queue'[h]))
  BY <1>1, <1>2, <1>4, <1>7, RedisTail DEF RedisInv
<1>9. ASSUME d.kind = "redis" \/ (d.kind = "kafka" /\ ~d.fromLocal)
      PROVE  /\ DOMAIN deps'[h] = DOMAIN deps[h] \cup {k} /\ \A g \in Hosts \ {h} : deps'[g] = deps[g]
             /\ k \in Sent /\ k \notin RedisKeys(backlog[h]) \cup RedisKeys(queue'[h])
  <2>1. /\ DOMAIN With(deps[h], k, v) = DOMAIN deps[h] \cup {k}
    BY WithIs
  <2>2. deps'[h] = With(deps[h], k, v) /\ \A g \in Hosts \ {h} : deps'[g] = deps[g]
    BY <1>1, <1>4, <1>9 DEF KeysInv
  <2>3. CASE d.kind = "redis"
    <3>1. k \in Sent /\ k \notin RedisKeys(backlog[h]) \cup RedisKeys(queue'[h])
      BY <1>8, <2>3 DEF RedisInv, IsRedis
    <3> QED BY <2>1, <2>2, <3>1
  <2>4. CASE d.kind = "kafka" /\ ~d.fromLocal
    <3>1. PICK g \in Hosts \ {h} : Made(g, d.out)
      BY <1>3, <2>4 DEF Located
    <3>2. k \in Sent
      BY <1>1, <1>2, <1>3, <1>4, <2>4, NewKey DEF Located
    <3>3. ASSUME NEW e \in Range(backlog[h]) \cup Range(queue[h]), IsRedis(e), Key(e) = k PROVE FALSE
      <4>1. Made(h, e.out) /\ e.out = d.out
        BY <1>4, <3>3 DEF LocatedInv, Located, IsRedis, Key
      <4> QED BY <3>1, <4>1, OneMaker
    <3>4. backlog[h] \in Seq(Range(backlog[h]))
      BY <1>1, InboxTypes
    <3>5. k \notin RedisKeys(backlog[h]) \cup RedisKeys(queue[h])
      BY <1>1, <3>3, <3>4 DEF RedisKeys, Range
    <3> QED BY <1>8, <2>1, <2>2, <3>2, <3>5
  <2> QED BY <1>9, <2>3, <2>4
<1>10. ASSUME NEW g \in Hosts
       PROVE  /\ RedisOnce(backlog[g]) /\ RedisOnce(queue'[g])
              /\ RedisKeys(backlog[g]) \cap RedisKeys(queue'[g]) = {}
              /\ RedisKeys(backlog[g]) \cup RedisKeys(queue'[g]) \subseteq Sent \ DOMAIN deps'[g]
              /\ DOMAIN deps'[g] \subseteq Sent
  <2>1. CASE g # h
    <3>1. queue'[g] = queue[g] /\ deps'[g] = deps[g]
      BY <1>4, <1>7, <1>9, <2>1
    <3> QED BY <3>1 DEF RedisInv
  <2>2. CASE g = h /\ (d.kind = "redis" \/ (d.kind = "kafka" /\ ~d.fromLocal))
    BY <1>8, <1>9, <2>2 DEF RedisInv
  <2>3. CASE g = h /\ ~(d.kind = "redis" \/ (d.kind = "kafka" /\ ~d.fromLocal))
    <3>1. deps'[g] = deps[g]
      BY <1>4, <2>3
    <3> QED BY <1>8, <2>3, <3>1 DEF RedisInv
  <2> QED BY <2>1, <2>2, <2>3
<1> SUFFICES ASSUME NEW g \in Hosts
             PROVE  /\ RedisOnce(backlog'[g]) /\ RedisOnce(queue'[g])
                    /\ RedisKeys(backlog'[g]) \cap RedisKeys(queue'[g]) = {}
                    /\ RedisKeys(backlog'[g]) \cup RedisKeys(queue'[g]) \subseteq Sent' \ DOMAIN deps'[g]
                    /\ DOMAIN deps'[g] \subseteq Sent'
  BY DEF RedisInv, RedisOnce, RedisKeys, IsRedis, Key
<1> QED BY <1>5, <1>6, <1>10

(* A datum that is posted is sent.                                         *)
LEMMA PostSends ==
  ASSUME IInv, NEW r \in runs, Post(r), NEW kind
  PROVE  Key(NextDatum(r, kind)) \in Sent'
<1>1. Inv /\ IsRun(r) /\ PostsOnce(r) /\ r.posts # <<>>
  BY RunType DEF IInv, HistoryInv, PostInv, Post
<1> DEFINE w == [r EXCEPT !.posts = Tail(@), !.posted = Append(@, Head(r.posts))]
           v == [w EXCEPT !.uploads = Append(@, NextDatum(r, "kafka"))]
<1>2. Become(r, w) \/ Become(r, v)
  BY DEF Post
<1>3. /\ RunId(w) = RunId(r) /\ w.state = r.state
      /\ w.posts = Tail(r.posts) /\ w.posted = Append(r.posted, Head(r.posts))
      /\ RunId(v) = RunId(r) /\ v.state = r.state
      /\ v.posts = Tail(r.posts) /\ v.posted = Append(r.posted, Head(r.posts))
  BY <1>1 DEF IsRun, RunId
<1> HIDE DEF w, v
<1>4. /\ ProducedBy(w) = ProducedBy(r) \cup {Key(NextDatum(r, kind))}
      /\ ProducedBy(v) = ProducedBy(r) \cup {Key(NextDatum(r, kind))}
  BY <1>1, <1>3, AfterPost
<1>5. Sent' = UNION {ProducedBy(e) : e \in runs'}
  BY DEF Sent, ProducedBy, DatumPosted
<1> HIDE DEF ProducedBy
<1> QED BY <1>2, <1>4, <1>5 DEF Become

LEMMA RunStepRedis ==
  ASSUME IInv, LocatedInv, RedisInv, NEW r \in runs, RunStep(r), Sent \subseteq Sent',
         \/ Sent' = Sent
         \/ \E s \in runs : Post(s) /\ \A kind : Sent' = Sent \cup {Key(NextDatum(s, kind))}
  PROVE  RedisInv'
<1> DEFINE h == Home[r.block]
<1>1. Inv /\ h \in Hosts
  BY RunType DEF IInv
<1>2. /\ UNCHANGED <<queue, deps>>
      /\ \/ UNCHANGED backlog
         \/ \E d : /\ Send(h, d)
                   /\ \/ d.kind \in {"fetched", "direct"} \/ d \in Range(r.uploads)
                      \/ /\ Post(r) /\ d = NextDatum(r, "redis")
                         /\ Head(r.posts) \in Big /\ HasReadersAt(h, Head(r.posts))
  BY <1>1, RunMails DEF RunStep
<1>3. CASE UNCHANGED backlog
  BY <1>1, <1>2, <1>3, RedisSame DEF RedisInv
<1>4. ASSUME NEW d, Send(h, d), \/ d.kind \in {"fetched", "direct"} \/ d \in Range(r.uploads)
                                \/ Post(r) /\ d = NextDatum(r, "redis")
      PROVE  RedisInv'
  <2>1. backlog'[h] = Append(backlog[h], d) /\ \A g \in Hosts \ {h} : backlog'[g] = backlog[g]
    BY <1>1, <1>4, InboxTypes DEF Send
  <2>2. backlog[h] \in Seq(Range(backlog[h]))
    BY <1>1, InboxTypes
  <2>3. IsRedis(d) => Key(d) \notin Sent /\ Key(d) \in Sent'
    <3>1. CASE d.kind \in {"fetched", "direct"}
      BY <3>1 DEF IsRedis
    <3>2. CASE d \in Range(r.uploads)
      BY <3>2 DEF IsRedis, LocatedInv, ForwardedFrom
    <3>3. CASE Post(r) /\ d = NextDatum(r, "redis")
      <4>1. r.posts # <<>>
        BY <3>3 DEF Post
      <4>2. Key(d) \notin Sent
        BY <3>3, <4>1, PostIsNew
      <4>3. Key(d) \in Sent'
        BY <1>1, <3>3, PostSends
      <4> QED BY <4>2, <4>3
    <3> QED BY <1>4, <3>1, <3>2, <3>3
  <2>4. RedisKeys(backlog'[h]) = RedisKeys(backlog[h]) \cup {Key(e) : e \in {e \in {d} : IsRedis(e)}}
    BY <2>1, <2>2, RedisAppend
  <2>5. RedisOnce(backlog'[h])
    BY <2>1, <2>2, <2>3, RedisAppend, <1>1 DEF RedisInv
  <2>6. RedisKeys(backlog'[h]) \cap RedisKeys(queue[h]) = {}
    BY <1>1, <2>3, <2>4 DEF RedisInv
  <2>7. RedisKeys(backlog'[h]) \cup RedisKeys(queue[h]) \subseteq Sent' \ DOMAIN deps[h]
    BY <1>1, <2>3, <2>4 DEF RedisInv
  <2>8. RedisOnce(queue'[h]) /\ RedisKeys(queue'[h]) = RedisKeys(queue[h])
    BY <1>1, <1>2 DEF RedisInv
  <2> HIDE DEF h
  <2> QED BY <1>1, <1>2, <2>1, <2>5, <2>6, <2>7, <2>8, RedisSame
<1> QED BY <1>2, <1>3, <1>4

LEMMA NextRedis ==
  ASSUME IInv, LocatedInv, RedisInv, [Next]_vars PROVE RedisInv'
<1>1. Inv /\ KeysInv /\ Sent \subseteq Sent'
  BY SentGrows DEF IInv, DeliveryInv, AheadInv
<1>2. \A h \in Hosts : backlog[h] \in Seq(Range(backlog[h])) /\ queue[h] \in Seq(Range(queue[h]))
  BY <1>1, InboxTypes
<1>3. backlog = [h \in Hosts |-> backlog[h]] /\ queue = [h \in Hosts |-> queue[h]]
  BY <1>1 DEF Inv, InboxInv
<1>4. CASE UNCHANGED <<backlog, queue, deps>>
  BY <1>1, <1>4 DEF RedisInv, RedisOnce, RedisKeys, IsRedis, Key
<1>5. ASSUME NEW m \in dataNet, queue' = [queue EXCEPT ![m.to] = @ \o m.datas], UNCHANGED <<backlog, deps, runs>>
      PROVE  RedisInv'
  <2>1. m.to \in Hosts /\ m.datas \in Seq(Range(m.datas)) /\ \A d \in Range(m.datas) : ~IsRedis(d)
    BY <1>1, InRange DEF Inv, NetInv, IsMessage, LocatedInv, Crosses, IsRedis
  <2>2. queue'[m.to] = queue[m.to] \o m.datas /\ \A h \in Hosts \ {m.to} : queue'[h] = queue[h]
    BY <1>3, <1>5, <2>1
  <2>3. RedisKeys(queue'[m.to]) \subseteq RedisKeys(queue[m.to]) /\ RedisOnce(queue'[m.to])
    BY <1>2, <2>1, <2>2, RedisConcat DEF RedisInv
  <2>4. RedisKeys(backlog'[m.to]) = RedisKeys(backlog[m.to]) /\ RedisOnce(backlog'[m.to])
    BY <1>5, <2>1 DEF RedisInv
  <2> QED BY <1>1, <1>5, <2>1, <2>2, <2>3, <2>4, RedisSame DEF RedisInv
<1>6. ASSUME NEW h \in Hosts, backlog[h] # <<>>, backlog' = [backlog EXCEPT ![h] = Tail(@)],
             queue' = [queue EXCEPT ![h] = Append(@, Head(backlog[h]))], UNCHANGED <<deps, runs>>
      PROVE  RedisInv'
  <2>1. PICK d : d = Head(backlog[h])
    OBVIOUS
  <2>2. /\ backlog'[h] = Tail(backlog[h]) /\ queue'[h] = Append(queue[h], d)
        /\ \A g \in Hosts \ {h} : backlog'[g] = backlog[g] /\ queue'[g] = queue[g]
    BY <1>3, <1>6, <2>1
  <2>3. /\ RedisKeys(backlog'[h]) \subseteq RedisKeys(backlog[h]) /\ RedisOnce(backlog'[h])
        /\ IsRedis(d) => Key(d) \in RedisKeys(backlog[h]) /\ Key(d) \notin RedisKeys(backlog'[h])
    BY <1>2, <1>6, <2>1, <2>2, RedisTail DEF RedisInv
  <2>4. /\ RedisKeys(queue'[h]) = RedisKeys(queue[h]) \cup {Key(e) : e \in {e \in {d} : IsRedis(e)}}
        /\ RedisOnce(queue'[h])
    <3>1. RedisKeys(queue'[h]) = RedisKeys(queue[h]) \cup {Key(e) : e \in {e \in {d} : IsRedis(e)}}
      BY <1>2, <2>2, RedisAppend
    <3>2. RedisOnce(queue[h]) /\ (IsRedis(d) => Key(d) \notin RedisKeys(queue[h]))
      BY <2>3 DEF RedisInv
    <3>3. RedisOnce(queue'[h])
      BY <1>2, <2>2, <3>2, RedisAppend
    <3> QED BY <3>1, <3>3
  <2>5. RedisKeys(backlog'[h]) \cap RedisKeys(queue'[h]) = {}
    BY <2>3, <2>4 DEF RedisInv
  <2>6. RedisKeys(backlog'[h]) \cup RedisKeys(queue'[h]) \subseteq Sent' \ DOMAIN deps[h]
    BY <1>1, <2>3, <2>4 DEF RedisInv
  <2> QED BY <1>1, <1>6, <2>2, <2>3, <2>4, <2>5, <2>6, RedisSame
<1>7. ASSUME NEW h \in Hosts, DispatchFetched(h) PROVE RedisInv'
  <2>1. /\ queue[h] # <<>> /\ queue' = [queue EXCEPT ![h] = Tail(@)] /\ UNCHANGED backlog
        /\ \A g \in Hosts : DOMAIN deps'[g] = DOMAIN deps[g]
    BY <1>1, <1>7 DEF DispatchFetched, KeysInv
  <2>2. queue'[h] = Tail(queue[h]) /\ \A g \in Hosts \ {h} : queue'[g] = queue[g]
    BY <1>3, <2>1
  <2>3. RedisKeys(queue'[h]) \subseteq RedisKeys(queue[h]) /\ RedisOnce(queue'[h])
    BY <1>2, <2>1, <2>2, RedisTail DEF RedisInv
  <2>4. RedisKeys(backlog'[h]) = RedisKeys(backlog[h]) /\ RedisOnce(backlog'[h])
    BY <2>1 DEF RedisInv
  <2> QED BY <1>1, <2>1, <2>2, <2>3, <2>4, RedisSame DEF RedisInv
<1>8. ASSUME NEW h \in Hosts, Dispatch(h) PROVE RedisInv'
  <2>1. UNCHANGED runs
    BY <1>8 DEF Dispatch
  <2> QED BY <1>8, <2>1, DispatchRedis
<1>9. ASSUME NEW r \in runs, RunStep(r) PROVE RedisInv'
  BY <1>1, <1>9, SentStep, RunStepRedis
<1> QED BY <1>1, <1>4, <1>5, <1>6, <1>7, <1>8, <1>9, InboxMoves

-----------------------------------------------------------------------------
(* What a run has posted and still posts is one of its block's programs    *)

(* The outputs a, then c, begin the list p.                                *)
Begins(a, c, p) ==
  /\ Len(a) + Len(c) <= Len(p)
  /\ \A i \in 1..Len(a) : a[i] = p[i]
  /\ \A i \in 1..Len(c) : c[i] = p[Len(a) + i]

ProgramOf(r) ==
  \/ r.posted = <<>> /\ r.posts = <<>>
  \/ \E p \in Programs[r.block] : Begins(r.posted, r.posts, p)
ProgramInv == \A r \in runs : ProgramOf(r)

LEMMA PostsStep ==
  ASSUME IInv, NEW r \in runs, RunStep(r)
  PROVE  \E r2 : /\ Become(r, r2) /\ r2.block = r.block
                 /\ \/ r2.posted = r.posted /\ r2.posts \in {r.posts, <<>>}
                    \/ r2.posted = <<>> /\ r2.posts \in Programs[r.block]
                    \/ /\ r.posts # <<>>
                       /\ r2.posted = Append(r.posted, Head(r.posts)) /\ r2.posts = Tail(r.posts)
<1>1. IsRun(r) /\ PostsOnce(r)
  BY RunType DEF IInv, HistoryInv, PostInv
<1> DEFINE Goes(r2) ==
             /\ r2.block = r.block
             /\ \/ r2.posted = r.posted /\ r2.posts \in {r.posts, <<>>}
                \/ r2.posted = <<>> /\ r2.posts \in Programs[r.block]
                \/ /\ r.posts # <<>>
                   /\ r2.posted = Append(r.posted, Head(r.posts)) /\ r2.posts = Tail(r.posts)
<1> SUFFICES \E r2 : Become(r, r2) /\ Goes(r2)
  OBVIOUS
<1>2. CASE StartRun(r)
  <2>1. r.state = "queued"
    BY <1>2 DEF StartRun
  <2>2. r.posted = <<>>
    BY <1>1, <2>1 DEF PostsOnce
  <2>3. PICK s \in {"started", "failed"} : \E reads :
          \/ Become(r, [r EXCEPT !.state = s, !.reads = reads])
          \/ \E p \in Programs[r.block] : Become(r, [[r EXCEPT !.state = s, !.reads = reads] EXCEPT !.posts = p])
    BY <1>2 DEF StartRun
  <2>4. PICK reads :
          \/ Become(r, [r EXCEPT !.state = s, !.reads = reads])
          \/ \E p \in Programs[r.block] : Become(r, [[r EXCEPT !.state = s, !.reads = reads] EXCEPT !.posts = p])
    BY <2>3
  <2> DEFINE w == [r EXCEPT !.state = s, !.reads = reads]
  <2>5. Goes(w) /\ \A p \in Programs[r.block] : Goes([w EXCEPT !.posts = p])
    BY <1>1, <2>2 DEF IsRun
  <2> HIDE DEF Goes
  <2> QED BY <2>4, <2>5
<1>3. CASE Fetch(r)
  <2>1. Become(r, [r EXCEPT !.reads = Tail(@)]) /\ Goes([r EXCEPT !.reads = Tail(@)])
    BY <1>1, <1>3 DEF Fetch, IsRun
  <2> QED BY <2>1
<1>4. CASE CountFails(r)
  <2> DEFINE w == [r EXCEPT !.state = "failed", !.posts = <<>>]
  <2>1. Become(r, w) /\ Goes(w)
    BY <1>1, <1>4 DEF CountFails, IsRun
  <2> QED BY <2>1
<1>5. CASE Upload(r)
  <2>1. Become(r, [r EXCEPT !.uploads = Tail(@)]) /\ Goes([r EXCEPT !.uploads = Tail(@)])
    BY <1>1, <1>5 DEF Upload, IsRun
  <2> QED BY <2>1
<1>6. CASE Crash(r)
  <2>1. PICK u : Become(r, [r EXCEPT !.state = "crashed", !.posts = <<>>, !.uploads = u])
    BY <1>6 DEF Crash
  <2>2. Goes([r EXCEPT !.state = "crashed", !.posts = <<>>, !.uploads = u])
    BY <1>1 DEF IsRun
  <2> HIDE DEF Goes
  <2> QED BY <2>1, <2>2
<1>7. CASE Post(r)
  <2> DEFINE w == [r EXCEPT !.posts = Tail(@), !.posted = Append(@, Head(r.posts))]
             v == [w EXCEPT !.uploads = Append(@, NextDatum(r, "kafka"))]
  <2>1. Become(r, w) \/ Become(r, v)
    BY <1>7 DEF Post
  <2>2. r.posts # <<>>
    BY <1>7 DEF Post
  <2>3. Goes(w) /\ Goes(v)
    BY <1>1, <2>2 DEF IsRun
  <2> HIDE DEF Goes, w, v
  <2> QED BY <2>1, <2>3
<1> QED BY <1>2, <1>3, <1>4, <1>5, <1>6, <1>7 DEF RunStep

LEMMA BeginsOn ==
  ASSUME NEW a, a \in Seq(Range(a)), NEW c, c \in Seq(Range(c)), c # <<>>, NEW p, Begins(a, c, p)
  PROVE  Begins(Append(a, Head(c)), Tail(c), p)
<1>1. PICK a2 : a2 = Append(a, Head(c))
  OBVIOUS
<1>2. PICK c2 : c2 = Tail(c)
  OBVIOUS
<1>3. /\ Len(a2) = Len(a) + 1 /\ a2[Len(a) + 1] = Head(c) /\ \A i \in 1..Len(a) : a2[i] = a[i]
  BY <1>1, AppendIs
<1>4. /\ Len(c2) = Len(c) - 1 /\ Len(c) >= 1 /\ Head(c) = c[1] /\ \A i \in 1..Len(c2) : c2[i] = c[i + 1]
  BY <1>2, TailIs
<1>5. PICK m \in Nat, n \in Nat : m = Len(a) /\ n = Len(c)
  OBVIOUS
<1>6. /\ Len(a) + Len(c) <= Len(p)
      /\ \A i \in 1..m : a[i] = p[i]
      /\ \A i \in 1..n : c[i] = p[m + i]
  BY <1>5 DEF Begins
<1>7. Len(a2) + Len(c2) = m + n
  BY <1>3, <1>4, <1>5
<1>8. ASSUME NEW i \in 1..Len(a2) PROVE a2[i] = p[i]
  <2>1. i \in 1..m \/ i = m + 1
    BY <1>3, <1>5
  <2>2. CASE i \in 1..m
    BY <1>3, <1>5, <1>6, <2>2
  <2>3. CASE i = m + 1
    <3>1. c[1] = p[m + 1]
      BY <1>4, <1>5, <1>6
    <3> QED BY <1>3, <1>4, <1>5, <2>3, <3>1
  <2> QED BY <2>1, <2>2, <2>3
<1>9. ASSUME NEW i \in 1..Len(c2) PROVE c2[i] = p[Len(a2) + i]
  <2>1. PICK j : j = i + 1
    OBVIOUS
  <2>2. j \in 1..n /\ m + j = Len(a2) + i
    BY <1>3, <1>4, <1>5, <2>1
  <2> QED BY <1>4, <1>6, <2>1, <2>2
<1> QED BY <1>1, <1>2, <1>5, <1>6, <1>7, <1>8, <1>9 DEF Begins

LEMMA ProgramGoesOn ==
  ASSUME NEW r, IsRun(r), ProgramOf(r), NEW r2, r2.block = r.block,
         \/ r2.posted = r.posted /\ r2.posts \in {r.posts, <<>>}
         \/ r2.posted = <<>> /\ r2.posts \in Programs[r.block]
         \/ /\ r.posts # <<>>
            /\ r2.posted = Append(r.posted, Head(r.posts)) /\ r2.posts = Tail(r.posts)
  PROVE  ProgramOf(r2)
<1>1. /\ r.posted \in Seq(Outs) /\ r.posts \in Seq(Outs)
      /\ r.posted \in Seq(Range(r.posted)) /\ r.posts \in Seq(Range(r.posts))
      /\ \A p \in Programs[r.block] : p \in Seq(Outs)
  BY InRange, WorkflowAssumption DEF IsRun
<1>2. CASE r2.posted = r.posted /\ r2.posts = r.posts
  BY <1>2 DEF ProgramOf
<1>3. CASE r2.posted = r.posted /\ r2.posts = <<>>
  <2>1. ASSUME NEW p \in Programs[r.block], Begins(r.posted, r.posts, p)
        PROVE  Begins(r.posted, <<>>, p)
    <3>1. Len(<<>>) = 0 /\ 1..Len(<<>>) = {} /\ Len(r.posted) \in Nat /\ Len(r.posts) \in Nat
          /\ Len(p) \in Nat
      BY <1>1
    <3>2. Len(r.posted) + Len(<<>>) <= Len(p)
      <4>1. Len(r.posted) + Len(r.posts) <= Len(p)
        BY <2>1 DEF Begins
      <4>2. PICK m \in Nat, n \in Nat, z \in Nat :
              m = Len(r.posted) /\ n = Len(r.posts) /\ z = Len(p)
        BY <3>1
      <4>3. m + n <= z => m + 0 <= z
        OBVIOUS
      <4> QED BY <3>1, <4>1, <4>2, <4>3, Zenon
    <3> QED BY <2>1, <3>1, <3>2, Zenon DEF Begins
  <2> QED BY <1>3, <2>1, Zenon DEF ProgramOf
<1>4. CASE r2.posted = <<>> /\ r2.posts \in Programs[r.block]
  <2>1. ASSUME NEW p \in Seq(Outs) PROVE Begins(<<>>, p, p)
    <3>1. Len(<<>>) = 0 /\ 1..Len(<<>>) = {} /\ Len(p) \in Nat
      OBVIOUS
    <3> QED BY <3>1 DEF Begins
  <2> QED BY <1>1, <1>4, <2>1, Zenon DEF ProgramOf
<1>5. CASE r.posts # <<>> /\ r2.posted = Append(r.posted, Head(r.posts)) /\ r2.posts = Tail(r.posts)
  <2>1. PICK p \in Programs[r.block] : Begins(r.posted, r.posts, p)
    BY <1>5 DEF ProgramOf
  <2>2. Begins(Append(r.posted, Head(r.posts)), Tail(r.posts), p)
    BY <1>1, <1>5, <2>1, BeginsOn
  <2> QED BY <1>5, <2>2, Zenon DEF ProgramOf
<1> QED BY <1>2, <1>3, <1>4, <1>5

LEMMA NextProgram ==
  ASSUME IInv, ProgramInv, [Next]_vars PROVE ProgramInv'
<1>1. CASE UNCHANGED runs
  BY <1>1 DEF ProgramInv
<1>2. ASSUME NEW q, NEW b, NEW ins, Allocate(q, b, ins) PROVE ProgramInv'
  <2>1. PICK r : NewRun(r, b, ins) /\ runs' = runs \cup {r}
    BY <1>2, AllocatesNew
  <2>2. ProgramOf(r)
    BY <2>1 DEF NewRun, ProgramOf
  <2> QED BY <2>1, <2>2 DEF ProgramInv
<1>3. ASSUME NEW r \in runs, RunStep(r) PROVE ProgramInv'
  <2>1. PICK r2 : /\ Become(r, r2) /\ r2.block = r.block
                  /\ \/ r2.posted = r.posted /\ r2.posts \in {r.posts, <<>>}
                     \/ r2.posted = <<>> /\ r2.posts \in Programs[r.block]
                     \/ /\ r.posts # <<>>
                        /\ r2.posted = Append(r.posted, Head(r.posts)) /\ r2.posts = Tail(r.posts)
    BY <1>3, PostsStep
  <2>2. IsRun(r) /\ ProgramOf(r)
    BY RunType DEF IInv, ProgramInv
  <2>3. ProgramOf(r2)
    BY <2>1, <2>2, ProgramGoesOn
  <2> QED BY <2>1, <2>3 DEF Become, ProgramInv
<1>4. Inv
  BY DEF IInv
<1> QED BY <1>1, <1>2, <1>3, <1>4, RunsStep DEF RunStep

(* The theorems of FlowMonitor, for the monitor of the watched host.       *)
Proved == INSTANCE FlowMonitorProofs WITH known <- kept, deps <- cnt, Readers <- Blocks

(* The operators of FiniteSets are the same ones in every instance.        *)
LEMMA SameFinite ==
  ASSUME NEW S
  PROVE  /\ Proved!IsFiniteSet(S) <=> IsFiniteSet(S)
         /\ Proved!Cardinality(S) = Cardinality(S) /\ Monitor!Cardinality(S) = Cardinality(S)
<1>1. Proved!IsFiniteSet(S) <=> IsFiniteSet(S)
  BY DEF Proved!IsFiniteSet, IsFiniteSet
<1>2. Proved!Cardinality(S) = Cardinality(S)
  BY DEF Proved!Cardinality, Cardinality
<1>3. Monitor!Cardinality(S) = Cardinality(S)
  BY DEF Monitor!Cardinality, Cardinality
<1> QED BY <1>1, <1>2, <1>3

WatchedKeys == LocalKeys \cup RemoteKeys

(* A large datum has one producer, so a key is local or remote.            *)
LEMMA MadeWhere ==
  ASSUME NEW o, NEW homes, o \in BigFrom(homes)
  PROVE  o \in Big /\ \E h \in homes : Made(h, o)
BY DEF BigFrom, Producers, Made, Outputs

LEMMA KeysApart == LocalKeys \cap RemoteKeys = {}
<1> SUFFICES ASSUME NEW k \in LocalKeys, k \in RemoteKeys PROVE FALSE
  OBVIOUS
<1>1. k[2] \in BigFrom({Watched}) /\ k[2] \in BigFrom(Hosts \ {Watched})
  BY DEF LocalKeys, RemoteKeys
<1>2. Made(Watched, k[2]) /\ \E h \in Hosts \ {Watched} : Made(h, k[2])
  BY <1>1, MadeWhere
<1> QED BY <1>2, OneMaker, HostAssumption

LEMMA ReadersAre ==
  /\ ReadersOf \in [WatchedKeys -> SUBSET Blocks]
  /\ \A k \in WatchedKeys : ReadersOf[k] = BlocksAt(k[2], Watched)
<1>1. \A k : BlocksAt(k[2], Watched) \subseteq Blocks
  BY DEF BlocksAt
<1> QED BY <1>1 DEF ReadersOf, WatchedKeys

LEMMA MonitorAssumptions == Proved!ReadersAssumption /\ Proved!KeysAssumption /\ Proved!FlagAssumption
<1>1. Proved!ReadersAssumption
  BY ReadersAre, SameFinite, HostAssumption DEF Proved!ReadersAssumption, Proved!Keys, WatchedKeys
<1>2. Proved!KeysAssumption
  BY KeysApart DEF Proved!KeysAssumption
<1>3. Proved!FlagAssumption
  BY HostAssumption DEF Proved!FlagAssumption
<1> QED BY <1>1, <1>2, <1>3

LEMMA MonitorStarts == Monitor!Init => Proved!IInv
<1>1. Monitor!Init <=> Proved!Init
  BY DEF Monitor!Init, Proved!Init, Monitor!Keys, Proved!Keys
<1> QED BY <1>1, MonitorAssumptions, Proved!InitIInv

LEMMA SameNext == Monitor!Next <=> Proved!Next
BY DEF Monitor!Next, Proved!Next, Monitor!Keys, Proved!Keys, Monitor!Monitor, Proved!Monitor,
   Monitor!Reading, Proved!Reading, Monitor!PutToRedis, Proved!PutToRedis,
   Monitor!infoVars, Proved!infoVars, Monitor!queueVars, Proved!queueVars, Monitor!fileVars, Proved!fileVars,
   Monitor!Cardinality, Proved!Cardinality, Monitor!AddRedisKey, Proved!AddRedisKey,
   Monitor!AddDiskKey, Proved!AddDiskKey, Monitor!Prefetch, Proved!Prefetch,
   Monitor!CheckRedis, Proved!CheckRedis, Monitor!TransferToDisk, Proved!TransferToDisk,
   Monitor!RemoveDiskKey, Proved!RemoveDiskKey, Monitor!TransferFails, Proved!TransferFails,
   Monitor!StartDeletion, Proved!StartDeletion, Monitor!Expire, Proved!Expire,
   Monitor!DeleteFromRedis, Proved!DeleteFromRedis, Monitor!StartReader, Proved!StartReader,
   Monitor!FetchFromRedis, Proved!FetchFromRedis, Monitor!FetchFromDisk, Proved!FetchFromDisk,
   Monitor!DecreaseKeyDependencies, Proved!DecreaseKeyDependencies,
   Monitor!MarkDeleted, Proved!MarkDeleted, Monitor!NeedsTransfer, Proved!NeedsTransfer,
   Monitor!MayPut, Proved!MayPut, Monitor!MayAddRedisKey, Proved!MayAddRedisKey,
   Monitor!MayAddDiskKey, Proved!MayAddDiskKey, Monitor!MayPrefetch, Proved!MayPrefetch,
   Monitor!MayStart, Proved!MayStart, Monitor!MayReport, Proved!MayReport

LEMMA MonitorGoesOn ==
  ASSUME Proved!IInv, Monitor!Next \/ UNCHANGED monitorVars
  PROVE  Proved!IInv'
<1>1. UNCHANGED monitorVars => UNCHANGED Proved!vars
  BY DEF monitorVars, Proved!vars, Proved!infoVars, Proved!queueVars, Proved!fileVars
<1>2. Proved!Next \/ UNCHANGED Proved!vars
  BY <1>1, SameNext
<1> QED BY <1>2, MonitorAssumptions, Proved!NextIInv

(* What the monitor's invariant says that its caller depends on.           *)
MonitorFacts ==
  /\ redis \subseteq LocalKeys /\ kept \subseteq WatchedKeys
  /\ disk \in [WatchedKeys -> {"none", "partial", "full"}] /\ cnt \in [WatchedKeys -> Nat]
  /\ reader \in [WatchedKeys -> [Blocks -> {"idle", "redis", "disk", "fetched", "lost", "done"}]]
  /\ \A k \in kept : cnt[k] = Cardinality({b \in BlocksAt(k[2], Watched) : reader[k][b] # "done"})
  /\ \A k \in WatchedKeys \ kept : /\ \A b \in Blocks : reader[k][b] = "idle"
                                   /\ \A s \in batches : k \notin s
  /\ \A k \in RemoteKeys : remover[k] = "none"
  /\ \A k \in WatchedKeys : diskRemover[k] = "spawned" => cnt[k] = 0 /\ k \in kept

LEMMA FactsHold == Proved!IInv => MonitorFacts
<1> SUFFICES ASSUME Proved!IInv PROVE MonitorFacts
  OBVIOUS
<1>1. Proved!Keys = WatchedKeys
  BY DEF Proved!Keys, WatchedKeys
<1>2. Proved!TypeOK /\ Proved!DepsExact
      /\ \A k \in WatchedKeys : Proved!UnknownInv(k) /\ Proved!RemoteInv(k) /\ Proved!RemovalInv(k)
  BY <1>1 DEF Proved!IInv
<1>3. \A k \in kept : cnt[k] = Cardinality({b \in BlocksAt(k[2], Watched) : reader[k][b] # "done"})
  <2> SUFFICES ASSUME NEW k \in kept
               PROVE  cnt[k] = Cardinality({b \in BlocksAt(k[2], Watched) : reader[k][b] # "done"})
    OBVIOUS
  <2>1. k \in WatchedKeys
    BY <1>1, <1>2 DEF Proved!TypeOK
  <2>2. ReadersOf[k] = BlocksAt(k[2], Watched)
    BY <2>1, ReadersAre
  <2>3. cnt[k] = Proved!Cardinality({b \in ReadersOf[k] : reader[k][b] # "done"})
    BY <1>2 DEF Proved!DepsExact, Proved!Outstanding
  <2> QED BY <2>2, <2>3, SameFinite
<1> QED BY <1>1, <1>2, <1>3 DEF MonitorFacts, Proved!TypeOK, Proved!UnknownInv, Proved!RemoteInv,
     Proved!RemovalInv, Proved!Deleting, WatchedKeys

-----------------------------------------------------------------------------
(* The serial numbers of all data posted are those of the host's keys      *)

SerialsInv == \A k \in Sent : k[3] \in SerialNumbers

LEMMA SerialOfNext ==
  ASSUME IInv, ProgramInv, SerialsInv, NEW r \in runs, r.posts # <<>>, NEW kind
  PROVE  NextDatum(r, kind).serial \in SerialNumbers
<1>1. IsRun(r) /\ ProgramOf(r)
  BY RunType DEF IInv, ProgramInv
<1>2. CASE r.serial = NoSerial
  <2>1. PICK p \in Programs[r.block] : Begins(r.posted, r.posts, p)
    BY <1>1 DEF ProgramOf
  <2>2. r.block \in Blocks /\ r.posted \in Seq(Outs) /\ r.posts \in Seq(Outs) /\ p \in Seq(Outs)
    BY <1>1, <2>1, WorkflowAssumption DEF IsRun
  <2>3. PICK l \in Nat, n \in Nat : l = Len(r.posted) /\ n = l + 1
    BY <2>2
  <2>4. Head(r.posts) = r.posts[1] /\ 1 \in 1..Len(r.posts) /\ Len(r.posts) \in Nat /\ Len(p) \in Nat
    BY <2>2
  <2>5. p[n] = Head(r.posts) /\ n \in 1..Len(p)
    <3>1. p[l + 1] = r.posts[1] /\ l + Len(r.posts) <= Len(p)
      BY <2>1, <2>3, <2>4 DEF Begins
    <3>2. p[n] = Head(r.posts)
      BY <2>3, <2>4, <3>1, Zenon
    <3>3. PICK z \in Nat, y \in Nat : z = Len(p) /\ y = Len(r.posts)
      BY <2>4
    <3>4. l + y <= z
      BY <3>1, <3>3, Zenon
    <3>5. 1 \in 1..y
      BY <2>4, <3>3, Zenon
    <3>6. n = l + 1
      BY <2>3
    <3>7. n = l + 1 /\ l + y <= z /\ 1 \in 1..y => n \in 1..z
      OBVIOUS
    <3> QED BY <3>2, <3>3, <3>4, <3>5, <3>6, <3>7, Zenon
  <2>6. {m \in 1..(n - 1) : p[m] = p[n]} = {m \in 1..Len(r.posted) : r.posted[m] = Head(r.posts)}
    <3>1. 1..(n - 1) = 1..Len(r.posted)
      BY <2>3
    <3>2. \A m \in 1..Len(r.posted) : p[m] = r.posted[m]
      BY <2>1 DEF Begins
    <3>3. \A m \in 1..Len(r.posted) : p[m] = p[n] <=> r.posted[m] = Head(r.posts)
      BY <2>5, <3>2
    <3> QED BY <3>1, <3>3, Zenon
  <2>7. Cardinality({m \in 1..(n - 1) : p[m] = p[n]}) \in SerialNumbers
    BY <2>1, <2>2, <2>5, HostAssumption
  <2> QED BY <1>2, <2>6, <2>7 DEF NextDatum, Datum
<1>3. CASE r.serial # NoSerial
  <2>1. <<r.req, r.block, r.serial>> \in Fired
    BY DEF Fired, RunId
  <2>2. ForeachBlock(r.block)
    <3>1. \A f \in Fired : ForeachBlock(f[2]) <=> f[3] # NoSerial
      BY DEF IInv, HistoryInv, InstInv
    <3> QED BY <1>3, <2>1, <3>1
  <2>0. PICK o \in Outs : OutType[o] = "FOREACH" /\ \E x \in Range(Dest[o]) : x.block = r.block
    BY <2>2 DEF ForeachBlock
  <2>3. PICK x \in Range(Dest[o]) : x.block = r.block
    BY <2>0
  <2>4. x.block # User
    BY <1>1, <2>3, WorkflowAssumption DEF IsRun
  <2>5. <<r.req, o, r.serial>> \in Sent
    BY <2>0, <2>1, <2>3, <2>4 DEF IInv, HistoryInv, GotInv
  <2>6. r.serial \in SerialNumbers
    BY <2>5 DEF SerialsInv
  <2> QED BY <1>3, <2>6 DEF NextDatum, Datum
<1> QED BY <1>2, <1>3

LEMMA NextSerials ==
  ASSUME IInv, ProgramInv, SerialsInv, [Next]_vars PROVE SerialsInv'
<1>1. CASE Sent' = Sent
  BY <1>1 DEF SerialsInv
<1>2. ASSUME NEW r \in runs, Post(r), \A kind : Sent' = Sent \cup {Key(NextDatum(r, kind))} PROVE SerialsInv'
  <2>1. NextDatum(r, "direct").serial \in SerialNumbers
    BY <1>2, SerialOfNext DEF Post
  <2>2. Key(NextDatum(r, "direct"))[3] = NextDatum(r, "direct").serial
    BY DEF Key
  <2>3. \A k \in Sent' : k \in Sent \/ k = Key(NextDatum(r, "direct"))
    BY <1>2
  <2> QED BY <2>1, <2>2, <2>3 DEF SerialsInv
<1> QED BY <1>1, <1>2, SentStep

-----------------------------------------------------------------------------
(* A step of the host is a step of its engine                              *)

LEMMA HostStepIs == [HostNext]_hostVars => [Next]_vars
<1>1. CASE UNCHANGED hostVars
  BY <1>1 DEF hostVars
<1>2. CASE Fault
  BY <1>2 DEF Next
<1>3. ASSUME Joint, UNCHANGED faults PROVE [Next]_vars
  BY <1>3 DEF Joint, DispatchHere, ReportHere, PrefetchHere, PostHere, StartHere, FetchHere, MissInRedis,
     LinkPrefetchData, Next, Step
<1>4. CASE MonitorStep
  BY <1>4 DEF MonitorStep
<1>5. ASSUME EngineStep, UNCHANGED faults PROVE [Next]_vars
  BY <1>5 DEF EngineStep, Next, Step
<1> QED BY <1>1, <1>2, <1>3, <1>4, <1>5 DEF HostNext, HostStep

(* Every step of the host is one of the dispatcher, a prefetch or a        *)
(* container of WorkerSP, or leaves the engine alone: what is proved of    *)
(* the engine holds on a host with a monitor.                              *)
THEOREM HostRunsEngine == HostSpec => Spec
<1>1. HostInit => Init
  BY DEF HostInit
<1> QED BY <1>1, HostStepIs, PTL DEF Spec, HostSpec

EngineInv == /\ IInv /\ RunsComplete /\ WholeInv /\ KInv
             /\ LocatedInv /\ RedisInv /\ ProgramInv /\ SerialsInv

LEMMA EngineHolds ==
  ASSUME \A b \in Blocks : ItemsAlone(b) PROVE Spec => []EngineInv
<1>1. Spec => []RunsComplete /\ []KInv
  BY CompleteRuns, KeysAreCounted
<1>2. Init => LocatedInv /\ RedisInv /\ ProgramInv /\ SerialsInv
  <2>1. Init => ProgramInv /\ SerialsInv
    BY DEF Init, ProgramInv, SerialsInv, Sent
  <2> QED BY <2>1, InitLocated, InitRedis
<1>3. IInv /\ LocatedInv /\ RedisInv /\ ProgramInv /\ SerialsInv /\ [Next]_vars
      => LocatedInv' /\ RedisInv' /\ ProgramInv' /\ SerialsInv'
  BY NextLocated, NextRedis, NextProgram, NextSerials
<1>4. IInv /\ RunsComplete /\ WholeInv /\ KInv /\ LocatedInv /\ RedisInv /\ ProgramInv /\ SerialsInv => EngineInv
  BY DEF EngineInv
<1> QED BY <1>1, <1>2, <1>3, <1>4, DeliveredOnce, ListsAreWhole, PTL DEF Spec

-----------------------------------------------------------------------------
(* What the other steps of the engine leave alone                          *)

ReadsAsBefore ==
  \A s \in runs' : \A d \in Range(s.reads) : \E r \in runs : r.block = s.block /\ d \in Range(r.reads)
RedisIn(h) == RedisKeys(backlog[h]) \cup RedisKeys(queue[h])

LEMMA RunReads ==
  ASSUME RunInv, NEW r \in runs, Post(r) \/ CountFails(r) \/ Upload(r) \/ Crash(r)
  PROVE  ReadsAsBefore
<1>1. IsRun(r)
  BY DEF RunInv
<1>0. ASSUME NEW s, Become(r, s), s.block = r.block, s.reads = r.reads PROVE ReadsAsBefore
  <2>1. \A e \in runs' : e \in runs \/ e = s
    BY <1>0 DEF Become
  <2> QED BY <1>0, <2>1, Zenon DEF ReadsAsBefore
<1> SUFFICES \E s : Become(r, s) /\ s.block = r.block /\ s.reads = r.reads
  BY <1>0
<1>2. CASE CountFails(r)
  <2> DEFINE s == [r EXCEPT !.state = "failed", !.posts = <<>>]
  <2>1. Become(r, s) /\ s.block = r.block /\ s.reads = r.reads
    BY <1>1, <1>2 DEF CountFails, IsRun
  <2> QED BY <2>1
<1>3. CASE Upload(r)
  <2> DEFINE s == [r EXCEPT !.uploads = Tail(@)]
  <2>1. Become(r, s) /\ s.block = r.block /\ s.reads = r.reads
    BY <1>1, <1>3 DEF Upload, IsRun
  <2> QED BY <2>1
<1>4. CASE Crash(r)
  <2>1. PICK u : Become(r, [r EXCEPT !.state = "crashed", !.posts = <<>>, !.uploads = u])
    BY <1>4 DEF Crash
  <2> DEFINE s == [r EXCEPT !.state = "crashed", !.posts = <<>>, !.uploads = u]
  <2>2. s.block = r.block /\ s.reads = r.reads
    BY <1>1 DEF IsRun
  <2> QED BY <2>1, <2>2
<1>5. CASE Post(r)
  <2> DEFINE w == [r EXCEPT !.posts = Tail(@), !.posted = Append(@, Head(r.posts))]
             v == [w EXCEPT !.uploads = Append(@, NextDatum(r, "kafka"))]
  <2>1. Become(r, w) \/ Become(r, v)
    BY <1>5 DEF Post
  <2>2. w.block = r.block /\ w.reads = r.reads /\ v.block = r.block /\ v.reads = r.reads
    BY <1>1 DEF IsRun
  <2> HIDE DEF w, v
  <2> QED BY <2>1, <2>2
<1> QED BY <1>2, <1>3, <1>4, <1>5

(* A message that is not of redis announces nothing there.                 *)
LEMMA OtherSent ==
  ASSUME Inv, NEW g, NEW d, Send(g, d), ~IsRedis(d), UNCHANGED queue, NEW h \in Hosts
  PROVE  RedisIn(h)' \subseteq RedisIn(h)
<1>1. /\ backlog[h] \in Seq(Range(backlog[h])) /\ backlog = [k \in Hosts |-> backlog[k]]
  BY InboxTypes DEF Inv, InboxInv
<1>2. queue'[h] = queue[h] /\ backlog'[h] \in {backlog[h], Append(backlog[h], d)}
  BY <1>1 DEF Send
<1>3. RedisKeys(Append(backlog[h], d)) = RedisKeys(backlog[h]) \cup {Key(e) : e \in {e \in {d} : IsRedis(e)}}
  BY <1>1, RedisAppend
<1>4. RedisKeys(backlog'[h]) \subseteq RedisKeys(backlog[h])
  BY <1>2, <1>3
<1>5. RedisIn(h)' = RedisKeys(backlog'[h]) \cup RedisKeys(queue[h])
  BY <1>2 DEF RedisIn, RedisKeys, IsRedis, Key
<1> QED BY <1>4, <1>5 DEF RedisIn

(* A step of a run announces nothing in redis but what it posts.           *)
LEMMA RunAnnounces ==
  ASSUME EngineInv, NEW r \in runs, RunStep(r), NEW h \in Hosts
  PROVE  /\ UNCHANGED <<queue, deps>>
         /\ \/ RedisIn(h)' \subseteq RedisIn(h)
            \/ /\ Post(r) /\ Home[r.block] = h /\ NextDatum(r, "redis") \in Range(backlog'[h])
               /\ RedisIn(h)' \subseteq RedisIn(h) \cup {Key(NextDatum(r, "redis"))}
<1>1. Inv /\ IInv /\ LocatedInv
  BY DEF EngineInv, IInv
<1>2. UNCHANGED <<queue, deps>>
  BY <1>1, RunMails DEF RunStep
<1>3. CASE UNCHANGED backlog
  BY <1>2, <1>3 DEF RedisIn, RedisKeys, IsRedis, Key
<1>4. ASSUME NEW d, Send(Home[r.block], d),
             \/ d.kind \in {"fetched", "direct"} \/ d \in Range(r.uploads)
             \/ Post(r) /\ d = NextDatum(r, "redis")
      PROVE  \/ RedisIn(h)' \subseteq RedisIn(h)
             \/ /\ Post(r) /\ Home[r.block] = h /\ NextDatum(r, "redis") \in Range(backlog'[h])
                /\ RedisIn(h)' \subseteq RedisIn(h) \cup {Key(NextDatum(r, "redis"))}
  <2>1. /\ backlog[h] \in Seq(Range(backlog[h])) /\ backlog = [k \in Hosts |-> backlog[k]]
    BY <1>1, InboxTypes DEF Inv, InboxInv
  <2>2. CASE ~IsRedis(d)
    BY <1>1, <1>2, <1>4, <2>2, OtherSent
  <2>3. CASE IsRedis(d) /\ Home[r.block] # h
    <3>1. backlog'[h] = backlog[h] /\ queue'[h] = queue[h]
      BY <1>2, <1>4, <2>1, <2>3 DEF Send
    <3> QED BY <3>1 DEF RedisIn, RedisKeys, IsRedis, Key
  <2>4. CASE IsRedis(d) /\ Home[r.block] = h
    <3>1. backlog'[h] = Append(backlog[h], d) /\ queue'[h] = queue[h]
      BY <1>2, <1>4, <2>1, <2>4 DEF Send
    <3>2. RedisKeys(backlog'[h]) = RedisKeys(backlog[h]) \cup {Key(e) : e \in {e \in {d} : IsRedis(e)}}
      BY <2>1, <3>1, RedisAppend
    <3>3. RedisIn(h)' = RedisKeys(backlog'[h]) \cup RedisKeys(queue[h])
      BY <3>1 DEF RedisIn, RedisKeys, IsRedis, Key
    <3>4. ~(d \in Range(r.uploads))
      BY <1>1, <2>4 DEF LocatedInv, ForwardedFrom, IsRedis
    <3>5. Post(r) /\ d = NextDatum(r, "redis")
      BY <1>4, <2>4, <3>4 DEF IsRedis
    <3>6. d \in Range(backlog'[h])
      BY <2>1, <3>1, RangesAre
    <3> QED BY <2>4, <3>2, <3>3, <3>5, <3>6 DEF RedisIn
  <2> QED BY <2>2, <2>3, <2>4
<1>5. UNCHANGED backlog \/ \E d : /\ Send(Home[r.block], d)
                                  /\ \/ d.kind \in {"fetched", "direct"} \/ d \in Range(r.uploads)
                                     \/ Post(r) /\ d = NextDatum(r, "redis")
  BY <1>1, RunMails DEF RunStep
<1> QED BY <1>2, <1>3, <1>4, <1>5

(* A worker that takes the next message of its queue forgets it.           *)
LEMMA TakesNext ==
  ASSUME Inv, NEW h \in Hosts, Dispatch(h) \/ DispatchFetched(h), NEW k \in Hosts
  PROVE  RedisIn(k)' \subseteq RedisIn(k)
<1>1. queue[h] # <<>> /\ queue' = [queue EXCEPT ![h] = Tail(@)] /\ UNCHANGED backlog
  BY DEF Dispatch, DispatchFetched
<1>2. queue[h] \in Seq(Range(queue[h])) /\ queue = [e \in Hosts |-> queue[e]]
  BY InboxTypes DEF Inv, InboxInv
<1>3. CASE k = h
  <2>1. queue'[k] = Tail(queue[k]) /\ backlog'[k] = backlog[k]
    BY <1>1, <1>2, <1>3
  <2>2. RedisKeys(queue'[k]) \subseteq RedisKeys(queue[k])
    BY <1>1, <1>2, <1>3, <2>1, RedisTail
  <2>3. RedisIn(k)' = RedisKeys(backlog[k]) \cup RedisKeys(queue'[k])
    BY <2>1 DEF RedisIn, RedisKeys, IsRedis, Key
  <2> QED BY <2>2, <2>3 DEF RedisIn
<1>4. CASE k # h
  <2>1. queue'[k] = queue[k] /\ backlog'[k] = backlog[k]
    BY <1>1, <1>2, <1>4
  <2> QED BY <2>1 DEF RedisIn, RedisKeys, IsRedis, Key
<1> QED BY <1>3, <1>4

(* socket_server moves a message, transfer_data brings none of redis.      *)
LEMMA MessagesArrive ==
  ASSUME EngineInv, (\E h \in Hosts : SocketServer(h)) \/ (\E m \in dataNet : TransferData(m)), NEW k \in Hosts
  PROVE  RedisIn(k)' \subseteq RedisIn(k)
<1>1. Inv /\ LocatedInv
  BY DEF EngineInv, IInv
<1>2. /\ queue = [e \in Hosts |-> queue[e]] /\ backlog = [e \in Hosts |-> backlog[e]]
      /\ \A e \in Hosts : queue[e] \in Seq(Range(queue[e])) /\ backlog[e] \in Seq(Range(backlog[e]))
  BY <1>1, InboxTypes DEF Inv, InboxInv
<1>3. CASE backlog'[k] = backlog[k] /\ queue'[k] = queue[k]
  BY <1>3 DEF RedisIn, RedisKeys, IsRedis, Key
<1>4. ASSUME NEW h \in Hosts, SocketServer(h) PROVE RedisIn(k)' \subseteq RedisIn(k)
  <2>1. CASE k # h
    <3>1. backlog'[k] = backlog[k] /\ queue'[k] = queue[k]
      BY <1>2, <1>4, <2>1 DEF SocketServer
    <3> QED BY <1>3, <3>1
  <2>2. CASE k = h
    <3>1. /\ backlog[k] # <<>> /\ backlog'[k] = Tail(backlog[k])
          /\ queue'[k] \in {queue[k], Append(queue[k], Head(backlog[k]))}
      BY <1>2, <1>4, <2>2 DEF SocketServer
    <3>2. /\ RedisKeys(backlog'[k]) \subseteq RedisKeys(backlog[k])
          /\ IsRedis(Head(backlog[k])) => Key(Head(backlog[k])) \in RedisKeys(backlog[k])
      BY <1>2, <3>1, RedisTail
    <3>3. RedisKeys(Append(queue[k], Head(backlog[k]))) =
            RedisKeys(queue[k]) \cup {Key(e) : e \in {e \in {Head(backlog[k])} : IsRedis(e)}}
      BY <1>2, RedisAppend
    <3>4. RedisKeys(queue'[k]) \subseteq RedisKeys(queue[k]) \cup RedisKeys(backlog[k])
      BY <3>1, <3>2, <3>3
    <3>5. RedisIn(k)' = RedisKeys(backlog'[k]) \cup RedisKeys(queue'[k])
      BY DEF RedisIn, RedisKeys, IsRedis, Key
    <3> QED BY <3>2, <3>4, <3>5 DEF RedisIn
  <2> QED BY <2>1, <2>2
<1>5. ASSUME NEW m \in dataNet, TransferData(m) PROVE RedisIn(k)' \subseteq RedisIn(k)
  <2>1. IsMessage(m)
    BY <1>1 DEF Inv, NetInv
  <2>2. m.to \in Hosts /\ m.datas \in Seq(Range(m.datas))
    BY <2>1, InRange DEF IsMessage
  <2>3. backlog'[k] = backlog[k] /\ (queue'[k] = queue[k] \/ queue'[k] = queue[k] \o m.datas)
    BY <1>2, <1>5, <2>2 DEF TransferData
  <2>4. CASE queue'[k] = queue[k] \o m.datas
    <3>0. k = m.to \/ queue'[k] = queue[k]
      BY <1>2, <1>5, <2>2 DEF TransferData
    <3>a. CASE queue'[k] = queue[k]
      BY <1>3, <2>3, <3>a
    <3>b. CASE k = m.to
      <4>1. \A d \in Range(m.datas) : ~IsRedis(d)
        BY <1>1 DEF LocatedInv, Crosses, IsRedis
      <4>2. RedisKeys(queue'[k]) \subseteq RedisKeys(queue[k])
        BY <1>2, <2>2, <2>4, <4>1, RedisConcat
      <4>3. RedisIn(k)' = RedisKeys(backlog[k]) \cup RedisKeys(queue'[k])
        BY <2>3 DEF RedisIn, RedisKeys, IsRedis, Key
      <4> QED BY <4>2, <4>3 DEF RedisIn
    <3> QED BY <3>0, <3>a, <3>b
  <2> QED BY <1>3, <2>3, <2>4
<1> QED BY <1>4, <1>5

SameHasRead == \A b, k : HasRead(b, k)' <=> HasRead(b, k)
SamePrefetches ==
  \A h \in Hosts : /\ DOMAIN prefetch'[h] = DOMAIN prefetch[h]
                   /\ \A k \in DOMAIN prefetch[h] : prefetch'[h][k] \in {prefetch[h][k], "dead"}
NoNewRedis == \A h \in Hosts : RedisIn(h)' \subseteq RedisIn(h)
QuietEngine == UNCHANGED deps /\ SameHasRead /\ ReadsAsBefore /\ SamePrefetches /\ NoNewRedis

LEMMA QuietRunStep ==
  ASSUME EngineInv, NEW r \in runs, CountFails(r) \/ Upload(r) \/ Crash(r) \/ Post(r) \/ StartRun(r)
  PROVE  SameHasRead /\ UNCHANGED <<queue, deps, prefetch>>
<1>1. IInv /\ RunInv /\ Reads(r) /\ Indexed(r.block, r.inputs) /\ DOMAIN r.inputs = DOMAIN Inputs[r.block]
  BY WholeIndexed DEF EngineInv, IInv, Inv, KInv, ReadsInv, WholeInv, RunsComplete
<1>2. UNCHANGED <<queue, deps, prefetch>>
      /\ \E r2 : Become(r, r2) /\ Follows(r, r2) /\ \A k : ReadBy(r2, k) <=> ReadBy(r, k)
  BY <1>1, QuietStep
<1>3. \A b, k : HasRead(b, k)' <=> HasRead(b, k)
  BY <1>2, HasReadSame
<1> QED BY <1>2, <1>3 DEF SameHasRead

LEMMA StillReads ==
  ASSUME UNCHANGED runs PROVE SameHasRead /\ ReadsAsBefore
BY HasReadSame DEF SameHasRead, ReadsAsBefore

LEMMA StillRedis ==
  ASSUME UNCHANGED <<backlog, queue>> PROVE NoNewRedis
BY DEF NoNewRedis, RedisIn, RedisKeys, IsRedis, Key

LEMMA QuietSteps ==
  ASSUME EngineInv, EngineStep \/ Fault PROVE QuietEngine
<1>1. Inv /\ RunInv
  BY DEF EngineInv, IInv, Inv
<1>2. UNCHANGED prefetch => SamePrefetches
  BY DEF SamePrefetches
<1>3. ASSUME UNCHANGED <<deps, runs, prefetch, backlog, queue>> PROVE QuietEngine
  BY <1>2, <1>3, StillReads, StillRedis DEF QuietEngine
<1>4. ASSUME UNCHANGED <<deps, prefetch, backlog, queue>>, NEW h \in Hosts, NEW g,
             FlowForeach(h) \/ FlowMerge(h) \/ FlowNormal(h) \/ ResumeMerge(h, g) \/ ResumeTrigger(h, g)
      PROVE  QuietEngine
  <2>1. UNCHANGED runs \/ \E r : runs' = runs \cup {r} /\ Queued(r)
    BY <1>1, <1>4, FlowAllocates
  <2>2. ASSUME NEW r, runs' = runs \cup {r}, Queued(r) PROVE SameHasRead /\ ReadsAsBefore
    <3>1. \A b, k : HasRead(b, k)' <=> HasRead(b, k)
      BY <2>2, HasReadSame
    <3>2. Range(r.reads) = {}
      BY <2>2 DEF Queued, Range
    <3>3. ReadsAsBefore
      BY <2>2, <3>2 DEF ReadsAsBefore
    <3> QED BY <3>1, <3>3 DEF SameHasRead
  <2> QED BY <1>2, <1>4, <2>1, <2>2, StillReads, StillRedis DEF QuietEngine
<1>5. ASSUME UNCHANGED <<deps, runs, prefetch>>,
             (\E h \in Hosts : SocketServer(h)) \/ (\E m \in dataNet : TransferData(m))
      PROVE  QuietEngine
  <2>1. NoNewRedis
    BY <1>5, MessagesArrive DEF NoNewRedis
  <2> QED BY <1>2, <1>5, <2>1, StillReads DEF QuietEngine
<1>6. ASSUME NEW r \in runs, CountFails(r) \/ Upload(r) \/ Crash(r) PROVE QuietEngine
  <2>1. SameHasRead /\ UNCHANGED <<queue, deps, prefetch>>
    BY <1>6, QuietRunStep
  <2>2. ReadsAsBefore
    BY <1>1, <1>6, RunReads
  <2>3. ASSUME NEW h \in Hosts PROVE RedisIn(h)' \subseteq RedisIn(h)
    <3>1. CASE UNCHANGED backlog
      BY <2>1, <3>1, StillRedis DEF NoNewRedis
    <3>2. CASE Upload(r)
      <4>1. r.uploads # <<>> /\ Send(Home[r.block], Head(r.uploads))
        BY <3>2 DEF Upload
      <4>2. Head(r.uploads) \in Range(r.uploads)
        <5>1. r.uploads \in Seq(Range(r.uploads))
          BY <1>1, InRange DEF RunInv, IsRun
        <5> QED BY <4>1, <5>1, RangesAre
      <4>3. ~IsRedis(Head(r.uploads))
        BY <4>2 DEF EngineInv, LocatedInv, ForwardedFrom, IsRedis
      <4> QED BY <1>1, <2>1, <4>1, <4>3, OtherSent
    <3> QED BY <1>6, <3>1, <3>2 DEF CountFails, Crash, inboxVars
  <2> QED BY <1>2, <2>1, <2>2, <2>3 DEF QuietEngine, NoNewRedis
<1>7. ASSUME NEW h \in Hosts, NEW k \in DOMAIN prefetch[h], LosePrefetch(h, k) PROVE QuietEngine
  <2>1. UNCHANGED <<deps, runs, backlog, queue>> /\ prefetch' = [prefetch EXCEPT ![h][k] = "dead"]
    BY <1>7 DEF LosePrefetch, inboxVars
  <2>2. DOMAIN prefetch = Hosts
    BY DEF EngineInv, KInv, PrefetchInv
  <2>3. SamePrefetches
    BY <2>1, <2>2 DEF SamePrefetches
  <2> QED BY <2>1, <2>3, StillReads, StillRedis DEF QuietEngine
<1>8. CASE EngineStep
  <2>1. ASSUME NEW q \in Requests, Run(q) \/ SendInputs(q) \/ Answer(q) \/ PostUserData(q) PROVE QuietEngine
    BY <1>3, <2>1 DEF Run, SendInputs, Answer, PostUserData, inboxVars, keyVars
  <2>2. ASSUME NEW h \in Hosts, NEW q \in Requests, RequestInfo(h, q) PROVE QuietEngine
    BY <1>3, <2>2 DEF RequestInfo, keyVars
  <2>3. ASSUME NEW m \in dataNet, TransferData(m) PROVE QuietEngine
    BY <1>5, <2>3 DEF TransferData, keyVars
  <2>4. ASSUME NEW h \in Hosts, SocketServer(h) PROVE QuietEngine
    BY <1>5, <2>4 DEF SocketServer, keyVars
  <2>5. ASSUME NEW h \in Hosts, ToUser(h) \/ ToRemote(h) PROVE QuietEngine
    BY <1>3, <2>5 DEF ToUser, ToRemote, inboxVars, keyVars
  <2>6. ASSUME NEW h \in Hosts, FlowForeach(h) \/ FlowMerge(h) \/ FlowNormal(h) PROVE QuietEngine
    BY <1>4, <2>6 DEF FlowForeach, FlowMerge, FlowNormal, inboxVars, keyVars
  <2>7. ASSUME NEW h \in Hosts, NEW g \in parked[h], ResumeMerge(h, g) \/ ResumeTrigger(h, g) PROVE QuietEngine
    BY <1>4, <2>7 DEF ResumeMerge, ResumeTrigger, inboxVars, keyVars
  <2>8. ASSUME NEW r \in runs, CountFails(r) \/ Upload(r) PROVE QuietEngine
    BY <1>6, <2>8
  <2> QED BY <1>8, <2>1, <2>2, <2>3, <2>4, <2>5, <2>6, <2>7, <2>8 DEF EngineStep
<1>9. CASE Fault
  <2>1. CASE LosePost
    BY <1>3, <2>1 DEF LosePost, inboxVars, keyVars
  <2> QED BY <1>6, <1>7, <1>9, <2>1 DEF Fault
<1> QED BY <1>8, <1>9

-----------------------------------------------------------------------------
(* The engine and the monitor agree on the watched host                    *)

Past == {"fetched", "lost", "done"}

(* The keys and their counts are the engine's.                             *)
KeptInv == kept = DOMAIN deps[Watched] /\ \A k \in kept : cnt[k] = deps[Watched][k]

(* A block that is counted for a key is through with it exactly when a run *)
(* of it has read the key, and a run that is to read is at redis or disk.  *)
ReadInv ==
  \A k \in kept : \A b \in BlocksAt(k[2], Watched) : reader[k][b] \in Past <=> HasRead(b, k)
LinkedInv ==
  \A r \in runs : Home[r.block] = Watched =>
    \A d \in Range(r.reads) : reader[Key(d)][r.block] \in {"redis", "disk"}

(* The file of a prefetch is open until it is done, then whole.            *)
FilesInv ==
  \A k \in DOMAIN prefetch[Watched] :
    /\ k \in RemoteKeys \cap kept
    /\ prefetch[Watched][k] = "running" => disk[k] = "partial" /\ \A b \in Blocks : reader[k][b] = "idle"
    /\ prefetch[Watched][k] = "done" /\ cnt[k] > 0 => disk[k] = "full"

(* Redis holds what was posted, and what is announced there.               *)
ValuesInv == redis \subseteq Sent /\ RedisIn(Watched) \subseteq redis

HostInv == KeptInv /\ ReadInv /\ LinkedInv /\ FilesInv /\ ValuesInv

LEMMA HostStarts == HostInit => HostInv
<1> SUFFICES ASSUME HostInit PROVE HostInv
  OBVIOUS
<1>1. Watched \in Hosts
  BY HostAssumption
<1>2. /\ deps[Watched] = EmptyFn /\ prefetch[Watched] = EmptyFn /\ runs = {}
      /\ backlog[Watched] = <<>> /\ queue[Watched] = <<>>
  BY <1>1 DEF HostInit, Init
<1>3. kept = {} /\ redis = {}
  BY DEF HostInit, Monitor!Init
<1>4. DOMAIN EmptyFn = {}
  BY DEF EmptyFn
<1>5. RedisIn(Watched) = {}
  BY <1>2 DEF RedisIn, RedisKeys
<1> QED BY <1>2, <1>3, <1>4, <1>5 DEF HostInv, KeptInv, ReadInv, LinkedInv, FilesInv, ValuesInv

(* Steps of the engine on its own, and faults.                             *)
LEMMA QuietHost ==
  ASSUME EngineInv, HostInv, EngineStep \/ Fault, UNCHANGED monitorVars, Sent \subseteq Sent'
  PROVE  HostInv'
<1>1. UNCHANGED deps /\ SameHasRead /\ ReadsAsBefore /\ SamePrefetches /\ NoNewRedis
  BY QuietSteps DEF QuietEngine
<1>2. UNCHANGED <<redis, disk, kept, cnt, reader>>
  BY DEF monitorVars
<1>3. KeptInv'
  BY <1>1, <1>2 DEF HostInv, KeptInv
<1>4. ReadInv'
  BY <1>1, <1>2 DEF HostInv, ReadInv, SameHasRead
<1>5. LinkedInv'
  BY <1>1, <1>2 DEF HostInv, LinkedInv, ReadsAsBefore
<1>6. FilesInv'
  <2>1. /\ DOMAIN prefetch'[Watched] = DOMAIN prefetch[Watched]
        /\ \A k \in DOMAIN prefetch[Watched] : prefetch'[Watched][k] \in {prefetch[Watched][k], "dead"}
    BY <1>1, HostAssumption DEF SamePrefetches
  <2> QED BY <1>2, <2>1 DEF HostInv, FilesInv
<1>7. ValuesInv'
  <2>1. RedisIn(Watched)' \subseteq RedisIn(Watched)
    BY <1>1, HostAssumption DEF NoNewRedis
  <2> QED BY <1>2, <2>1 DEF HostInv, ValuesInv
<1> QED BY <1>3, <1>4, <1>5, <1>6, <1>7 DEF HostInv

LEMMA ReadersAt ==
  /\ \A k : IsFiniteSet(BlocksAt(k[2], Watched))
  /\ \A k \in RemoteKeys : BlocksAt(k[2], Watched) # {}
<1>1. \A k : BlocksAt(k[2], Watched) \subseteq Blocks
  BY DEF BlocksAt
<1>2. \A k : IsFiniteSet(BlocksAt(k[2], Watched))
  BY <1>1, HostAssumption, FS_Subset
<1>3. \A k \in RemoteKeys : BlocksAt(k[2], Watched) # {}
  BY DEF RemoteKeys
<1> QED BY <1>2, <1>3

LEMMA SameRuns ==
  ASSUME UNCHANGED runs PROVE Sent' = Sent /\ SameHasRead
BY StillReads DEF Sent, ProducedBy, DatumPosted

(* Steps of the monitor on its own.                                        *)
LEMMA MonitorHost ==
  ASSUME EngineInv, MonitorFacts, HostInv, MonitorStep PROVE HostInv'
<1>1. UNCHANGED <<deps, prefetch, runs, backlog, queue>>
  BY DEF MonitorStep, vars, keyVars, inboxVars
<1>2. UNCHANGED <<kept, cnt, reader>>
  BY DEF MonitorStep, Monitor!CheckRedis, Monitor!TransferToDisk, Monitor!TransferFails, Monitor!RemoveDiskKey,
     Monitor!StartDeletion, Monitor!Expire, Monitor!DeleteFromRedis, Monitor!MarkDeleted,
     Monitor!infoVars, Monitor!queueVars, Monitor!fileVars
<1>3. \A k \in RemoteKeys : disk'[k] = disk[k] \/ (cnt[k] = 0 /\ k \in kept)
  <2>1. CASE UNCHANGED disk
    BY <2>1
  <2>2. ASSUME NEW e \in LocalKeys, Monitor!TransferToDisk(e) \/ Monitor!TransferFails(e), NEW k \in RemoteKeys
        PROVE  disk'[k] = disk[k]
    <3>1. k # e /\ k \in WatchedKeys /\ e \in WatchedKeys
      BY KeysApart DEF WatchedKeys
    <3> QED BY <2>2, <3>1 DEF Monitor!TransferToDisk, Monitor!TransferFails, MonitorFacts
  <2>3. ASSUME NEW e \in WatchedKeys, Monitor!RemoveDiskKey(e), NEW k \in RemoteKeys
        PROVE  disk'[k] = disk[k] \/ (cnt[k] = 0 /\ k \in kept)
    BY <2>3 DEF Monitor!RemoveDiskKey, MonitorFacts, WatchedKeys
  <2> QED BY <2>1, <2>2, <2>3 DEF MonitorStep, Monitor!CheckRedis, Monitor!StartDeletion, Monitor!Expire,
     Monitor!DeleteFromRedis, Monitor!fileVars, WatchedKeys
<1>4. \A k \in RedisIn(Watched) : k \in redis'
  <2> SUFFICES ASSUME NEW k \in RedisIn(Watched) PROVE k \in redis'
    OBVIOUS
  <2>1. k \in redis /\ k \in LocalKeys
    BY DEF HostInv, ValuesInv, MonitorFacts
  <2>2. k \notin kept
    BY HostAssumption DEF EngineInv, RedisInv, RedisIn, HostInv, KeptInv
  <2>3. \A s \in batches : k \notin s
    BY <2>1, <2>2 DEF MonitorFacts, WatchedKeys
  <2> QED BY <2>1, <2>3 DEF MonitorStep, Monitor!CheckRedis, Monitor!TransferToDisk, Monitor!TransferFails,
     Monitor!RemoveDiskKey, Monitor!StartDeletion, Monitor!Expire, Monitor!DeleteFromRedis
<1>5. redis' \subseteq redis
  BY DEF MonitorStep, Monitor!CheckRedis, Monitor!TransferToDisk, Monitor!TransferFails,
     Monitor!RemoveDiskKey, Monitor!StartDeletion, Monitor!Expire, Monitor!DeleteFromRedis
<1>6. KeptInv'
  BY <1>1, <1>2 DEF HostInv, KeptInv
<1>7. ReadInv'
  BY <1>1, <1>2, SameRuns DEF HostInv, ReadInv, SameHasRead
<1>8. LinkedInv'
  BY <1>1, <1>2 DEF HostInv, LinkedInv
<1>9. FilesInv'
  <2> SUFFICES ASSUME NEW k \in DOMAIN prefetch[Watched]
               PROVE  /\ k \in RemoteKeys \cap kept
                      /\ prefetch[Watched][k] = "running" =>
                           disk'[k] = "partial" /\ \A b \in Blocks : reader[k][b] = "idle"
                      /\ prefetch[Watched][k] = "done" /\ cnt[k] > 0 => disk'[k] = "full"
    BY <1>1, <1>2 DEF FilesInv
  <2>1. /\ k \in RemoteKeys \cap kept
        /\ prefetch[Watched][k] = "running" => disk[k] = "partial" /\ \A b \in Blocks : reader[k][b] = "idle"
        /\ prefetch[Watched][k] = "done" /\ cnt[k] > 0 => disk[k] = "full"
    BY DEF HostInv, FilesInv
  <2>2. CASE disk'[k] = disk[k]
    BY <2>1, <2>2
  <2>3. CASE cnt[k] = 0
    <3>1. prefetch[Watched][k] # "running"
      <4> SUFFICES ASSUME \A b \in Blocks : reader[k][b] = "idle" PROVE FALSE
        BY <2>1
      <4>1. IsFiniteSet(BlocksAt(k[2], Watched)) /\ BlocksAt(k[2], Watched) # {}
        BY <2>1, ReadersAt
      <4>2. {b \in BlocksAt(k[2], Watched) : reader[k][b] # "done"} = BlocksAt(k[2], Watched)
        BY DEF BlocksAt
      <4>3. Cardinality(BlocksAt(k[2], Watched)) = 0
        BY <2>1, <2>3, <4>2 DEF MonitorFacts
      <4> QED BY <4>1, <4>3, FS_EmptySet
    <3> QED BY <2>1, <2>3, <3>1
  <2> QED BY <1>3, <2>1, <2>2, <2>3
<1>10. ValuesInv'
  <2>1. RedisIn(Watched)' = RedisIn(Watched)
    BY <1>1 DEF RedisIn, RedisKeys, IsRedis, Key
  <2> QED BY <1>1, <1>4, <1>5, <2>1, SameRuns DEF HostInv, ValuesInv
<1> QED BY <1>6, <1>7, <1>8, <1>9, <1>10 DEF HostInv

(* What a run of the host refers to is registered there, for its block.    *)
LEMMA ReferenceKept ==
  ASSUME EngineInv, KeptInv, MonitorFacts, NEW r \in runs, Home[r.block] = Watched,
         NEW d \in ReferencesIn(r.block, r.inputs)
  PROVE  /\ Key(d) \in kept /\ Key(d) \in WatchedKeys /\ Key(d)[1] = r.req /\ Key(d)[2] = d.out
         /\ r.block \in Blocks /\ r.block \in BlocksAt(Key(d)[2], Watched)
<1>1. Key(d)[1] = d.req /\ Key(d)[2] = d.out
  BY DEF Key
<1>2. /\ d \in Data /\ d.req = r.req /\ r.block \in BlocksAt(d.out, Home[r.block])
      /\ Key(d) \in DOMAIN deps[Home[r.block]]
  BY ReferenceRegistered DEF EngineInv, KInv
<1>3. r.block \in Blocks
  BY <1>2 DEF BlocksAt
<1> QED BY <1>1, <1>2, <1>3 DEF KeptInv, MonitorFacts

LEMMA ReadsAreReferences ==
  ASSUME EngineInv, NEW r \in runs, NEW d \in Range(r.reads)
  PROVE  d \in ReferencesIn(r.block, r.inputs)
<1>1. r.reads \in Seq(ReferencesIn(r.block, r.inputs))
  BY DEF EngineInv, KInv, ReadsInv, Reads
<1> QED BY <1>1, InRange

(* A reader that goes to redis or to the disk, and has not read yet.       *)
LEMMA ReaderMoves ==
  ASSUME MonitorFacts, HostInv, NEW k \in WatchedKeys, NEW b \in Blocks, NEW v \in {"redis", "disk"},
         reader' = [reader EXCEPT ![k][b] = v], reader[k][b] \in {"idle", "redis"},
         reader[k][b] = "idle" /\ k \in RemoteKeys => disk[k] = "full",
         UNCHANGED <<redis, disk, kept, cnt>>, UNCHANGED vars
  PROVE  HostInv'
<1>1. UNCHANGED <<deps, prefetch, runs, backlog, queue>>
  BY DEF vars, keyVars, inboxVars
<1>2. \A e \in WatchedKeys, c \in Blocks :
        reader'[e][c] = IF e = k /\ c = b THEN v ELSE reader[e][c]
  BY DEF MonitorFacts
<1>3. kept \subseteq WatchedKeys /\ \A e : BlocksAt(e[2], Watched) \subseteq Blocks
  BY DEF MonitorFacts, BlocksAt
<1>4. KeptInv'
  BY <1>1 DEF HostInv, KeptInv
<1>5. ReadInv'
  <2> SUFFICES ASSUME NEW e \in kept, NEW c \in BlocksAt(e[2], Watched)
               PROVE  reader'[e][c] \in Past <=> HasRead(c, e)
    BY <1>1, SameRuns DEF ReadInv, SameHasRead
  <2>1. reader[e][c] \in Past <=> HasRead(c, e)
    BY DEF HostInv, ReadInv
  <2>2. CASE e = k /\ c = b
    BY <1>2, <1>3, <2>1, <2>2 DEF Past
  <2>3. CASE ~(e = k /\ c = b)
    BY <1>2, <1>3, <2>1, <2>3
  <2> QED BY <2>2, <2>3
<1>6. LinkedInv'
  <2> SUFFICES ASSUME NEW r \in runs, Home[r.block] = Watched, NEW d \in Range(r.reads)
               PROVE  reader'[Key(d)][r.block] \in {"redis", "disk"}
    BY <1>1 DEF LinkedInv
  <2>1. reader[Key(d)][r.block] \in {"redis", "disk"}
    BY DEF HostInv, LinkedInv
  <2>2. CASE Key(d) \in WatchedKeys /\ r.block \in Blocks
    BY <1>2, <2>1, <2>2
  <2>3. CASE ~(Key(d) \in WatchedKeys /\ r.block \in Blocks)
    <3>1. reader'[Key(d)][r.block] = reader[Key(d)][r.block]
      BY <2>3 DEF MonitorFacts
    <3> QED BY <2>1, <3>1
  <2> QED BY <2>2, <2>3
<1>7. FilesInv'
  <2> SUFFICES ASSUME NEW e \in DOMAIN prefetch[Watched], prefetch[Watched][e] = "running", NEW c \in Blocks
               PROVE  reader'[e][c] = "idle"
    BY <1>1 DEF HostInv, FilesInv
  <2>1. e \in RemoteKeys \cap kept /\ disk[e] = "partial" /\ \A a \in Blocks : reader[e][a] = "idle"
    BY DEF HostInv, FilesInv
  <2>2. ~(e = k /\ c = b)
    BY <2>1
  <2> QED BY <1>2, <1>3, <2>1, <2>2
<1>8. ValuesInv'
  <2>1. RedisIn(Watched)' = RedisIn(Watched)
    BY <1>1 DEF RedisIn, RedisKeys, IsRedis, Key
  <2> QED BY <1>1, <2>1, SameRuns DEF HostInv, ValuesInv
<1> QED BY <1>4, <1>5, <1>6, <1>7, <1>8 DEF HostInv

LEMMA LinkHost ==
  ASSUME EngineInv, MonitorFacts, HostInv, NEW r \in runs, NEW d \in ReferencesIn(r.block, r.inputs),
         LinkPrefetchData(r, d)
  PROVE  HostInv'
<1>1. Key(d) \in WatchedKeys /\ r.block \in Blocks
  BY ReferenceKept DEF HostInv, LinkPrefetchData
<1>2. PICK v \in {"redis", "disk"} : reader' = [reader EXCEPT ![Key(d)][r.block] = v]
  BY DEF LinkPrefetchData, Monitor!StartReader
<1>3. /\ reader[Key(d)][r.block] = "idle" /\ (Key(d) \in RemoteKeys => disk[Key(d)] = "full")
      /\ UNCHANGED <<redis, disk, kept, cnt>> /\ UNCHANGED vars
  BY DEF LinkPrefetchData, Monitor!StartReader, Monitor!MayStart, Monitor!infoVars, Monitor!fileVars
<1> QED BY <1>1, <1>2, <1>3, ReaderMoves

LEMMA MissHost ==
  ASSUME EngineInv, MonitorFacts, HostInv, NEW r \in runs, MissInRedis(r)
  PROVE  HostInv'
<1> DEFINE d == Head(r.reads)
<1>1. d \in Range(r.reads)
  <2>1. r.reads \in Seq(Range(r.reads))
    BY InRange DEF EngineInv, KInv, ReadsInv, Reads
  <2> QED BY <2>1, RangesAre DEF MissInRedis
<1>2. d \in ReferencesIn(r.block, r.inputs)
  BY <1>1, ReadsAreReferences
<1>3. Key(d) \in WatchedKeys /\ r.block \in Blocks
  BY <1>2, ReferenceKept DEF HostInv, MissInRedis
<1>4. /\ reader' = [reader EXCEPT ![Key(d)][r.block] = "disk"] /\ reader[Key(d)][r.block] = "redis"
      /\ UNCHANGED <<redis, disk, kept, cnt>> /\ UNCHANGED vars
  BY DEF MissInRedis, Monitor!FetchFromRedis, Monitor!infoVars, Monitor!fileVars
<1> HIDE DEF d
<1> QED BY <1>3, <1>4, ReaderMoves

LEMMA PrefetchHost ==
  ASSUME EngineInv, MonitorFacts, HostInv, NEW h \in Hosts, NEW k \in DOMAIN prefetch[h], PrefetchHere(h, k)
  PROVE  HostInv'
<1>1. /\ UNCHANGED <<deps, runs, backlog, queue>> /\ prefetch' = [prefetch EXCEPT ![h][k] = "done"]
      /\ prefetch[h][k] = "running" /\ DOMAIN prefetch = Hosts
  BY DEF PrefetchHere, PrefetchData, inboxVars, EngineInv, KInv, PrefetchInv
<1>2. UNCHANGED <<redis, kept, cnt, reader>>
  BY DEF PrefetchHere, Here, Monitor!Prefetch, Monitor!infoVars, monitorVars
<1>3. KeptInv'
  BY <1>1, <1>2 DEF HostInv, KeptInv
<1>4. ReadInv'
  BY <1>1, <1>2, SameRuns DEF HostInv, ReadInv, SameHasRead
<1>5. LinkedInv'
  BY <1>1, <1>2 DEF HostInv, LinkedInv
<1>6. FilesInv'
  <2>1. CASE h # Watched
    <3>1. prefetch'[Watched] = prefetch[Watched] /\ UNCHANGED disk
      BY <1>1, <2>1, HostAssumption DEF PrefetchHere, Here, monitorVars
    <3> QED BY <1>2, <3>1 DEF HostInv, FilesInv
  <2>2. CASE h = Watched
    <3>1. /\ DOMAIN prefetch'[Watched] = DOMAIN prefetch[Watched] /\ prefetch'[Watched][k] = "done"
          /\ \A e \in DOMAIN prefetch[Watched] : e # k => prefetch'[Watched][e] = prefetch[Watched][e]
      BY <1>1, <2>2, HostAssumption
    <3>2. /\ k \in RemoteKeys /\ disk' = [disk EXCEPT ![k] = "full"]
      BY <2>2 DEF PrefetchHere, Here, Monitor!Prefetch, Monitor!MayPrefetch
    <3>3. k \in WatchedKeys /\ RemoteKeys \subseteq WatchedKeys
      BY <3>2 DEF WatchedKeys
    <3>4. disk'[k] = "full" /\ \A e \in WatchedKeys : e # k => disk'[e] = disk[e]
      BY <3>2, <3>3 DEF MonitorFacts
    <3> SUFFICES ASSUME NEW e \in DOMAIN prefetch[Watched]
                 PROVE  /\ e \in RemoteKeys \cap kept
                        /\ prefetch'[Watched][e] = "running" =>
                             disk'[e] = "partial" /\ \A b \in Blocks : reader[e][b] = "idle"
                        /\ prefetch'[Watched][e] = "done" /\ cnt[e] > 0 => disk'[e] = "full"
      BY <1>2, <3>1 DEF FilesInv
    <3>5. /\ e \in RemoteKeys \cap kept
          /\ prefetch[Watched][e] = "running" => disk[e] = "partial" /\ \A b \in Blocks : reader[e][b] = "idle"
          /\ prefetch[Watched][e] = "done" /\ cnt[e] > 0 => disk[e] = "full"
      BY DEF HostInv, FilesInv
    <3>6. CASE e = k
      BY <3>1, <3>4, <3>5, <3>6
    <3>7. CASE e # k
      BY <3>1, <3>3, <3>4, <3>5, <3>7
    <3> QED BY <3>6, <3>7
  <2> QED BY <2>1, <2>2
<1>7. ValuesInv'
  <2>1. RedisIn(Watched)' = RedisIn(Watched)
    BY <1>1 DEF RedisIn, RedisKeys, IsRedis, Key
  <2> QED BY <1>1, <1>2, <2>1, SameRuns DEF HostInv, ValuesInv
<1> QED BY <1>3, <1>4, <1>5, <1>6, <1>7 DEF HostInv

(* A run reads each of its references once, and no other run does.         *)
LEMMA NotReadYet ==
  ASSUME \A b \in Blocks : ItemsAlone(b), EngineInv, NEW r \in runs, NEW d \in ReferencesIn(r.block, r.inputs),
         r.state = "queued" \/ d \in Range(r.reads)
  PROVE  ~HasRead(r.block, Key(d))
<1> SUFFICES ASSUME NEW s \in runs, s.req = Key(d)[1], s.block = r.block, ReadBy(s, Key(d)) PROVE FALSE
  BY HasReadIs
<1>1. d.req = r.req
  BY ReferenceRegistered DEF EngineInv, KInv
<1>2. PICK e \in ReferencesIn(s.block, s.inputs) : Key(e) = Key(d)
  BY DEF ReadBy
<1>3. s.req = r.req
  BY <1>1 DEF Key
<1>4. r = s
  BY <1>2, <1>3, OneReader DEF EngineInv, KInv
<1> QED BY <1>4 DEF ReadBy

LEMMA StartHost ==
  ASSUME \A b \in Blocks : ItemsAlone(b), EngineInv, MonitorFacts, HostInv, NEW r \in runs, StartHere(r),
         Sent \subseteq Sent'
  PROVE  HostInv'
<1>1. StartRun(r) /\ UNCHANGED <<redis, disk, kept, cnt, reader>>
  BY DEF StartHere, monitorVars
<1>2. SameHasRead /\ UNCHANGED <<deps, prefetch, queue>>
  BY <1>1, QuietRunStep
<1>3. UNCHANGED backlog
  BY <1>1 DEF StartRun, inboxVars
<1>4. RunInv /\ Indexed(r.block, r.inputs) /\ DOMAIN r.inputs = DOMAIN Inputs[r.block]
  BY WholeIndexed DEF EngineInv, IInv, Inv, WholeInv, RunsComplete
<1>5. PICK r2 : Become(r, r2) /\ r2.block = r.block /\ Range(r2.reads) = ReferencesIn(r.block, r.inputs)
  BY <1>1, <1>4, StartRunReads
<1>6. r.state = "queued"
  BY <1>1, <1>4, StartRunReads
<1>7. KeptInv'
  BY <1>1, <1>2 DEF HostInv, KeptInv
<1>8. ReadInv'
  BY <1>1, <1>2 DEF HostInv, ReadInv, SameHasRead
<1>9. LinkedInv'
  <2>1. ASSUME Home[r.block] = Watched, NEW d \in ReferencesIn(r.block, r.inputs)
        PROVE  reader[Key(d)][r.block] \in {"redis", "disk"}
    <3>1. reader[Key(d)][r.block] # "idle"
      BY <2>1 DEF StartHere, Linked
    <3>2. Key(d) \in kept /\ Key(d) \in WatchedKeys /\ r.block \in Blocks /\ r.block \in BlocksAt(Key(d)[2], Watched)
      BY <2>1, ReferenceKept DEF HostInv
    <3>3. ~HasRead(r.block, Key(d))
      BY <1>6, <2>1, NotReadYet
    <3>4. reader[Key(d)][r.block] \notin Past
      BY <3>2, <3>3 DEF HostInv, ReadInv
    <3>5. reader[Key(d)][r.block] \in {"idle", "redis", "disk", "fetched", "lost", "done"}
      BY <3>2 DEF MonitorFacts
    <3> QED BY <3>1, <3>4, <3>5 DEF Past
  <2>2. \A s \in runs' : s \in runs \/ s = r2
    BY <1>5 DEF Become
  <2> SUFFICES ASSUME NEW s \in runs', Home[s.block] = Watched, NEW d \in Range(s.reads)
               PROVE  reader[Key(d)][s.block] \in {"redis", "disk"}
    BY <1>1 DEF LinkedInv
  <2>3. CASE s \in runs
    BY <2>3 DEF HostInv, LinkedInv
  <2>4. CASE s = r2
    BY <1>5, <2>1, <2>4
  <2> QED BY <2>2, <2>3, <2>4
<1>10. FilesInv'
  BY <1>1, <1>2 DEF HostInv, FilesInv
<1>11. ValuesInv'
  <2>1. RedisIn(Watched)' = RedisIn(Watched)
    BY <1>2, <1>3 DEF RedisIn, RedisKeys, IsRedis, Key
  <2> QED BY <1>1, <2>1 DEF HostInv, ValuesInv
<1> QED BY <1>7, <1>8, <1>9, <1>10, <1>11 DEF HostInv

LEMMA PostHost ==
  ASSUME EngineInv, MonitorFacts, HostInv, NEW r \in runs, PostHere(r), Sent \subseteq Sent'
  PROVE  HostInv'
<1> DEFINE k == Key(NextDatum(r, "redis"))
           Puts == NextDatum(r, "redis") \in Range(backlog'[Watched]) /\ Home[r.block] = Watched
<1>1. Post(r) /\ IInv /\ RunInv /\ RunStep(r)
  BY DEF PostHere, EngineInv, IInv, Inv, RunStep
<1>2. UNCHANGED <<disk, kept, cnt, reader>> /\ redis' = IF Puts THEN redis \cup {k} ELSE redis
  <2>1. IF Puts THEN Monitor!PutToRedis(k) ELSE UNCHANGED monitorVars
    BY DEF PostHere
  <2> HIDE DEF k, Puts
  <2> QED BY <2>1 DEF Monitor!PutToRedis, Monitor!infoVars, Monitor!fileVars, monitorVars
<1>3. SameHasRead /\ UNCHANGED <<deps, prefetch, queue>>
  BY <1>1, QuietRunStep
<1>4. ReadsAsBefore
  BY <1>1, RunReads
<1>5. k \in Sent'
  BY <1>1, PostSends
<1>6. RedisIn(Watched)' \subseteq RedisIn(Watched) \/ (Puts /\ RedisIn(Watched)' \subseteq RedisIn(Watched) \cup {k})
  BY <1>1, RunAnnounces, HostAssumption
<1> HIDE DEF k, Puts
<1>7. KeptInv'
  BY <1>2, <1>3 DEF HostInv, KeptInv
<1>8. ReadInv'
  BY <1>2, <1>3 DEF HostInv, ReadInv, SameHasRead
<1>9. LinkedInv'
  BY <1>2, <1>4 DEF HostInv, LinkedInv, ReadsAsBefore
<1>10. FilesInv'
  BY <1>2, <1>3 DEF HostInv, FilesInv
<1>11. ValuesInv'
  BY <1>2, <1>5, <1>6 DEF HostInv, ValuesInv
<1> QED BY <1>7, <1>8, <1>9, <1>10, <1>11 DEF HostInv

(* No other read of the host, of this run or another, is of the key fetched. *)
LEMMA FetchedAlone ==
  ASSUME \A b \in Blocks : ItemsAlone(b), EngineInv, NEW r \in runs, Fetch(r)
  PROVE  /\ Head(r.reads) \in Range(r.reads) /\ Range(r.reads) = Range(Tail(r.reads)) \cup {Head(r.reads)}
         /\ \E r2 : Become(r, r2) /\ r2.block = r.block /\ r2.reads = Tail(r.reads)
         /\ \A d \in Range(Tail(r.reads)) : Key(d) # Key(Head(r.reads))
         /\ \A s \in runs : s # r /\ s.block = r.block => \A d \in Range(s.reads) : Key(d) # Key(Head(r.reads))
<1> DEFINE e == Head(r.reads)
<1>1. Inv /\ Reads(r)
  BY DEF EngineInv, IInv, KInv, ReadsInv
<1>2. /\ r.reads # <<>>
      /\ \E r2 : Become(r, r2) /\ r2.block = r.block /\ r2.reads = Tail(r.reads)
  BY <1>1, FetchStep DEF Follows
<1>3. /\ e \in ReferencesIn(r.block, r.inputs) /\ Range(r.reads) = Range(Tail(r.reads)) \cup {e}
      /\ e \notin Range(Tail(r.reads))
  BY <1>1, <1>2, TailOnce DEF Reads
<1>4. e.req = r.req /\ \A d \in ReferencesIn(r.block, r.inputs) : Key(e) = Key(d) => e = d
  BY <1>3, ReferenceRegistered DEF EngineInv, KInv
<1> HIDE DEF e
<1>5. \A d \in Range(Tail(r.reads)) : Key(d) # Key(e)
  BY <1>3, <1>4, ReadsAreReferences
<1>6. ASSUME NEW s \in runs, s # r, s.block = r.block, NEW d \in Range(s.reads), Key(d) = Key(e) PROVE FALSE
  <2>1. d \in ReferencesIn(s.block, s.inputs)
    BY ReadsAreReferences
  <2>2. d.req = s.req
    BY <2>1, ReferenceRegistered DEF EngineInv, KInv
  <2>3. s.req = r.req
    BY <1>4, <1>6, <2>2 DEF Key
  <2>4. r = s
    BY <1>3, <1>6, <2>1, <2>3, OneReader DEF EngineInv, KInv
  <2> QED BY <1>6, <2>4
<1> QED BY <1>2, <1>3, <1>5, <1>6 DEF e

LEMMA FetchHost ==
  ASSUME \A b \in Blocks : ItemsAlone(b), EngineInv, MonitorFacts, HostInv, NEW r \in runs, FetchHere(r),
         Sent \subseteq Sent'
  PROVE  HostInv'
<1>0. PICK k : k = Key(Head(r.reads))
  OBVIOUS
<1>1. Fetch(r) /\ Inv /\ IInv /\ Reads(r)
  BY DEF FetchHere, EngineInv, IInv, KInv, ReadsInv
<1>2. UNCHANGED <<queue, deps, prefetch>> /\ Send(Home[r.block], Report(r, Head(r.reads)))
  BY <1>1, FetchStep
<1>3. \A b, e : HasRead(b, e)' <=> HasRead(b, e) \/ (b = r.block /\ e = k)
  BY <1>0, <1>1, FetchReads DEF EngineInv, KInv
<1>4. PICK r2 : Become(r, r2) /\ r2.block = r.block /\ r2.reads = Tail(r.reads)
  BY <1>1, FetchedAlone
<1>5. UNCHANGED <<redis, disk, kept, cnt>>
  BY DEF FetchHere, Here, monitorVars, Monitor!FetchFromDisk, Monitor!FetchFromRedis, Monitor!infoVars, Monitor!fileVars
<1>6. KeptInv'
  BY <1>2, <1>5 DEF HostInv, KeptInv
<1>7. ValuesInv'
  <2>1. ~IsRedis(Report(r, Head(r.reads)))
    BY DEF IsRedis, Report, Datum
  <2>2. RedisIn(Watched)' \subseteq RedisIn(Watched)
    BY <1>1, <1>2, <2>1, OtherSent, HostAssumption
  <2> QED BY <1>5, <2>2 DEF HostInv, ValuesInv
<1>8. \A s \in runs' : s = r2 \/ (s \in runs /\ s # r)
  <2>1. runs' = (runs \ {r}) \cup {r2}
    BY <1>4 DEF Become
  <2> QED BY <2>1
<1>9. CASE Home[r.block] # Watched
  <2>1. UNCHANGED reader
    BY <1>9 DEF FetchHere, Here, monitorVars
  <2>2. \A e : r.block \notin BlocksAt(e[2], Watched)
    BY <1>9 DEF BlocksAt
  <2>3. ReadInv'
    <3>1. \A e : \A b \in BlocksAt(e[2], Watched) : HasRead(b, e)' <=> HasRead(b, e)
      BY <1>3, <2>2
    <3> QED BY <1>5, <2>1, <3>1 DEF HostInv, ReadInv
  <2>4. LinkedInv'
    BY <1>4, <1>8, <1>9, <2>1 DEF HostInv, LinkedInv
  <2>5. FilesInv'
    BY <1>2, <1>5, <2>1 DEF HostInv, FilesInv
  <2> QED BY <1>6, <1>7, <2>3, <2>4, <2>5 DEF HostInv
<1>10. CASE Home[r.block] = Watched
  <2>1. /\ Head(r.reads) \in Range(r.reads) /\ Range(r.reads) = Range(Tail(r.reads)) \cup {Head(r.reads)}
        /\ \A d \in Range(Tail(r.reads)) : Key(d) # k
        /\ \A s \in runs : s # r /\ s.block = r.block => \A d \in Range(s.reads) : Key(d) # k
    BY <1>0, <1>1, FetchedAlone
  <2>2. k \in kept /\ k \in WatchedKeys /\ r.block \in Blocks /\ r.block \in BlocksAt(k[2], Watched)
    BY <1>0, <1>10, <2>1, ReadsAreReferences, ReferenceKept DEF HostInv
  <2>3. reader[k][r.block] \in {"redis", "disk"}
    BY <1>0, <1>10, <2>1 DEF HostInv, LinkedInv
  <2>4. PICK v \in {"fetched", "lost"} : reader' = [reader EXCEPT ![k][r.block] = v]
    BY <1>0, <1>10 DEF FetchHere, Here, Monitor!FetchFromDisk, Monitor!FetchFromRedis
  <2>5. \A e \in WatchedKeys, c \in Blocks :
          reader'[e][c] = IF e = k /\ c = r.block THEN v ELSE reader[e][c]
    BY <2>4 DEF MonitorFacts
  <2>6. kept \subseteq WatchedKeys /\ \A e : BlocksAt(e[2], Watched) \subseteq Blocks
    BY DEF MonitorFacts, BlocksAt
  <2>7. ReadInv'
    <3> SUFFICES ASSUME NEW e \in kept, NEW c \in BlocksAt(e[2], Watched)
                 PROVE  reader'[e][c] \in Past <=> HasRead(c, e)'
      BY <1>5 DEF ReadInv
    <3>1. reader[e][c] \in Past <=> HasRead(c, e)
      BY DEF HostInv, ReadInv
    <3>2. CASE e = k /\ c = r.block
      BY <1>3, <2>2, <2>5, <3>2 DEF Past
    <3>3. CASE ~(e = k /\ c = r.block)
      <4>1. HasRead(c, e)' <=> HasRead(c, e)
        BY <1>3, <3>3
      <4> QED BY <2>5, <2>6, <3>1, <3>3, <4>1
    <3> QED BY <3>2, <3>3
  <2>8. LinkedInv'
    <3>1. ASSUME NEW s \in runs, Home[s.block] = Watched, NEW d \in Range(s.reads),
                 ~(s.block = r.block /\ Key(d) = k)
          PROVE  reader'[Key(d)][s.block] \in {"redis", "disk"}
      <4>1. reader[Key(d)][s.block] \in {"redis", "disk"}
        BY <3>1 DEF HostInv, LinkedInv
      <4>2. Key(d) \in WatchedKeys /\ s.block \in Blocks
        BY <3>1, ReadsAreReferences, ReferenceKept DEF HostInv
      <4> QED BY <2>5, <3>1, <4>1, <4>2
    <3> SUFFICES ASSUME NEW s \in runs', Home[s.block] = Watched, NEW d \in Range(s.reads)
                 PROVE  reader'[Key(d)][s.block] \in {"redis", "disk"}
      BY DEF LinkedInv
    <3>2. CASE s \in runs /\ s # r
      BY <2>1, <3>1, <3>2
    <3>3. CASE s = r2
      <4>1. d \in Range(Tail(r.reads)) /\ s.block = r.block
        BY <1>4, <3>3
      <4>2. d \in Range(r.reads) /\ Key(d) # k
        BY <2>1, <4>1
      <4> QED BY <1>10, <3>1, <4>1, <4>2
    <3> QED BY <1>8, <3>2, <3>3
  <2>9. FilesInv'
    <3> SUFFICES ASSUME NEW e \in DOMAIN prefetch[Watched], prefetch[Watched][e] = "running", NEW c \in Blocks
                 PROVE  reader'[e][c] = "idle"
      BY <1>2, <1>5 DEF HostInv, FilesInv
    <3>1. e \in RemoteKeys \cap kept /\ \A a \in Blocks : reader[e][a] = "idle"
      BY DEF HostInv, FilesInv
    <3>2. ~(e = k /\ c = r.block)
      BY <2>3, <3>1
    <3> QED BY <2>5, <2>6, <3>1, <3>2
  <2> QED BY <1>6, <1>7, <2>7, <2>8, <2>9 DEF HostInv
<1> QED BY <1>9, <1>10

(* The host registers a key that nobody has read.                          *)
LEMMA RegisterHost ==
  ASSUME EngineInv, MonitorFacts, HostInv, NEW d, d = Head(queue[Watched]), queue[Watched] # <<>>,
         d.kind = "redis" \/ (d.kind = "kafka" /\ ~d.fromLocal), NEW k \in WatchedKeys \ kept, k = Key(d),
         kept' = kept \cup {k}, cnt' = [cnt EXCEPT ![k] = Cardinality(ReadersOf[k])],
         deps' = [deps EXCEPT ![Watched] = With(@, Key(d), Counted(Watched, d))],
         UNCHANGED <<runs, reader>>
  PROVE  /\ KeptInv' /\ ReadInv' /\ LinkedInv'
         /\ \A e \in kept : cnt'[e] = cnt[e]
         /\ \A b \in Blocks : reader[k][b] = "idle"
<1>1. /\ k[2] = d.out /\ ReadersOf[k] = BlocksAt(d.out, Watched)
  BY ReadersAre DEF Key
<1>2. cnt'[k] = Cardinality(BlocksAt(d.out, Watched)) /\ \A e \in WatchedKeys : e # k => cnt'[e] = cnt[e]
  BY <1>1 DEF MonitorFacts
<1>3. /\ DOMAIN deps'[Watched] = DOMAIN deps[Watched] \cup {k}
      /\ \A e \in DOMAIN deps'[Watched] :
           deps'[Watched][e] = IF e = k THEN Cardinality(BlocksAt(d.out, Watched)) ELSE deps[Watched][e]
  <2>1. DOMAIN deps = Hosts
    BY DEF EngineInv, IInv, DeliveryInv, AheadInv, KeysInv
  <2>2. deps'[Watched] = With(deps[Watched], k, Cardinality(BlocksAt(d.out, Watched)))
    BY <2>1, HostAssumption DEF Counted
  <2> QED BY <2>2 DEF With
<1>4. kept \subseteq WatchedKeys /\ kept = DOMAIN deps[Watched] /\ \A e \in kept : cnt[e] = deps[Watched][e]
  BY DEF HostInv, KeptInv, MonitorFacts
<1>5. KeptInv'
  BY <1>2, <1>3, <1>4 DEF KeptInv
<1>6. \A b \in Blocks : reader[k][b] = "idle"
  BY DEF MonitorFacts
<1>7. \A b \in BlocksAt(k[2], Watched) : ~HasRead(b, k)
  <2>1. Missing(Watched, k) = BlocksAt(d.out, Watched)
    BY NewKeyUnread, HostAssumption DEF EngineInv, KInv
  <2> QED BY <1>1, <2>1 DEF Missing
<1>8. ReadInv'
  <2> SUFFICES ASSUME NEW e \in kept \cup {k}, NEW b \in BlocksAt(e[2], Watched)
               PROVE  reader[e][b] \in Past <=> HasRead(b, e)
    BY SameRuns DEF ReadInv, SameHasRead
  <2>1. CASE e \in kept
    BY <2>1 DEF HostInv, ReadInv
  <2>2. CASE e = k
    <3>1. b \in Blocks
      BY DEF BlocksAt
    <3> QED BY <1>6, <1>7, <2>2, <3>1 DEF Past
  <2> QED BY <2>1, <2>2
<1>9. LinkedInv'
  BY DEF HostInv, LinkedInv
<1>10. \A e \in kept : cnt'[e] = cnt[e]
  BY <1>2, <1>4
<1> QED BY <1>5, <1>6, <1>8, <1>9, <1>10

LEMMA DispatchHost ==
  ASSUME EngineInv, MonitorFacts, HostInv, NEW h \in Hosts, DispatchHere(h), Sent \subseteq Sent'
  PROVE  HostInv'
<1>0. PICK d : d = Head(queue[h])
  OBVIOUS
<1> DEFINE New == d.kind = "redis" \/ (d.kind = "kafka" /\ ~d.fromLocal)
<1>1. Dispatch(h) /\ Inv
  BY DEF DispatchHere, EngineInv, IInv
<1>2. /\ queue[h] # <<>> /\ UNCHANGED runs
      /\ deps' = IF New THEN [deps EXCEPT ![h] = With(@, Key(d), Counted(h, d))] ELSE deps
      /\ prefetch' = IF New /\ d.kind = "kafka" /\ Key(d) \notin DOMAIN prefetch[h]
                     THEN [prefetch EXCEPT ![h] = With(@, Key(d), "running")] ELSE prefetch
  BY <1>0, <1>1 DEF Dispatch
<1>3. RedisIn(Watched)' \subseteq RedisIn(Watched)
  BY <1>1, TakesNext, HostAssumption
<1>4. ASSUME UNCHANGED redis PROVE ValuesInv'
  BY <1>3, <1>4 DEF HostInv, ValuesInv
<1>5. DOMAIN prefetch = Hosts /\ DOMAIN deps = Hosts
  BY DEF EngineInv, KInv, PrefetchInv, IInv, DeliveryInv, AheadInv, KeysInv
<1>6. ASSUME UNCHANGED monitorVars, deps'[Watched] = deps[Watched], prefetch'[Watched] = prefetch[Watched]
      PROVE  HostInv'
  <2>1. UNCHANGED <<redis, disk, kept, cnt, reader>>
    BY <1>6 DEF monitorVars
  <2>2. KeptInv'
    BY <1>6, <2>1 DEF HostInv, KeptInv
  <2>3. ReadInv'
    BY <1>2, <2>1, SameRuns DEF HostInv, ReadInv, SameHasRead
  <2>4. LinkedInv'
    BY <1>2, <2>1 DEF HostInv, LinkedInv
  <2>5. FilesInv'
    BY <1>6, <2>1 DEF HostInv, FilesInv
  <2> QED BY <1>4, <2>1, <2>2, <2>3, <2>4, <2>5 DEF HostInv
<1>7. CASE h # Watched
  <2>1. deps'[Watched] = deps[Watched] /\ prefetch'[Watched] = prefetch[Watched]
    BY <1>2, <1>5, <1>7
  <2> QED BY <1>6, <1>7, <2>1 DEF DispatchHere, Here
<1>8. CASE h = Watched /\ ~New
  <2>1. UNCHANGED monitorVars
    BY <1>0, <1>8 DEF DispatchHere, Here
  <2> QED BY <1>2, <1>6, <1>8, <2>1
<1>9. CASE h = Watched /\ New /\ d.kind = "redis"
  <2>1. PICK k : k = Key(d)
    OBVIOUS
  <2>2. Monitor!AddRedisKey(k)
    BY <1>0, <1>9, <2>1 DEF DispatchHere, Here
  <2>3. /\ k \in LocalKeys /\ k \notin kept /\ kept' = kept \cup {k}
        /\ cnt' = [cnt EXCEPT ![k] = Cardinality(ReadersOf[k])] /\ UNCHANGED <<redis, disk, reader>>
    BY <2>2, SameFinite DEF Monitor!AddRedisKey, Monitor!MayAddRedisKey, Monitor!fileVars
  <2>4. k \in WatchedKeys \ kept
    BY <2>3 DEF WatchedKeys
  <2>5. deps' = [deps EXCEPT ![Watched] = With(@, Key(d), Counted(Watched, d))] /\ UNCHANGED prefetch
    BY <1>2, <1>9
  <2>6. KeptInv' /\ ReadInv' /\ LinkedInv' /\ \A e \in kept : cnt'[e] = cnt[e]
    BY <1>0, <1>2, <1>9, <2>1, <2>3, <2>4, <2>5, RegisterHost
  <2>7. FilesInv'
    BY <2>3, <2>5, <2>6 DEF HostInv, FilesInv
  <2> QED BY <1>4, <2>3, <2>6, <2>7 DEF HostInv
<1>10. CASE h = Watched /\ d.kind = "kafka" /\ ~d.fromLocal
  <2>1. PICK k : k = Key(d)
    OBVIOUS
  <2>2. Monitor!AddDiskKey(k)
    BY <1>0, <1>10, <2>1 DEF DispatchHere, Here
  <2>3. /\ k \in RemoteKeys /\ k \notin kept /\ kept' = kept \cup {k}
        /\ cnt' = [cnt EXCEPT ![k] = Cardinality(ReadersOf[k])] /\ UNCHANGED <<redis, reader>>
        /\ disk' = [disk EXCEPT ![k] = "partial"]
    BY <2>2, SameFinite DEF Monitor!AddDiskKey, Monitor!MayAddDiskKey
  <2>4. k \in WatchedKeys \ kept
    BY <2>3 DEF WatchedKeys
  <2>5. deps' = [deps EXCEPT ![Watched] = With(@, Key(d), Counted(Watched, d))]
    BY <1>2, <1>10
  <2>6. /\ KeptInv' /\ ReadInv' /\ LinkedInv' /\ \A e \in kept : cnt'[e] = cnt[e]
        /\ \A b \in Blocks : reader[k][b] = "idle"
    BY <1>0, <1>2, <1>10, <2>1, <2>3, <2>4, <2>5, RegisterHost
  <2>7. k \notin DOMAIN prefetch[Watched]
    BY <2>3 DEF HostInv, FilesInv
  <2>8. prefetch'[Watched] = With(prefetch[Watched], k, "running")
    BY <1>2, <1>5, <1>10, <2>1, <2>7
  <2>9. /\ DOMAIN prefetch'[Watched] = DOMAIN prefetch[Watched] \cup {k} /\ prefetch'[Watched][k] = "running"
        /\ \A e \in DOMAIN prefetch[Watched] : prefetch'[Watched][e] = prefetch[Watched][e]
    BY <2>7, <2>8 DEF With
  <2>10. disk'[k] = "partial" /\ \A e \in WatchedKeys : e # k => disk'[e] = disk[e]
    BY <2>3, <2>4 DEF MonitorFacts
  <2>11. FilesInv'
    <3> SUFFICES ASSUME NEW e \in DOMAIN prefetch'[Watched]
                 PROVE  /\ e \in RemoteKeys \cap kept'
                        /\ prefetch'[Watched][e] = "running" =>
                             disk'[e] = "partial" /\ \A b \in Blocks : reader'[e][b] = "idle"
                        /\ prefetch'[Watched][e] = "done" /\ cnt'[e] > 0 => disk'[e] = "full"
      BY DEF FilesInv
    <3>1. CASE e = k
      BY <2>3, <2>6, <2>9, <2>10, <3>1
    <3>2. CASE e # k
      <4>1. e \in DOMAIN prefetch[Watched]
        BY <2>9, <3>2
      <4>2. /\ e \in RemoteKeys \cap kept
            /\ prefetch[Watched][e] = "running" => disk[e] = "partial" /\ \A b \in Blocks : reader[e][b] = "idle"
            /\ prefetch[Watched][e] = "done" /\ cnt[e] > 0 => disk[e] = "full"
        BY <4>1 DEF HostInv, FilesInv
      <4>3. disk'[e] = disk[e] /\ cnt'[e] = cnt[e] /\ prefetch'[Watched][e] = prefetch[Watched][e]
        BY <2>6, <2>9, <2>10, <3>2, <4>1, <4>2 DEF WatchedKeys
      <4> QED BY <2>3, <4>2, <4>3
    <3> QED BY <3>1, <3>2
  <2> QED BY <1>4, <2>3, <2>6, <2>11 DEF HostInv
<1> QED BY <1>7, <1>8, <1>9, <1>10

LEMMA ReportHost ==
  ASSUME EngineInv, MonitorFacts, HostInv, NEW h \in Hosts, ReportHere(h), Sent \subseteq Sent'
  PROVE  HostInv'
<1>0. PICK k : k = Key(Head(queue[h]))
  OBVIOUS
<1>1. DispatchFetched(h) /\ Inv
  BY DEF ReportHere, EngineInv, IInv
<1>2. /\ queue[h] # <<>> /\ Head(queue[h]).kind = "fetched" /\ UNCHANGED <<runs, prefetch>>
      /\ deps' = [deps EXCEPT ![h][k] = @ - 1]
  BY <1>0, <1>1 DEF DispatchFetched
<1>3. DOMAIN deps = Hosts
  BY DEF EngineInv, IInv, DeliveryInv, AheadInv, KeysInv
<1>4. UNCHANGED <<redis, disk, kept>>
  BY DEF ReportHere, Here, monitorVars, Monitor!DecreaseKeyDependencies
<1>5. ValuesInv'
  <2>1. RedisIn(Watched)' \subseteq RedisIn(Watched)
    BY <1>1, TakesNext, HostAssumption
  <2> QED BY <1>4, <2>1 DEF HostInv, ValuesInv
<1>6. CASE h # Watched
  <2>1. UNCHANGED <<cnt, reader>> /\ deps'[Watched] = deps[Watched]
    BY <1>2, <1>3, <1>6, HostAssumption DEF ReportHere, Here, monitorVars
  <2>2. KeptInv'
    BY <1>4, <2>1 DEF HostInv, KeptInv
  <2>3. ReadInv'
    BY <1>2, <1>4, <2>1, SameRuns DEF HostInv, ReadInv, SameHasRead
  <2>4. LinkedInv'
    BY <1>2, <2>1 DEF HostInv, LinkedInv
  <2>5. FilesInv'
    BY <1>2, <1>4, <2>1 DEF HostInv, FilesInv
  <2> QED BY <1>5, <2>2, <2>3, <2>4, <2>5 DEF HostInv
<1>7. CASE h = Watched
  <2>1. PICK b \in Blocks : Monitor!DecreaseKeyDependencies(k, b)
    BY <1>0, <1>7 DEF ReportHere, Here
  <2>2. /\ reader[k][b] \in {"fetched", "lost"} /\ reader' = [reader EXCEPT ![k][b] = "done"]
        /\ cnt' = [cnt EXCEPT ![k] = @ - 1]
    BY <2>1 DEF Monitor!DecreaseKeyDependencies, Monitor!MayReport
  <2>3. k \in DOMAIN deps[Watched]
    <3>1. queue[h] \in Seq(Range(queue[h]))
      BY <1>1, InboxTypes
    <3>2. Head(queue[h]) \in Range(queue[h])
      BY <1>2, <3>1, RangesAre
    <3> QED BY <1>0, <1>2, <1>7, <3>2 DEF EngineInv, KInv, CountsInv, ReportsInv, Reported
  <2>4. kept = DOMAIN deps[Watched] /\ kept \subseteq WatchedKeys /\ k \in kept
    BY <2>3 DEF HostInv, KeptInv, MonitorFacts
  <2>5. \A e \in WatchedKeys, c \in Blocks :
          reader'[e][c] = IF e = k /\ c = b THEN "done" ELSE reader[e][c]
    BY <2>2 DEF MonitorFacts
  <2>6. \A e \in WatchedKeys : cnt'[e] = IF e = k THEN cnt[e] - 1 ELSE cnt[e]
    BY <2>2 DEF MonitorFacts
  <2>7. /\ DOMAIN deps'[Watched] = DOMAIN deps[Watched]
        /\ \A e \in kept : deps'[Watched][e] = IF e = k THEN deps[Watched][e] - 1 ELSE deps[Watched][e]
    BY <1>2, <1>3, <1>7, <2>4
  <2>8. KeptInv'
    BY <1>4, <2>4, <2>6, <2>7 DEF HostInv, KeptInv
  <2>9. ReadInv'
    <3> SUFFICES ASSUME NEW e \in kept, NEW c \in BlocksAt(e[2], Watched)
                 PROVE  reader'[e][c] \in Past <=> HasRead(c, e)
      BY <1>2, <1>4, SameRuns DEF ReadInv, SameHasRead
    <3>1. reader[e][c] \in Past <=> HasRead(c, e)
      BY DEF HostInv, ReadInv
    <3>2. e \in WatchedKeys /\ c \in Blocks
      BY <2>4 DEF BlocksAt
    <3> QED BY <2>2, <2>5, <3>1, <3>2 DEF Past
  <2>10. LinkedInv'
    <3> SUFFICES ASSUME NEW r \in runs, Home[r.block] = Watched, NEW d \in Range(r.reads)
                 PROVE  reader'[Key(d)][r.block] \in {"redis", "disk"}
      BY <1>2 DEF LinkedInv
    <3>1. reader[Key(d)][r.block] \in {"redis", "disk"}
      BY DEF HostInv, LinkedInv
    <3>2. Key(d) \in WatchedKeys /\ r.block \in Blocks
      BY ReadsAreReferences, ReferenceKept DEF HostInv
    <3> QED BY <2>2, <2>5, <3>1, <3>2
  <2>11. FilesInv'
    <3> SUFFICES ASSUME NEW e \in DOMAIN prefetch[Watched]
                 PROVE  /\ e \in RemoteKeys \cap kept
                        /\ prefetch[Watched][e] = "running" =>
                             disk[e] = "partial" /\ \A c \in Blocks : reader'[e][c] = "idle"
                        /\ prefetch[Watched][e] = "done" /\ cnt'[e] > 0 => disk[e] = "full"
      BY <1>2, <1>4 DEF FilesInv
    <3>1. /\ e \in RemoteKeys \cap kept
          /\ prefetch[Watched][e] = "running" => disk[e] = "partial" /\ \A c \in Blocks : reader[e][c] = "idle"
          /\ prefetch[Watched][e] = "done" /\ cnt[e] > 0 => disk[e] = "full"
      BY DEF HostInv, FilesInv
    <3>2. e \in WatchedKeys
      BY <2>4, <3>1
    <3>3. prefetch[Watched][e] = "running" => \A c \in Blocks : reader'[e][c] = "idle"
      BY <2>2, <2>5, <3>1, <3>2
    <3>4. cnt'[e] > 0 => cnt[e] > 0
      <4>1. cnt[e] \in Nat
        BY <3>2 DEF MonitorFacts
      <4> QED BY <2>6, <3>2, <4>1
    <3> QED BY <3>1, <3>3, <3>4
  <2> QED BY <1>5, <2>8, <2>9, <2>10, <2>11 DEF HostInv
<1> QED BY <1>6, <1>7

-----------------------------------------------------------------------------
(* Every step of the host is one of its monitor, or leaves that alone      *)

LEMMA JointMonitor ==
  ASSUME EngineInv, MonitorFacts, HostInv, Joint
  PROVE  Monitor!Next \/ UNCHANGED monitorVars
<1>1. Monitor!Keys = WatchedKeys
  BY DEF Monitor!Keys, WatchedKeys
<1>2. ASSUME NEW h \in Hosts, DispatchHere(h) PROVE Monitor!Next \/ UNCHANGED monitorVars
  <2>1. PICK k : Monitor!AddRedisKey(k) \/ Monitor!AddDiskKey(k) \/ UNCHANGED monitorVars
    BY <1>2 DEF DispatchHere, Here
  <2>2. Monitor!AddRedisKey(k) \/ Monitor!AddDiskKey(k) => k \in WatchedKeys
    BY DEF Monitor!AddRedisKey, Monitor!AddDiskKey, Monitor!MayAddRedisKey, Monitor!MayAddDiskKey, WatchedKeys
  <2> QED BY <1>1, <2>1, <2>2 DEF Monitor!Next, Monitor!Monitor
<1>3. ASSUME NEW h \in Hosts, ReportHere(h) PROVE Monitor!Next \/ UNCHANGED monitorVars
  <2>1. CASE h # Watched
    BY <1>3, <2>1 DEF ReportHere, Here
  <2>2. CASE h = Watched
    <3>1. PICK k : k = Key(Head(queue[h]))
      OBVIOUS
    <3>2. \E b \in Blocks : Monitor!DecreaseKeyDependencies(k, b)
      BY <1>3, <2>2, <3>1 DEF ReportHere, Here
    <3>3. k \in kept
      <4>1. queue[h] \in Seq(Range(queue[h])) /\ queue[h] # <<>> /\ Head(queue[h]).kind = "fetched"
        BY <1>3, InboxTypes DEF ReportHere, DispatchFetched, EngineInv, IInv
      <4>2. Head(queue[h]) \in Range(queue[h])
        BY <4>1, RangesAre
      <4> QED BY <2>2, <3>1, <4>1, <4>2
              DEF EngineInv, KInv, CountsInv, ReportsInv, Reported, HostInv, KeptInv
    <3>4. k \in WatchedKeys
      BY <3>3 DEF MonitorFacts
    <3> QED BY <1>1, <3>2, <3>4 DEF Monitor!Next, Monitor!Reading
  <2> QED BY <2>1, <2>2
<1>4. ASSUME NEW h \in Hosts, NEW k, PrefetchHere(h, k) PROVE Monitor!Next \/ UNCHANGED monitorVars
  <2>1. Monitor!Prefetch(k) \/ UNCHANGED monitorVars
    BY <1>4 DEF PrefetchHere, Here
  <2>2. Monitor!Prefetch(k) => k \in WatchedKeys
    BY DEF Monitor!Prefetch, Monitor!MayPrefetch, WatchedKeys
  <2> QED BY <1>1, <2>1, <2>2 DEF Monitor!Next, Monitor!Monitor
<1>5. ASSUME NEW r \in runs, PostHere(r) PROVE Monitor!Next \/ UNCHANGED monitorVars
  <2>1. PICK k : Monitor!PutToRedis(k) \/ UNCHANGED monitorVars
    BY <1>5 DEF PostHere
  <2>2. Monitor!PutToRedis(k) => k \in WatchedKeys
    BY DEF Monitor!PutToRedis, Monitor!MayPut, WatchedKeys
  <2> QED BY <1>1, <2>1, <2>2 DEF Monitor!Next
<1>6. ASSUME NEW r \in runs, StartHere(r) PROVE UNCHANGED monitorVars
  BY <1>6 DEF StartHere
<1>7. ASSUME NEW r \in runs, NEW d \in ReferencesIn(r.block, r.inputs), Home[r.block] = Watched
      PROVE  Key(d) \in Monitor!Keys /\ r.block \in Blocks
  BY <1>1, <1>7, ReferenceKept DEF HostInv
<1>8. ASSUME NEW r \in runs, Home[r.block] = Watched, r.reads # <<>>
      PROVE  Key(Head(r.reads)) \in Monitor!Keys /\ r.block \in Blocks
  <2>1. Reads(r)
    BY DEF EngineInv, KInv, ReadsInv
  <2>2. Head(r.reads) \in ReferencesIn(r.block, r.inputs)
    BY <1>8, <2>1, TailOnce DEF Reads
  <2> QED BY <1>7, <1>8, <2>2
<1>9. ASSUME NEW r \in runs, FetchHere(r) PROVE Monitor!Next \/ UNCHANGED monitorVars
  <2>1. CASE Home[r.block] # Watched
    BY <1>9, <2>1 DEF FetchHere, Here
  <2>2. CASE Home[r.block] = Watched
    <3>1. PICK k : k = Key(Head(r.reads))
      OBVIOUS
    <3>2. Monitor!FetchFromDisk(k, r.block) \/ Monitor!FetchFromRedis(k, r.block)
      BY <1>9, <2>2, <3>1 DEF FetchHere, Here
    <3>3. r.reads # <<>>
      BY <1>9 DEF FetchHere, Fetch
    <3> QED BY <1>8, <2>2, <3>1, <3>2, <3>3 DEF Monitor!Next, Monitor!Reading
  <2> QED BY <2>1, <2>2
<1>10. ASSUME NEW r \in runs, MissInRedis(r) PROVE Monitor!Next
  <2>1. PICK k : k = Key(Head(r.reads))
    OBVIOUS
  <2>2. Monitor!FetchFromRedis(k, r.block) /\ Home[r.block] = Watched /\ r.reads # <<>>
    BY <1>10, <2>1 DEF MissInRedis
  <2> QED BY <1>8, <2>1, <2>2 DEF Monitor!Next, Monitor!Reading
<1>11. ASSUME NEW r \in runs, NEW d \in ReferencesIn(r.block, r.inputs), LinkPrefetchData(r, d)
       PROVE  Monitor!Next
  <2>1. PICK k : k = Key(d)
    OBVIOUS
  <2>2. Monitor!StartReader(k, r.block) /\ Home[r.block] = Watched
    BY <1>11, <2>1 DEF LinkPrefetchData
  <2> QED BY <1>7, <2>1, <2>2 DEF Monitor!Next, Monitor!Reading
<1> QED BY <1>2, <1>3, <1>4, <1>5, <1>6, <1>9, <1>10, <1>11 DEF Joint

LEMMA HostMonitor ==
  ASSUME EngineInv, MonitorFacts, HostInv, [HostNext]_hostVars
  PROVE  Monitor!Next \/ UNCHANGED monitorVars
<1>1. CASE UNCHANGED hostVars \/ EngineStep \/ (Fault /\ UNCHANGED monitorVars)
  BY <1>1 DEF hostVars, EngineStep
<1>2. CASE Joint
  BY <1>2, JointMonitor
<1>3. CASE MonitorStep
  BY <1>3 DEF MonitorStep, Monitor!Next, Monitor!Monitor, Monitor!Keys
<1> QED BY <1>1, <1>2, <1>3 DEF HostNext, HostStep

LEMMA NextHost ==
  ASSUME \A b \in Blocks : ItemsAlone(b), EngineInv, MonitorFacts, HostInv, [HostNext]_hostVars
  PROVE  HostInv'
<1>1. Sent \subseteq Sent'
  BY HostStepIs, SentGrows DEF EngineInv
<1>2. CASE UNCHANGED hostVars
  <2>1. UNCHANGED <<deps, prefetch, runs, backlog, queue, redis, disk, kept, cnt, reader>>
    BY <1>2 DEF hostVars, vars, keyVars, inboxVars, monitorVars
  <2>2. KeptInv' /\ LinkedInv' /\ FilesInv'
    BY <2>1 DEF HostInv, KeptInv, LinkedInv, FilesInv
  <2>3. ReadInv'
    BY <2>1, SameRuns DEF HostInv, ReadInv, SameHasRead
  <2>4. RedisIn(Watched)' = RedisIn(Watched)
    BY <2>1 DEF RedisIn, RedisKeys, IsRedis, Key
  <2>5. ValuesInv'
    BY <1>1, <2>1, <2>4 DEF HostInv, ValuesInv
  <2> QED BY <2>2, <2>3, <2>5 DEF HostInv
<1>3. CASE EngineStep \/ (Fault /\ UNCHANGED monitorVars)
  <2>1. UNCHANGED monitorVars
    BY <1>3 DEF EngineStep
  <2> QED BY <1>1, <1>3, <2>1, QuietHost
<1>4. CASE MonitorStep
  BY <1>4, MonitorHost
<1>5. CASE Joint
  BY <1>1, <1>5, DispatchHost, ReportHost, PrefetchHost, PostHost, StartHost, FetchHost, MissHost, LinkHost DEF Joint
<1> QED BY <1>2, <1>3, <1>4, <1>5 DEF HostNext, HostStep

(* Along every behaviour of the host the three invariants hold, and its    *)
(* steps are the monitor's.                                                *)
THEOREM HostAgrees ==
  ASSUME \A b \in Blocks : ItemsAlone(b) PROVE HostSpec => [](EngineInv /\ Proved!IInv /\ HostInv)
<1>1. HostInit => Proved!IInv /\ HostInv
  BY MonitorStarts, HostStarts DEF HostInit
<1>2. EngineInv /\ Proved!IInv /\ HostInv /\ [HostNext]_hostVars => Proved!IInv' /\ HostInv'
  BY FactsHold, HostMonitor, MonitorGoesOn, NextHost
<1>3. HostSpec => []EngineInv
  BY HostRunsEngine, EngineHolds, PTL
<1> QED BY <1>1, <1>2, <1>3, PTL DEF HostSpec

(* And every step is one of the FlowMonitor of the watched host, or leaves *)
(* it alone: whatever the proxy and its containers do, the monitor sees    *)
(* only calls it allows.                                                   *)
THEOREM HostRunsMonitor ==
  ASSUME \A b \in Blocks : ItemsAlone(b) PROVE HostSpec => Monitor!Spec
<1>1. HostInit => Monitor!Init
  BY DEF HostInit
<1>2. EngineInv /\ Proved!IInv /\ HostInv /\ [HostNext]_hostVars => [Monitor!Next]_Monitor!vars
  <2>1. UNCHANGED monitorVars => UNCHANGED Monitor!vars
    BY DEF monitorVars, Monitor!vars, Monitor!infoVars, Monitor!queueVars, Monitor!fileVars
  <2> QED BY <2>1, FactsHold, HostMonitor
<1> QED BY <1>1, <1>2, HostAgrees, PTL DEF HostSpec, Monitor!Spec

-----------------------------------------------------------------------------
(* What the monitor relies on                                              *)

LEMMA RegistersFirst ==
  ASSUME EngineInv, MonitorFacts, HostInv, queue[Watched] # <<>>, NEW d, d = Head(queue[Watched])
  PROVE  /\ d.kind = "redis" => Monitor!MayAddRedisKey(Key(d))
         /\ d.kind = "kafka" /\ ~d.fromLocal => Monitor!MayAddDiskKey(Key(d))
<1>1. Inv /\ IInv /\ Watched \in Hosts
  BY HostAssumption DEF EngineInv, IInv
<1>2. queue[Watched] \in Seq(Range(queue[Watched]))
  BY <1>1, InboxTypes
<1>3. kept = DOMAIN deps[Watched]
  BY DEF HostInv, KeptInv
<1>4. ASSUME d.kind = "redis" PROVE Monitor!MayAddRedisKey(Key(d))
  <2>1. Key(d) \in RedisKeys(queue[Watched])
    BY <1>2, <1>4, RedisTail DEF IsRedis
  <2>2. Key(d) \in RedisIn(Watched) /\ Key(d) \notin DOMAIN deps[Watched]
    BY <1>1, <2>1 DEF RedisIn, EngineInv, RedisInv
  <2>3. Key(d) \in redis /\ Key(d) \in LocalKeys
    BY <2>2 DEF HostInv, ValuesInv, MonitorFacts
  <2> QED BY <1>3, <2>2, <2>3 DEF Monitor!MayAddRedisKey
<1>5. ASSUME d.kind = "kafka", ~d.fromLocal PROVE Monitor!MayAddDiskKey(Key(d))
  <2>1. d \in Data /\ d \in Range(queue[Watched])
    BY <1>1, <1>2, <1>5, InboxTail, RangesAre DEF Inv, InboxInv
  <2>2. (\E g \in Hosts \ {Watched} : Made(g, d.out)) /\ BlocksAt(d.out, Watched) # {}
    BY <1>1, <1>5, <2>1 DEF EngineInv, LocatedInv, Located
  <2>3. Key(d) \notin DOMAIN deps[Watched] /\ Key(d) \in Sent
    BY <1>1, <1>5, <2>2, NewKey
  <2>4. Key(d)[3] \in SerialNumbers
    BY <2>3 DEF EngineInv, SerialsInv
  <2>5. d.req \in Requests /\ d.out \in Big
    BY <1>5, <2>1 DEF Data, ByReference
  <2>6. d.out \in BigFrom(Hosts \ {Watched})
    BY <2>2, <2>5 DEF BigFrom, Made, Producers, Outputs
  <2>7. Key(d) \in RemoteKeys
    BY <2>2, <2>4, <2>5, <2>6 DEF RemoteKeys, Key
  <2> QED BY <1>3, <2>3, <2>7 DEF Monitor!MayAddDiskKey
<1> QED BY <1>4, <1>5

LEMMA ReportsOnce ==
  ASSUME EngineInv, MonitorFacts, HostInv, queue[Watched] # <<>>, NEW d, d = Head(queue[Watched]),
         d.kind = "fetched"
  PROVE  \E b \in Blocks : Monitor!MayReport(Key(d), b)
<1>1. PICK k : k = Key(d)
  OBVIOUS
<1>2. Inv /\ Watched \in Hosts
  BY HostAssumption DEF EngineInv, IInv
<1>3. queue[Watched] \in Seq(Range(queue[Watched]))
  BY <1>2, InboxTypes
<1>4. k \in DOMAIN deps[Watched] /\ kept = DOMAIN deps[Watched] /\ cnt[k] = deps[Watched][k]
  <2>1. d \in Range(queue[Watched])
    BY <1>3, RangesAre
  <2>2. k \in DOMAIN deps[Watched]
    BY <1>1, <1>2, <2>1 DEF EngineInv, KInv, CountsInv, ReportsInv, Reported
  <2> QED BY <2>2 DEF HostInv, KeptInv
<1>5. k \in WatchedKeys
  BY <1>4 DEF MonitorFacts
<1>6. ReportsOf(Watched, k) \in Nat \ {0}
  <2>1. ReportsIn(Tail(queue[Watched]), k) = ReportsIn(queue[Watched], k) - 1
    BY <1>1, <1>3, ReportsTail DEF IsReport
  <2>2. Tail(queue[Watched]) \in Seq(Range(Tail(queue[Watched])))
    BY <1>3, TailIs
  <2>3. ReportsIn(Tail(queue[Watched]), k) \in Nat
    BY <2>2, ReportsAre
  <2>4. ReportsIn(backlog[Watched], k) \in Nat /\ ReportsIn(queue[Watched], k) \in Nat
    BY <1>2, InboxTypes
  <2>5. \A m, n, t \in Nat : t = n - 1 => m + n \in Nat \ {0}
    OBVIOUS
  <2> QED BY <2>1, <2>3, <2>4, <2>5 DEF ReportsOf
<1> SUFFICES ASSUME \A b \in Blocks : reader[k][b] \notin {"fetched", "lost"} PROVE FALSE
  BY <1>1 DEF Monitor!MayReport
<1>7. {b \in BlocksAt(k[2], Watched) : reader[k][b] # "done"} = Missing(Watched, k)
  <2>1. \A b \in BlocksAt(k[2], Watched) : b \in Blocks
    BY DEF BlocksAt
  <2>2. \A b \in BlocksAt(k[2], Watched) : reader[k][b] = "done" <=> HasRead(b, k)
    BY <1>4, <2>1 DEF HostInv, ReadInv, Past
  <2> QED BY <2>2 DEF Missing
<1>8. cnt[k] = Cardinality(Missing(Watched, k))
  BY <1>4, <1>7 DEF MonitorFacts
<1>9. deps[Watched][k] = Cardinality(Missing(Watched, k)) + ReportsOf(Watched, k)
  BY <1>2, <1>4 DEF EngineInv, KInv, CountsInv, KeptUntilRead, Missing
<1>10. Cardinality(Missing(Watched, k)) \in Nat
  <2>1. IsFiniteSet(Missing(Watched, k))
    <3>1. IsFiniteSet(BlocksAt(k[2], Watched)) /\ Missing(Watched, k) \subseteq BlocksAt(k[2], Watched)
      BY ReadersAt DEF Missing
    <3> QED BY <3>1, FS_Subset
  <2> QED BY <2>1, FS_CardinalityType
<1>11. \A m \in Nat, n \in Nat \ {0} : m # m + n
  OBVIOUS
<1> QED BY <1>4, <1>6, <1>8, <1>9, <1>10, <1>11

LEMMA StartsRegistered ==
  ASSUME \A b \in Blocks : ItemsAlone(b), EngineInv, MonitorFacts, HostInv, NEW r \in runs,
         Home[r.block] = Watched, r.state = "queued", NEW d \in ReferencesIn(r.block, r.inputs)
  PROVE  Monitor!MayStart(Key(d), r.block) \/ reader[Key(d)][r.block] \in {"redis", "disk"}
<1> DEFINE k == Key(d)
           b == r.block
<1>1. /\ k \in kept /\ k \in WatchedKeys /\ k[2] = d.out /\ b \in Blocks /\ b \in BlocksAt(k[2], Watched)
  BY ReferenceKept DEF HostInv
<1>2. ReadersOf[k] = BlocksAt(k[2], Watched)
  BY <1>1, ReadersAre
<1>3. reader[k][b] \in {"idle", "redis", "disk"}
  <2>1. ~HasRead(b, k)
    BY NotReadYet
  <2>2. reader[k][b] \notin Past
    BY <1>1, <2>1 DEF HostInv, ReadInv
  <2>3. reader[k][b] \in {"idle", "redis", "disk", "fetched", "lost", "done"}
    BY <1>1 DEF MonitorFacts
  <2> HIDE DEF k, b
  <2> QED BY <2>2, <2>3 DEF Past
<1>4. ASSUME reader[k][b] = "idle", k \in RemoteKeys PROVE disk[k] = "full"
  <2>1. d \in Data /\ ByReference(d)
    BY ReferenceRegistered DEF EngineInv, KInv, ReferencesIn
  <2>2. Located(Watched, d)
    <3>1. AllIn(LocatedAt[Watched], b, r.inputs)
      BY DEF EngineInv, LocatedInv, HeldIn
    <3>2. IsInputs(r.req, b, r.inputs) /\ Indexed(b, r.inputs)
      <4>1. IsRun(r) /\ RunInv /\ Whole(b, r.inputs)
        BY RunType DEF EngineInv, IInv, Inv, WholeInv
      <4> QED BY <4>1, WholeIndexed DEF IsRun
    <3>3. d \in LocatedAt[Watched]
      BY <3>1, <3>2, ReferencesHeld
    <3> QED BY <3>3, HostAssumption DEF LocatedAt
  <2>3. ~Made(Watched, d.out)
    <3>1. k[2] \in BigFrom(Hosts \ {Watched})
      BY <1>4 DEF RemoteKeys
    <3>2. \E h \in Hosts \ {Watched} : Made(h, d.out)
      BY <1>1, <3>1, MadeWhere
    <3> QED BY <3>2, OneMaker, HostAssumption
  <2>4. d.kind = "kafka"
    BY <2>1, <2>2, <2>3 DEF Located, ByReference
  <2>5. k \in DOMAIN prefetch[Watched] /\ prefetch[Watched][k] = "done"
    BY <2>4 DEF EngineInv, KInv, PrefetchInv, Prefetched
  <2>6. cnt[k] > 0
    <3>1. cnt[k] = Cardinality({c \in BlocksAt(k[2], Watched) : reader[k][c] # "done"})
      BY <1>1 DEF MonitorFacts
    <3>2. b \in {c \in BlocksAt(k[2], Watched) : reader[k][c] # "done"}
      BY <1>1, <1>4
    <3>3. IsFiniteSet({c \in BlocksAt(k[2], Watched) : reader[k][c] # "done"})
      BY ReadersAt, FS_Subset
    <3> HIDE DEF k, b
    <3>4. cnt[k] # 0
      BY <3>1, <3>2, <3>3, FS_EmptySet
    <3>5. cnt[k] \in Nat
      BY <1>1 DEF MonitorFacts
    <3> QED BY <3>4, <3>5
  <2> QED BY <2>5, <2>6 DEF HostInv, FilesInv
<1> HIDE DEF k, b
<1>5. Monitor!MayStart(k, b) \/ reader[k][b] \in {"redis", "disk"}
  BY <1>1, <1>2, <1>3, <1>4 DEF Monitor!MayStart
<1> QED BY <1>5 DEF k, b

LEMMA PutsOnce ==
  ASSUME EngineInv, MonitorFacts, HostInv, NEW r \in runs, Home[r.block] = Watched, PutsNext(r)
  PROVE  Monitor!MayPut(Key(NextDatum(r, "redis")))
<1> DEFINE d == NextDatum(r, "redis")
<1>1. IInv /\ IsRun(r) /\ r.posts # <<>> /\ Watched \in Hosts /\ Inv
  BY RunType, HostAssumption DEF EngineInv, IInv, PutsNext
<1>2. Head(r.posts) \in BigFrom({Watched})
  BY DEF PutsNext
<1>3. d.serial \in SerialNumbers
  BY <1>1, SerialOfNext DEF EngineInv
<1>4. d.req = r.req /\ d.out = Head(r.posts)
  BY DEF NextDatum, Datum
<1>5. r.req \in Requests
  BY <1>1 DEF IsRun, Inv, InboxInv, StateInv
<1>6. Key(d) \in LocalKeys
  <2> HIDE DEF d
  <2> QED BY <1>2, <1>3, <1>4, <1>5 DEF LocalKeys, Key
<1>7. Key(d) \notin Sent
  BY <1>1, PostIsNew
<1>8. redis \subseteq Sent /\ kept \subseteq Sent
  BY <1>1 DEF HostInv, ValuesInv, KeptInv, EngineInv, RedisInv
<1> QED BY <1>6, <1>7, <1>8 DEF Monitor!MayPut

(* The engine calls add_key, decrease_key_dependencies, the prefetcher,    *)
(* the Store and its readers only when FlowMonitor lets it.                *)
THEOREM ContractKept ==
  ASSUME \A b \in Blocks : ItemsAlone(b) PROVE HostSpec => []EngineKeepsContract
<1>1. ASSUME EngineInv, MonitorFacts, HostInv PROVE EngineKeepsContract
  <2>1. ASSUME queue[Watched] # <<>>
        PROVE  LET d == Head(queue[Watched])
                   k == Key(d)
               IN CASE d.kind = "redis"   -> Monitor!MayAddRedisKey(k)
                    [] d.kind = "kafka" /\ ~d.fromLocal -> Monitor!MayAddDiskKey(k)
                    [] d.kind = "fetched" -> \E b \in Blocks : Monitor!MayReport(k, b)
                    [] OTHER -> TRUE
    <3>1. PICK d : d = Head(queue[Watched])
      OBVIOUS
    <3>2. /\ d.kind = "redis" => Monitor!MayAddRedisKey(Key(d))
          /\ d.kind = "kafka" /\ ~d.fromLocal => Monitor!MayAddDiskKey(Key(d))
      BY <1>1, <2>1, <3>1, RegistersFirst
    <3>3. d.kind = "fetched" => \E b \in Blocks : Monitor!MayReport(Key(d), b)
      BY <1>1, <2>1, <3>1, ReportsOnce
    <3> QED BY <3>1, <3>2, <3>3
  <2>2. ASSUME NEW r \in runs, Home[r.block] = Watched
        PROVE  /\ r.state = "queued" => \A d \in ReferencesIn(r.block, r.inputs) :
                    Monitor!MayStart(Key(d), r.block) \/ reader[Key(d)][r.block] \in {"redis", "disk"}
               /\ \A d \in Range(r.reads) : reader[Key(d)][r.block] \in {"redis", "disk"}
               /\ PutsNext(r) => Monitor!MayPut(Key(NextDatum(r, "redis")))
    <3>1. \A d \in Range(r.reads) : reader[Key(d)][r.block] \in {"redis", "disk"}
      BY <1>1, <2>2 DEF HostInv, LinkedInv
    <3> QED BY <1>1, <2>2, <3>1, StartsRegistered, PutsOnce
  <2>3. ASSUME NEW k \in DOMAIN prefetch[Watched], prefetch[Watched][k] = "running"
        PROVE  Monitor!MayPrefetch(k)
    BY <1>1, <2>3 DEF HostInv, FilesInv, Monitor!MayPrefetch
  <2> QED BY <2>1, <2>2, <2>3 DEF EngineKeepsContract
<1>2. EngineInv /\ Proved!IInv /\ HostInv => EngineKeepsContract
  BY <1>1, FactsHold
<1> QED BY <1>2, HostAgrees, PTL

(* No container of the host finds a datum it was counted for neither in    *)
(* redis nor whole on disk, although the monitor transfers and deletes all *)
(* the while.                                                              *)
THEOREM HostLosesNothing ==
  ASSUME \A b \in Blocks : ItemsAlone(b) PROVE HostSpec => []Monitor!NeverLost
<1>1. Proved!IInv => Monitor!NeverLost
  BY DEF Proved!IInv, Proved!ReaderInv, Monitor!NeverLost, Monitor!Keys, Proved!Keys
<1> QED BY <1>1, HostAgrees, PTL

=============================================================================
