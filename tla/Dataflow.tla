------------------------------ MODULE Dataflow ------------------------------
(***************************************************************************)
(* What the dataflow engine promises, without gateway, workers, queues or  *)
(* network: a block instance fires once, when all data its workflow        *)
(* declares as its inputs have been posted, for a LIST every result of the *)
(* items it collects; a datum is posted once, by an instance that has      *)
(* fired; the user is answered from a datum whose destination is $USER.    *)
(***************************************************************************)
EXTENDS Integers, FiniteSets, SequencesExt

CONSTANTS Requests, Blocks, Inputs, Programs, GlobalInputs, OutType, Dest, User, Cnt

VARIABLES
  posted,    \* data posted so far: <<request, output, serial>>
  fired,     \* instances fired so far: <<request, block, serial, n-th time>>
  answered   \* requests answered

NoSerial == -1
Outs == DOMAIN Dest
Outputs(b) == UNION {Range(p) : p \in Programs[b]}

Init == posted = {} /\ fired = {} /\ answered = {}

Feeds(o, b, i) == \E x \in Range(Dest[o]) : x.block = b /\ x.input = i

(* Output o is posted by a block that the FOREACH items of v trigger.      *)
ItemsBecome(v, o) ==
  /\ OutType[v] = "FOREACH"
  /\ \E x \in Range(Dest[v]) : x.block \in Blocks /\ o \in Outputs(x.block)

(* The items of q that become data of o, all of them once VIRTUAL.CNT,     *)
(* which block b waits for, has been posted.                               *)
Items(q, o) == {p \in posted : p[1] = q /\ ItemsBecome(p[2], o)}
Counted(q, b) == \E p \in posted : p[1] = q /\ Feeds(p[2], b, Cnt)

Available(q, b, i, s) ==
  \E o \in Outs :
     /\ Feeds(o, b, i)
     /\ CASE OutType[o] = "FOREACH" -> <<q, o, s>> \in posted
          [] OutType[o] = "MERGE"   -> /\ Counted(q, b)
                                       /\ \A p \in Items(q, o) : <<q, o, p[3]>> \in posted
          [] OTHER -> \E p \in posted : p[1] = q /\ p[2] = o

Start(q) ==
  /\ posted' = posted \cup {<<q, o, 0>> : o \in Range(GlobalInputs)}
  /\ UNCHANGED <<fired, answered>>

Fire(q, b, s) ==
  /\ \A f \in fired : <<f[1], f[2], f[3]>> # <<q, b, s>>
  /\ \A i \in DOMAIN Inputs[b] : Available(q, b, i, s)
  /\ fired' = fired \cup {<<q, b, s, 1>>}
  /\ UNCHANGED <<posted, answered>>

(* What an item's instance posts has the item's serial, other data of an   *)
(* output are numbered from 0.                                             *)
SerialOf(f, o) ==
  IF f[3] # NoSerial THEN f[3]
  ELSE Cardinality({p \in posted : p[1] = f[1] /\ p[2] = o})

Post(f, o) ==
  LET datum == <<f[1], o, SerialOf(f, o)>>
  IN /\ o \in Outputs(f[2])
     /\ datum \notin posted
     /\ posted' = posted \cup {datum}
     /\ UNCHANGED <<fired, answered>>

Answer(q) ==
  /\ \E p \in posted : p[1] = q /\ \E x \in Range(Dest[p[2]]) : x.block = User
  /\ answered' = answered \cup {q}
  /\ UNCHANGED <<posted, fired>>

Serials == {NoSerial} \cup {p[3] : p \in posted}

Next ==
  \/ \E q \in Requests : Start(q) \/ Answer(q)
  \/ \E q \in Requests, b \in Blocks, s \in Serials : Fire(q, b, s)
  \/ \E f \in fired, o \in Outs : Post(f, o)

Spec == Init /\ [][Next]_<<posted, fired, answered>>
=============================================================================
