---------------------------- MODULE BlockService ----------------------------
(***************************************************************************)
(* What the container pool promises to the engine: a request handed over   *)
(* is run in one container of its template that has a slot free; a slot is *)
(* taken as long as its request is inside; a container is closed only when *)
(* nobody is inside, and of no template are more than Bound open.          *)
(***************************************************************************)
EXTENDS Naturals, FiniteSets

CONSTANTS Requests, Rooms, TemplateOf, Slots, Bound, Nowhere

VARIABLES
  status,   \* request -> "new", "waiting", "inside" or "over"
  place,    \* request -> the container it is or was in
  open      \* the containers that take requests

vars == <<status, place, open>>

Inside(c) == {r \in Requests : place[r] = c /\ status[r] = "inside"}

Init ==
  /\ status = [r \in Requests |-> "new"]
  /\ place = [r \in Requests |-> Nowhere]
  /\ open = {}

HandOver(r) ==
  /\ status[r] = "new"
  /\ status' = [status EXCEPT ![r] = "waiting"]
  /\ UNCHANGED <<place, open>>

Open(c) ==
  /\ c \notin open
  /\ Cardinality({d \in open : TemplateOf[d] = TemplateOf[c]}) < Bound[TemplateOf[c]]
  /\ open' = open \cup {c}
  /\ UNCHANGED <<status, place>>

Enter(r, c) ==
  /\ status[r] = "waiting"
  /\ c \in open /\ TemplateOf[c] = TemplateOf[r]
  /\ Cardinality(Inside(c)) < Slots[TemplateOf[c]]
  /\ status' = [status EXCEPT ![r] = "inside"]
  /\ place' = [place EXCEPT ![r] = c]
  /\ UNCHANGED open

Leave(r) ==
  /\ status[r] = "inside"
  /\ status' = [status EXCEPT ![r] = "over"]
  /\ UNCHANGED <<place, open>>

Close(C) ==
  /\ C \subseteq open /\ \A c \in C : Inside(c) = {}
  /\ open' = open \ C
  /\ UNCHANGED <<status, place>>

Next ==
  \/ \E r \in Requests : HandOver(r) \/ Leave(r) \/ \E c \in Rooms : Enter(r, c)
  \/ \E c \in Rooms : Open(c)
  \/ \E C \in SUBSET open : Close(C)

Spec == Init /\ [][Next]_vars
=============================================================================
