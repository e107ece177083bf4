------------------------------ MODULE KeyStore ------------------------------
(***************************************************************************)
(* What a host's flow monitor, redis and prefetch directory promise        *)
(* together: a datum that has been stored can be read until each of its    *)
(* readers has read it, and only then is it given up.                      *)
(***************************************************************************)
CONSTANTS Keys, Readers

VARIABLES
  held,     \* keys whose value can be read
  unread    \* key -> the readers that have not read it

Init == held = {} /\ unread \in [Keys -> SUBSET Readers]

Store(k) ==
  /\ held' = held \cup {k}
  /\ UNCHANGED unread

Read(k, r) ==
  /\ k \in held /\ r \in unread[k]
  /\ unread' = [unread EXCEPT ![k] = @ \ {r}]
  /\ UNCHANGED held

Reclaim(S) ==
  /\ \A k \in S : unread[k] = {}
  /\ held' = held \ S
  /\ UNCHANGED unread

Next ==
  \/ \E k \in Keys : Store(k)
  \/ \E k \in Keys, r \in Readers : Read(k, r)
  \/ \E S \in SUBSET Keys : Reclaim(S)

Spec == Init /\ [][Next]_<<held, unread>>
=============================================================================
