---------------------------- MODULE MCFlowMonitor ----------------------------
(* Instances of FlowMonitor: a redis key shared by two readers, a second   *)
(* redis key, and a key prefetched from a remote host.                     *)
EXTENDS FlowMonitor

CONSTANTS k1, k2, f1, r1, r2

MCReadersOf == [k \in Keys |-> IF k = k1 THEN {r1, r2} ELSE {r1}]
\* k2 goes to $USER: it has no local reader and leaves redis by expiry only.
MCUserReadersOf == [MCReadersOf EXCEPT ![k2] = {}]
=============================================================================
