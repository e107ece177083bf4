---------------------------- MODULE MCKafkaBypass ----------------------------
(* Four values of 0 to 3 chunks over fewer slots than values, so that a    *)
(* partition is used again, and a value that two hosts read.               *)
EXTENDS KafkaBypass

CONSTANTS v0, v1, v2, v3, h1, h2

MCChunks == [v \in Values |-> CASE v = v0 -> 0 [] v = v1 -> 1 [] v = v2 -> 2 [] OTHER -> 3]
MCReadersOf == [v \in Values |-> IF v = v2 THEN {h1, h2} ELSE {h1}]
=============================================================================
