----------------------------- MODULE MCEbpfHost -----------------------------
(* An instance of EbpfHost: a container that is used twice, registering    *)
(* with a socket and then without, and another one.                        *)
EXTENDS EbpfHost

CONSTANTS s1, s2, s3, c1, c2

MCContainerOf == [s \in Stores |-> IF s = s3 THEN c2 ELSE c1]
====
