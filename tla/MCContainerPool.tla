--------------------------- MODULE MCContainerPool ---------------------------
(* Instances of ContainerPool: requests of two templates that share the    *)
(* ports, and of one template with two blocks.                             *)
EXTENDS ContainerPool, TLC

CONSTANTS a1, a2, a3, b1

MCTemplateOf == [r \in Requests |-> IF r = b1 THEN "tb" ELSE "ta"]
MCWorkDirOf  == MCTemplateOf   \* those of a template are items of one request
OneContainer == [t \in Templates |-> 1]
NoContainer  == [t \in Templates |-> 0]
OneBlock     == [t \in Templates |-> 1]
TwoBlocks    == [t \in Templates |-> 2]
TwoPorts     == <<9000, 9001>>
ThreePorts   == <<9000, 9001, 9002>>
Symmetric    == Permutations({a1, a2, a3})
=============================================================================
