---------------------------- MODULE MCWorkerHost ----------------------------
(* An instance of WorkerHost: the host of wordcount that maps items, which *)
(* it prefetches, and merges their results, which it has in redis.         *)
EXTENDS WorkerHost, Workflows

UpToTwo == SplitPrograms(0..2)
TwoItems == {0, 1}
=============================================================================
