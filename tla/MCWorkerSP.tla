----------------------------- MODULE MCWorkerSP -----------------------------
(***************************************************************************)
(* Instances of WorkerSP: the workflows of Workflows, with up to three     *)
(* items, or up to one where two requests run.  No item at all is a run    *)
(* that fails.                                                             *)
(***************************************************************************)
EXTENDS WorkerSP, Workflows

UpToThree == SplitPrograms(0..3)
UpToOne   == SplitPrograms(0..1)
=============================================================================
