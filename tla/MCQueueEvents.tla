-------------------------- MODULE MCQueueEvents --------------------------
(***************************************************************************)
(* A repair card, told when it is done and when it waits for its owner,    *)
(* and one lasting condition.                                              *)
(***************************************************************************)
EXTENDS QueueEvents, TLC
CONSTANTS c1, r1

MCStage == c1 :> "repair"
=============================================================================
