-------------------------- MODULE MCForwardPipeline --------------------------
(* Small instances of ForwardPipeline.                                     *)
EXTENDS ForwardPipeline, TLC

(* Three attempts.  The last delay is never used, as in the code.          *)
ThreeBackoffs == <<1, 2, 3>>
TwoBackoffs == <<1, 2>>

WorkerSymmetry == Permutations(Workers)
==============================================================================
