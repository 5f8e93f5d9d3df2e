---------------------------- MODULE MCPipelineV1 ----------------------------
(* Two runs, of one pipeline or of two.                                     *)
EXTENDS PipelineV1, TLC

AnyRun == Permutations(Runs)
=============================================================================
