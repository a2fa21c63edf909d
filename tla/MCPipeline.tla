------------------------------ MODULE MCPipeline ------------------------------
(* Two executions through pipelines of at most two middlewares. *)
EXTENDS Pipeline, TLC

CONSTANTS log, other, root, copy, e1, e2

\* Which execution is which makes no difference.
ExecutionsAlike == Permutations(Executions)
=============================================================================
