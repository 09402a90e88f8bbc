----------------------------- MODULE MCPipeline -----------------------------
(* Pipeline on small sets, with the symmetry its executions have.           *)
EXTENDS Pipeline, TLC

Symmetry == Permutations(Workers)
=============================================================================
