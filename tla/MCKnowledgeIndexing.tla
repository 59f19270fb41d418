-------------------------- MODULE MCKnowledgeIndexing --------------------------
(* Knowledge indexing on small instances.                                     *)
EXTENDS KnowledgeIndexing, TLC

Symmetry == Permutations(Worker)
=============================================================================
