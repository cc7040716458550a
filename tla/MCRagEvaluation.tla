--------------------------- MODULE MCRagEvaluation ---------------------------
(* Instances of RagEvaluation for TLC: the rag_*.cfg files. *)
EXTENDS RagEvaluation
=============================================================================
