--------------------------- MODULE MCKnowledgeBase ---------------------------
(* Instances of KnowledgeBase for TLC: the kb_*.cfg files. *)
EXTENDS KnowledgeBase
=============================================================================
