---------------------------- MODULE MCModelServing ----------------------------
(* Instances of ModelServing for TLC: the serving_*.cfg files. *)
EXTENDS ModelServing, TLC
=============================================================================
