----------------------------- MODULE MCInstance -----------------------------
(* Instances of module Instance. *)
EXTENDS Instance, TLC
=============================================================================
