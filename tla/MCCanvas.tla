------------------------------- MODULE MCCanvas -----------------------------
(* Instances of Canvas for TLC. *)
EXTENDS Canvas, TLC
=============================================================================
