---------------------------- MODULE MCLifecycle -----------------------------
(* Instances of Lifecycle for TLC. *)
EXTENDS Lifecycle, TLC

Everybody == [g \in Gens |-> {}]
Nobody    == {}
Third     == {2}

\* One of the invocations has a node without a nodeExec.
LastForOne ==
    LET g == CHOOSE g \in Gens : TRUE
    IN  [h \in Gens |-> IF h = g THEN {3} ELSE {}]

=============================================================================
