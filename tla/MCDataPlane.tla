----------------------------- MODULE MCDataPlane ----------------------------
(* Instances of DataPlane for TLC. *)
EXTENDS DataPlane, TLC

TwoStacks == {0, 1}
\* Nodes, everybody, and a frame that brings its own header.
Mixed4    == {0, 1, CL_DSTID_MACHDR_PRESENT, BCAST}
NoPromisc == {}
FitOrNot  == BOOLEAN

\* Packets per stackline, lowest id first.
Pkts21 == [s \in TwoStacks |-> IF s = 0 THEN 2 ELSE 1]

=============================================================================
