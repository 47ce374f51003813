------------------------------- MODULE MCIfaces -----------------------------
(* Instances of Ifaces for TLC. *)
EXTENDS Ifaces, TLC

\* The two nodes' stacklines, alone or with one whose id is outside the
\* configuration.
TwoStacks      == {0, 1}
TwoAndStranger == {0, 1, 2}

\* Nodes, everybody, and frames that bring their own header.
UnicastHeader2 == {0, 1, CL_DSTID_MACHDR_PRESENT}
Header1        == {1, CL_DSTID_MACHDR_PRESENT, BCAST}

NoPromisc == {}
Promisc1  == {1}
Fit       == {TRUE}
FitOrNot  == BOOLEAN

\* Packets per stackline, lowest id first.
Pkts11  == [s \in TwoStacks |-> 1]
Pkts201 == [s \in TwoAndStranger |-> IF s = 0 THEN 2 ELSE IF s = 2 THEN 1 ELSE 0]

=============================================================================
