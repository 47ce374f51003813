----------------------------- MODULE MCWhitefield ---------------------------
(* Instances of Whitefield for TLC. *)
EXTENDS Whitefield, TLC

TwoStacks == {0, 1}
ToOne == {1}
None  == {}
Fit   == {TRUE}
Pkts10 == [s \in TwoStacks |-> IF s = 0 THEN 1 ELSE 0]

Command(l, i, nm) == [line |-> l, id |-> i, colon |-> TRUE, name |-> nm,
                      arg |-> "none"]

\* Nothing tells clients apart but what they ask.
ClientSymmetry == Permutations(Clients)

\* To Airline and to the sender's stackline.
RunCmds == {Command("AL", 0, "cmd_mac_stats"), Command("SL", 0, "cmd_def_route")}
=============================================================================
