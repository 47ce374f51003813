-------------------------------- MODULE MCOam -------------------------------
(* Instances of Oam for TLC. *)
EXTENDS Oam, TLC

Command(l, i, nm, a) == [line |-> l, id |-> i, colon |-> TRUE, name |-> nm, arg |-> a]

Stats0     == Command("AL", 0, "cmd_mac_stats", "none")
ExecNobody == Command("AL", 7, "cmd_node_exec", "none")
Empty      == Command("AL", CL_MGR_ID, "", "none")
BadPlace   == Command("AL", 0, "cmd_set_node_position", "junk")
Routes0    == Command("SL", 0, "cmd_def_route", "none")
NoLine     == [line |-> "other", id |-> 0, colon |-> TRUE, name |-> "x", arg |-> "none"]
NoColon    == [line |-> "SL", id |-> 0, colon |-> FALSE, name |-> "", arg |-> "none"]

RunCmds   == {Stats0, ExecNobody, Empty, BadPlace, Routes0, NoColon, NoLine}
FewCmds   == {Stats0, Routes0}
OneNode   == {0}

\* Five clients, who send one after the other: nothing but their commands tells
\* one from another, so one order stands for all.  The first three send any
\* command.  The last two are there for lock-ups: they send the usual commands, and
\* only when two commands have run out of polls.  The first two may give up; the
\* others wait as long as it takes.
Sending     == <<"c1", "c2", "c3", "c4", "c5">>
FiveClients == {Sending[i] : i \in DOMAIN Sending}

Sends(i)   == client[Sending[i]] = "new" /\ client'[Sending[i]] # "new"
GivesUp(i) == client'[Sending[i]] = "gone"

InOrder ==
    /\ \A i \in 1..5 : Sends(i) => \A j \in 1..(i - 1) : client[Sending[j]] # "new"
    /\ \A i \in 4..5 : Sends(i) => Last(udpq').cmd \in FewCmds /\ Cardinality(timeouts) > 1
    /\ \A i \in 3..5 : ~GivesUp(i)

InOrderSpec == Init /\ [][Next /\ InOrder]_vars /\ Fairness

=============================================================================
