------------------------------- MODULE MCSetup ------------------------------
(* Instances of Setup for TLC: settings start-up can use, and for each of     *)
(* them the ways to spoil one.                                                *)
EXTENDS Setup

NoLink == [kind |-> "none", to |-> 0, cable |-> "known"]
LinkTo(n) == [kind |-> "node", to |-> n, cable |-> "known"]

Plain == [nodePosition |-> "unset", nodePromiscuous |-> FALSE, txPower |-> "unset",
          plc_outlet_impedance |-> "unset", plc_link |-> NoLink]

Placed == [Plain EXCEPT !.nodePosition = "here", !.plc_outlet_impedance = "number",
                        !.plc_link = LinkTo(2)]
Loud   == [Plain EXCEPT !.txPower = "high", !.nodePromiscuous = TRUE, !.plc_link = LinkTo(0)]
Far    == [Plain EXCEPT !.plc_link = LinkTo(65537)]

\* What one node may say that start-up cannot use.
Spoilt == {[Plain EXCEPT !.plc_link.kind = "junk"], [Plain EXCEPT !.plc_link = LinkTo(N)],
           [Plain EXCEPT !.plc_link = LinkTo(-1)],
           [Plain EXCEPT !.plc_link = [LinkTo(0) EXCEPT !.cable = "unknown"]],
           [Plain EXCEPT !.txPower = "junk"],
           [Plain EXCEPT !.plc_outlet_impedance = "junk"]}

NodeChoices == [Nodes -> {Plain, Placed, Loud, Far}] \cup
               {[n \in Nodes |-> IF n = m THEN s ELSE Placed] : m \in Nodes, s \in Spoilt}

AllSettings ==
    [PLC : {TRUE}, PHY : {"lowpan", "plc"}, topologyType : {"grid"},
     lossModel : {"unset", "known", "unknown"}, delayModel : {"unset", "known", "unknown"},
     plc_spectrum_model : {"known"}, junk : {{}}, txPower : {"unset", "low", "junk"},
     node : NodeChoices]
    \cup
    [PLC : BOOLEAN, PHY : {"lowpan", "plc"}, topologyType : {"grid", "randrect", "unknown"},
     lossModel : {"unset", "known"}, delayModel : {"unset", "known", "unknown"},
     plc_spectrum_model : {"known", "unknown"}, junk : {{}} \cup {{k} : k \in Numeric},
     txPower : {"low"}, node : {[n \in Nodes |-> Placed]}]

PlcSettings ==
    [PLC : {TRUE}, PHY : {"plc"}, topologyType : {"grid"}, lossModel : {"unset"},
     delayModel : {"unset"}, plc_spectrum_model : {"known"}, junk : {{}},
     txPower : {"unset"}, node : [Nodes -> {Plain, [Plain EXCEPT !.nodePosition = "here"]}]]

Here == {"here"}
LowHigh == {"low", "high"}

=============================================================================
