-------------------------------- MODULE Setup -------------------------------
(***************************************************************************)
(* Airline's start-up (AirlineManager::startNetwork): from settings that   *)
(* were read to stacklines that are asked for, over the LR-WPAN interface  *)
(* (LrwpanIface.cc, PropagationModel.cc) or the power line (PLCIface.cc,   *)
(* PowerLineCommHandler.cc).  One thread, but one that can stop at any     *)
(* setting it cannot use, half way through any of its loops over nodes.    *)
(***************************************************************************)
EXTENDS Integers

CONSTANTS
    N,           \* number of nodes
    Positions,   \* places of nodes; "alloc" stands for the topology's
    Powers,      \* transmit powers
    Settings     \* the settings start-up is tried with

Nodes == 0..(N - 1)

\* Settings whose value has to be a number.
Numeric == {"randSeed", "gridWidth", "panID", "macHeaderAdd", "macMaxRetry",
            "lossModelParam", "delayModelParam", "plc_tx_psd"}

\* A plc_link: none, one whose node is no number, or one to the number given.
LinkType == [kind : {"none", "junk", "node"}, to : Int, cable : {"known", "unknown"}]

NodeSettings == [nodePosition : Positions \cup {"unset"},
                 nodePromiscuous : BOOLEAN,
                 txPower : Powers \cup {"unset", "junk"},
                 plc_outlet_impedance : {"unset", "number", "junk"},
                 plc_link : LinkType]

\* PLC: the power line was compiled in.  junk: what should be a number and is
\* not.  A known model is one that has the parameters it is given.
SettingsType == [PLC : BOOLEAN,
                 PHY : {"lowpan", "plc"},
                 topologyType : {"grid", "randrect", "unknown"},
                 lossModel : {"unset", "known", "unknown"},
                 delayModel : {"unset", "known", "unknown"},
                 plc_spectrum_model : {"known", "unknown"},
                 junk : SUBSET Numeric,
                 txPower : Powers \cup {"unset", "junk"},
                 node : [Nodes -> NodeSettings]]

ASSUME SetupAssumption ==
    /\ N \in Nat \ {0}
    /\ Settings \subseteq SettingsType
    /\ Positions \cap {"unset", "none"} = {}
    /\ Powers \cap {"unset", "junk", "default"} = {}

VARIABLES
    cfg,          \* the settings
    pc,           \* the step startNetwork is at, or how it ended
    i,            \* the node a loop is at
    position,     \* per node, its mobility model's position
    callbacks,    \* nodes whose MAC calls back DataConfirm and DataIndication
    tuned,        \* nodes attached to the channel of the propagation models
    promiscuous,  \* nodes in promiscuous mode
    power,        \* per node, its transmit power
    plcNodes,     \* per node of the power line, its position
    lines,        \* pairs of nodes a PLC_Line joins
    started       \* nodes whose stackline has been asked for

vars == <<cfg, pc, i, position, callbacks, tuned, promiscuous, power, plcNodes,
          lines, started>>
mac  == <<callbacks, tuned>>
phy  == <<promiscuous, power>>
plc  == <<plcNodes, lines>>

Steps == {"topology", "iface", "macs", "plcNodes", "plcLinks", "plcDevices",
          "plcMacs", "specific", "apps", "running"}
Ends  == {"FAILURE", "exception", "segfault"}

TypeOK ==
    /\ cfg \in Settings
    /\ pc \in Steps \cup Ends
    /\ i \in Nodes
    /\ position \in [Nodes -> Positions \cup {"none", "alloc"}]
    /\ callbacks \subseteq Nodes
    /\ tuned \subseteq Nodes
    /\ promiscuous \subseteq Nodes
    /\ power \in [Nodes -> Powers \cup {"default"}]
    /\ plcNodes \in [Nodes -> Positions \cup {"none", "alloc"}]
    /\ lines \subseteq Nodes \X Nodes
    /\ started \subseteq Nodes

Init ==
    /\ cfg \in Settings
    /\ pc = "topology"
    /\ i = 0
    /\ position = [n \in Nodes |-> "none"]
    /\ callbacks = {} /\ tuned = {} /\ promiscuous = {}
    /\ power = [n \in Nodes |-> "default"]
    /\ plcNodes = [n \in Nodes |-> "none"]
    /\ lines = {}
    /\ started = {}

Junk(k) == k \in cfg.junk

Goto(step) == pc' = step /\ i' = 0

\* Mutant: one node too many.
NextNodeLong(step, after) ==
    IF i = N THEN Goto(after) ELSE pc' = step /\ i' = i + 1

\* The end of a loop's body.
NextNode(step, after) ==
    IF i = N - 1 THEN Goto(after) ELSE pc' = step /\ i' = i + 1

\* Start-up ends before the simulation began, and Airline with it: what the
\* step had done until then is gone.
Quit(end) ==
    /\ pc' = end
    /\ UNCHANGED <<cfg, i, position, callbacks, tuned, promiscuous, power,
                   plcNodes, lines, started>>

\* startNetwork up to ifaceInstall.
setPositionAllocator ==
    /\ pc = "topology"
    /\ LET throws == Junk("randSeed") \/ (cfg.topologyType = "grid" /\ Junk("gridWidth"))
       IN  \/ throws /\ Quit("exception")
           \/ ~throws /\ cfg.topologyType = "unknown" /\ Quit("FAILURE")
           \/ /\ ~throws /\ cfg.topologyType # "unknown"
              /\ position' = [n \in Nodes |-> "alloc"]
              /\ Goto("iface")
              /\ UNCHANGED <<cfg, mac, phy, plc, started>>

\* ifaceInstall with PHY=plc in an Airline without the power line: the table of
\* interfaces has no functions for it, and setup is called all the same.
NoInterface ==
    /\ pc = "iface" /\ cfg.PHY = "plc" /\ ~cfg.PLC
    /\ Quit("segfault")

-----------------------------------------------------------------------------
(* LR-WPAN.                                                                 *)

Models  == cfg.PHY = "lowpan" /\ (cfg.lossModel # "unset" \/ cfg.delayModel # "unset")
Unknown == "unknown" \in {cfg.lossModel, cfg.delayModel}

\* A model's parameters are only looked at when its name is known, and the
\* delay model only when the loss model was found.
BadParam == \/ cfg.lossModel = "known" /\ Junk("lossModelParam")
            \/ /\ cfg.lossModel # "unknown"
               /\ cfg.delayModel = "known" /\ Junk("delayModelParam")

\* lrwpanSetup up to the loop of setAllNodesParam.  setAllNodesParam fails when
\* a model is unknown, and lrwpanSetup does not look at its result.
lrwpanSetup ==
    /\ pc = "iface" /\ cfg.PHY = "lowpan"
    /\ LET throws == Junk("panID") \/ Junk("macHeaderAdd") \/ BadParam
       IN  \/ throws /\ Quit("exception")
           \/ /\ ~throws
              /\ Goto(IF Unknown THEN "specific" ELSE "macs")
              /\ UNCHANGED <<cfg, position, mac, phy, plc, started>>

\* The loop of setAllNodesParam.
setAllNodesParam ==
    /\ pc = "macs"
    /\ \/ Junk("macMaxRetry") /\ Quit("exception")
       \/ /\ ~Junk("macMaxRetry")
          /\ callbacks' = callbacks \cup {i}
          /\ tuned' = IF Models THEN tuned \cup {i} ELSE tuned
          /\ NextNode("macs", "specific")
          /\ UNCHANGED <<cfg, position, phy, plc, started>>

-----------------------------------------------------------------------------
(* The power line.                                                          *)

\* Mutant: the result is not looked at, as in lrwpanSetup.
plcInstallIgnored ==
    /\ pc = "iface" /\ cfg.PHY = "plc" /\ cfg.PLC
    /\ Goto(IF cfg.plc_spectrum_model = "unknown" THEN "specific" ELSE "plcNodes")
    /\ UNCHANGED <<cfg, position, mac, phy, plc, started>>

\* plcInstall up to its loops.
plcInstall ==
    /\ pc = "iface" /\ cfg.PHY = "plc" /\ cfg.PLC
    /\ \/ cfg.plc_spectrum_model = "unknown" /\ Quit("FAILURE")
       \/ /\ cfg.plc_spectrum_model = "known"
          /\ Goto("plcNodes")
          /\ UNCHANGED <<cfg, position, mac, phy, plc, started>>

\* A node of the power line is where the node's mobility model is now.
plcAddNode ==
    /\ pc = "plcNodes"
    /\ LET impedance == cfg.node[i].plc_outlet_impedance
       IN  \/ impedance = "junk" /\ Quit("exception")
           \/ /\ impedance # "junk"
              /\ plcNodes' = [plcNodes EXCEPT ![i] = position[i]]
              /\ NextNode("plcNodes", "plcLinks")
              /\ UNCHANGED <<cfg, position, mac, phy, lines, started>>

\* Mutant: off by one.
LinkEndByOne(link) == IF link.to % 65536 <= N THEN link.to % 65536 ELSE -1

\* The number in a link is cut to 16 bits before its range is checked.
LinkEnd(link) == IF link.to % 65536 < N THEN link.to % 65536 ELSE -1

plcConnectLink ==
    /\ pc = "plcLinks"
    /\ LET link == cfg.node[i].plc_link
       IN  \/ link.kind = "junk" /\ Quit("exception")
           \/ /\ link.kind = "node"
              /\ LinkEnd(link) = -1 \/ link.cable = "unknown"
              /\ Quit("FAILURE")
           \/ /\ link.kind = "none"
              /\ NextNode("plcLinks", "plcDevices")
              /\ UNCHANGED <<cfg, position, mac, phy, plc, started>>
           \/ /\ link.kind = "node"
              /\ LinkEnd(link) # -1 /\ link.cable = "known"
              /\ lines' = lines \cup {<<i, LinkEnd(link)>>}
              /\ NextNode("plcLinks", "plcDevices")
              /\ UNCHANGED <<cfg, position, mac, phy, plcNodes, started>>

\* PLC_NetDeviceHelper and plcInitChannel.
plcSetupDevices ==
    /\ pc = "plcDevices"
    /\ \/ Junk("plc_tx_psd") /\ Quit("exception")
       \/ /\ ~Junk("plc_tx_psd")
          /\ Goto("plcMacs")
          /\ UNCHANGED <<cfg, position, mac, phy, plc, started>>

\* The loop of plcConfigAllNodes.
plcConfigMac ==
    /\ pc = "plcMacs"
    /\ callbacks' = callbacks \cup {i}
    /\ NextNode("plcMacs", "specific")
    /\ UNCHANGED <<cfg, position, tuned, phy, plc, started>>

-----------------------------------------------------------------------------

\* Mutant: the setting for all nodes comes first.
TxPowerSwapped(n) == IF cfg.txPower = "unset" THEN cfg.node[n].txPower ELSE cfg.txPower

\* A node's own power, or else the one for all.
TxPower(n) == IF cfg.node[n].txPower = "unset" THEN cfg.txPower ELSE cfg.node[n].txPower

\* The loop of setNodeSpecificParam.  The power line has neither a promiscuous
\* mode nor a power to set: ERR_NOT_SUPP, which nobody looks at.
setNodeSpecificParam ==
    /\ pc = "specific"
    /\ \/ TxPower(i) = "junk" /\ Quit("exception")
       \/ /\ TxPower(i) # "junk"
          /\ position' = IF cfg.node[i].nodePosition = "unset" THEN position
                         ELSE [position EXCEPT ![i] = cfg.node[i].nodePosition]
          /\ promiscuous' = IF cfg.PHY = "lowpan" /\ cfg.node[i].nodePromiscuous
                            THEN promiscuous \cup {i} ELSE promiscuous
          /\ power' = IF cfg.PHY = "lowpan" /\ TxPower(i) # "unset"
                      THEN [power EXCEPT ![i] = TxPower(i)] ELSE power
          /\ NextNode("specific", "apps")
          /\ UNCHANGED <<cfg, mac, plc, started>>

\* The simulation's first events, in the order of the nodes.
StartApplication ==
    /\ pc = "apps"
    /\ started' = started \cup {i}
    /\ NextNode("apps", "running")
    /\ UNCHANGED <<cfg, position, mac, phy, plc>>

Next ==
    \/ setPositionAllocator \/ NoInterface
    \/ lrwpanSetup \/ setAllNodesParam
    \/ plcInstall \/ plcAddNode \/ plcConnectLink \/ plcSetupDevices \/ plcConfigMac
    \/ setNodeSpecificParam \/ StartApplication

Spec == Init /\ [][Next]_vars

-----------------------------------------------------------------------------

Ready == callbacks = Nodes /\ tuned = (IF Models THEN Nodes ELSE {})

\* No stackline is asked for while some nodes can send and receive and others
\* cannot, over all the places where start-up stops half way through a loop.
\* The one network that starts without being ready is an LR-WPAN whose
\* propagation model has an unknown name, and there no node is: nothing it sends
\* is reported, nothing sent to it arrives (startNetwork, lrwpanSetup,
\* plcInstall).
AllOrNothing ==
    started # {} =>
        \/ Ready
        \/ Models /\ Unknown /\ callbacks = {} /\ tuned = {}

\* A power line joins nodes that are on the power line already, and when
\* stacklines start there is one for every plc_link and no other, whatever
\* numbers the links were written with (plcInstall, plcConnectLink).  That a number
\* is cut off to 16 bits before its range is checked is taken from the code: a link
\* to 65537 is one to node 1 here too.
LinesJoinNodes ==
    /\ \A l \in lines : \A n \in {l[1], l[2]} : n \in Nodes /\ plcNodes[n] # "none"
    /\ started # {} /\ cfg.PHY = "plc" =>
          lines = {<<n, cfg.node[n].plc_link.to % 65536>> :
                       n \in {m \in Nodes : cfg.node[m].plc_link.kind = "node"}}

\* Where the radio of node n is.
RadioPosition(n) == IF cfg.PHY = "plc" THEN plcNodes[n] ELSE position[n]

Wanted(n) == IF cfg.node[n].nodePosition = "unset" THEN "alloc" ELSE cfg.node[n].nodePosition

\* What the settings say of one node holds when its stackline starts, also when
\* the propagation model was refused: its place, its promiscuous mode and its
\* power, its own before the one for all (setNodeSpecificParam and what runs
\* before and after it).
NodesAsConfigured ==
    started # {} /\ cfg.PHY = "lowpan" =>
        \A n \in Nodes :
            /\ RadioPosition(n) = Wanted(n)
            /\ n \in promiscuous <=> cfg.node[n].nodePromiscuous
            /\ power[n] = CASE cfg.node[n].txPower # "unset" -> cfg.node[n].txPower
                            [] cfg.node[n].txPower = "unset" /\ cfg.txPower # "unset" -> cfg.txPower
                            [] OTHER -> "default"

\* "nodePosition[1]=10,20,0 #Change the node position to the given vector"
\* (config/wf_plc.cfg): also on the power line (plcAddNode,
\* setNodeSpecificParam).
PositionsAsConfigured ==
    started # {} => \A n \in Nodes : RadioPosition(n) = Wanted(n)

=============================================================================
