----------------------------- MODULE SetupProofs ----------------------------
(***************************************************************************)
(* Start-up never asks for a stackline in a network of which only a part   *)
(* is set up, and the network it starts is the one that is configured, for *)
(* any number of nodes and any settings.                                   *)
(***************************************************************************)
EXTENDS Setup, TLAPS

\* Where a loop goes after one node.
LEMMA NextNodeGoes ==
    ASSUME i \in Nodes, NEW step, NEW after, NextNode(step, after)
    PROVE  \/ pc' = after /\ i' = 0 /\ i = N - 1
           \/ pc' = step /\ i' = i + 1 /\ i' \in Nodes
BY SetupAssumption DEF NextNode, Goto, Nodes

\* The first n + 1 nodes.
LEMMA OneMoreNode ==
    ASSUME i \in Nodes
    PROVE  /\ (0..(i - 1)) \cup {i} = 0..i
           /\ (0..(i - 1)) \cup {i} = 0..((i + 1) - 1)
           /\ i = N - 1 => (0..(i - 1)) \cup {i} = Nodes
BY SetupAssumption DEF Nodes

LEMMA FirstNode == 0 \in Nodes /\ 0..(0 - 1) = {}
BY SetupAssumption DEF Nodes

-----------------------------------------------------------------------------
LEMMA InitTyped == Init => TypeOK
BY FirstNode DEF Init, TypeOK, Steps, Ends

LEMMA StepTyped == TypeOK /\ [Next]_vars => TypeOK'
<1> SUFFICES ASSUME TypeOK, [Next]_vars PROVE TypeOK'
  OBVIOUS
<1> USE SetupAssumption DEF TypeOK, Steps, Ends
<1>q. ASSUME NEW end \in Ends, Quit(end) PROVE TypeOK'
  BY <1>q DEF Quit
<1>1. CASE setPositionAllocator
  BY <1>1, <1>q, FirstNode DEF setPositionAllocator, Goto, mac, phy, plc
<1>2. CASE NoInterface
  BY <1>2, <1>q DEF NoInterface
<1>3. CASE lrwpanSetup
  BY <1>3, <1>q, FirstNode DEF lrwpanSetup, Goto, mac, phy, plc
<1>4. CASE setAllNodesParam
  <2>1. CASE Quit("exception")
    BY <2>1, <1>q
  <2>2. CASE ~Quit("exception")
    BY <1>4, <2>2, FirstNode, NextNodeGoes DEF setAllNodesParam, phy, plc
  <2> QED BY <2>1, <2>2
<1>5. CASE plcInstall
  BY <1>5, <1>q, FirstNode DEF plcInstall, Goto, mac, phy, plc
<1>6. CASE plcAddNode
  <2>1. CASE Quit("exception")
    BY <2>1, <1>q
  <2>2. CASE ~Quit("exception")
    BY <1>6, <2>2, FirstNode, NextNodeGoes DEF plcAddNode, mac, phy
  <2> QED BY <2>1, <2>2
<1>7. CASE plcConnectLink
  <2> DEFINE link == cfg.node[i].plc_link
  <2>1. CASE Quit("exception") \/ Quit("FAILURE")
    BY <2>1, <1>q
  <2>2. CASE link.kind = "none" /\ ~Quit("exception")
    BY <1>7, <2>2, FirstNode, NextNodeGoes DEF plcConnectLink, mac, phy, plc
  <2>3. CASE /\ link.kind = "node" /\ LinkEnd(link) # -1 /\ link.cable = "known"
             /\ lines' = lines \cup {<<i, LinkEnd(link)>>}
             /\ NextNode("plcLinks", "plcDevices")
             /\ UNCHANGED <<cfg, position, mac, phy, plcNodes, started>>
    <3>1. LinkEnd(link) \in Nodes
      <4>1. link \in LinkType
        BY DEF SettingsType, NodeSettings
      <4>2. link.to \in Int
        BY <4>1 DEF LinkType
      <4> QED BY <2>3, <4>2 DEF LinkEnd, Nodes
    <3> QED BY <2>3, <3>1, FirstNode, NextNodeGoes DEF mac, phy
  <2> QED BY <1>7, <2>1, <2>2, <2>3 DEF plcConnectLink
<1>8. CASE plcSetupDevices
  BY <1>8, <1>q, FirstNode DEF plcSetupDevices, Goto, mac, phy, plc
<1>9. CASE plcConfigMac
  BY <1>9, FirstNode, NextNodeGoes DEF plcConfigMac, phy, plc
<1>10. CASE setNodeSpecificParam
  <2>1. CASE Quit("exception")
    BY <2>1, <1>q
  <2>2. CASE ~Quit("exception")
    <3>1. cfg \in SettingsType /\ cfg.node[i] \in NodeSettings
      BY DEF SettingsType
    <3>2. TxPower(i) \in Powers \cup {"unset", "junk"}
      BY <3>1 DEF SettingsType, NodeSettings, TxPower
    <3>3. cfg.node[i].nodePosition \in Positions \cup {"unset"}
      BY <3>1 DEF NodeSettings
    <3>4. position' \in [Nodes -> Positions \cup {"none", "alloc"}]
      BY <1>10, <2>2, <3>3 DEF setNodeSpecificParam
    <3>5. power' \in [Nodes -> Powers \cup {"default"}]
      BY <1>10, <2>2, <3>2 DEF setNodeSpecificParam
    <3>6. promiscuous' \subseteq Nodes
      BY <1>10, <2>2 DEF setNodeSpecificParam
    <3>7. (pc' \in Steps \cup Ends) /\ (i' \in Nodes)
      BY <1>10, <2>2, FirstNode, NextNodeGoes DEF setNodeSpecificParam
    <3> QED BY <1>10, <2>2, <3>4, <3>5, <3>6, <3>7 DEF setNodeSpecificParam, mac, plc
  <2> QED BY <2>1, <2>2
<1>11. CASE StartApplication
  BY <1>11, FirstNode, NextNodeGoes DEF StartApplication, mac, phy, plc
<1>12. CASE UNCHANGED vars
  BY <1>12 DEF vars
<1> QED BY <1>1, <1>2, <1>3, <1>4, <1>5, <1>6, <1>7, <1>8, <1>9, <1>10, <1>11, <1>12 DEF Next

\* The state of start-up always has the type TypeOK says: no loop over the nodes
\* leaves them, and no line of the power line ends where no node is.
THEOREM TypeCorrect == Spec => []TypeOK
BY InitTyped, StepTyped, PTL DEF Spec

-----------------------------------------------------------------------------
\* How far start-up has come says which nodes call back, and no stackline is
\* asked for before the last loop: AllOrNothing is not inductive without it.
Progress ==
    /\ pc \in {"topology", "iface", "plcNodes", "plcLinks", "plcDevices"} =>
          callbacks = {} /\ tuned = {}
    /\ pc \in {"plcNodes", "plcLinks", "plcDevices", "plcMacs"} => cfg.PHY = "plc"
    /\ pc = "plcMacs" => callbacks = 0..(i - 1) /\ tuned = {}
    /\ pc = "macs" => /\ cfg.PHY = "lowpan"
                      /\ callbacks = 0..(i - 1)
                      /\ tuned = IF Models THEN 0..(i - 1) ELSE {}
    /\ pc \in {"specific", "apps", "running"} =>
          Ready \/ (Models /\ Unknown /\ callbacks = {} /\ tuned = {})
    /\ started # {} => pc \in {"apps", "running"}

LEMMA InitProgress == Init => Progress
BY DEF Init, Progress

\* A step that ends start-up: it had asked for no stackline.
LEMMA QuitProgress ==
    ASSUME TypeOK, Progress, pc \notin {"apps", "running"}, NEW end \in Ends, Quit(end)
    PROVE  Progress'
BY DEF Quit, Progress, Ends

\* The settings do not change, nor what follows from them.
LEMMA SettingsStay ==
    ASSUME cfg' = cfg
    PROVE  (Models' <=> Models) /\ (Unknown' <=> Unknown)
BY DEF Models, Unknown

LEMMA StepProgress == TypeOK /\ Progress /\ [Next]_vars => Progress'
<1> SUFFICES ASSUME TypeOK, Progress, [Next]_vars PROVE Progress'
  OBVIOUS
<1>t. i \in Nodes
  BY DEF TypeOK
<1>q. ASSUME pc \notin {"apps", "running"}, NEW end \in Ends, Quit(end) PROVE Progress'
  BY <1>q, QuitProgress
<1>e. "FAILURE" \in Ends /\ "exception" \in Ends /\ "segfault" \in Ends
  BY DEF Ends
<1>1. CASE setPositionAllocator
  BY <1>1, <1>q, <1>e DEF setPositionAllocator, Goto, mac, phy, plc, Progress
<1>2. CASE NoInterface
  BY <1>2, <1>q, <1>e DEF NoInterface
<1>3. CASE lrwpanSetup
  <2>1. CASE Quit("exception")
    BY <1>3, <2>1, <1>q, <1>e DEF lrwpanSetup
  <2>2. CASE ~Quit("exception")
    <3>1. /\ pc = "iface" /\ cfg.PHY = "lowpan" /\ cfg' = cfg /\ started' = started
          /\ callbacks' = callbacks /\ tuned' = tuned /\ i' = 0
          /\ pc' = IF Unknown THEN "specific" ELSE "macs"
      BY <1>3, <2>2 DEF lrwpanSetup, Goto, mac
    <3>2. callbacks = {} /\ tuned = {} /\ started = {}
      BY <3>1 DEF Progress
    <3>3. CASE Unknown
      <4>1. Models
        BY <3>1, <3>3 DEF Models, Unknown
      <4> QED BY <3>1, <3>2, <3>3, <4>1, SettingsStay DEF Progress
    <3>4. CASE ~Unknown
      BY <3>1, <3>2, <3>4, FirstNode, SettingsStay DEF Progress
    <3> QED BY <3>3, <3>4
  <2> QED BY <2>1, <2>2
<1>4. CASE setAllNodesParam
  <2>1. CASE Quit("exception")
    BY <1>4, <2>1, <1>q, <1>e DEF setAllNodesParam
  <2>2. CASE ~Quit("exception")
    <3>1. /\ pc = "macs" /\ cfg' = cfg /\ started' = started
          /\ callbacks' = callbacks \cup {i}
          /\ tuned' = IF Models THEN tuned \cup {i} ELSE tuned
          /\ NextNode("macs", "specific")
      BY <1>4, <2>2 DEF setAllNodesParam
    <3>2. /\ callbacks = 0..(i - 1) /\ started = {} /\ cfg.PHY = "lowpan"
          /\ tuned = IF Models THEN 0..(i - 1) ELSE {}
      BY <3>1 DEF Progress
    <3>3. CASE pc' = "specific" /\ i = N - 1
      <4>1. callbacks' = Nodes /\ tuned' = IF Models THEN Nodes ELSE {}
        BY <1>t, <3>1, <3>2, <3>3, OneMoreNode
      <4>2. Ready'
        BY <3>1, <4>1, SettingsStay DEF Ready, Nodes
      <4> QED BY <3>1, <3>2, <3>3, <4>2 DEF Progress
    <3>4. CASE pc' = "macs" /\ i' = i + 1
      <4>1. callbacks' = 0..(i' - 1) /\ tuned' = IF Models THEN 0..(i' - 1) ELSE {}
        BY <1>t, <3>1, <3>2, <3>4, OneMoreNode
      <4> QED BY <3>1, <3>2, <3>4, <4>1, SettingsStay DEF Progress
    <3> QED BY <1>t, <3>1, <3>3, <3>4, NextNodeGoes
  <2> QED BY <2>1, <2>2
<1>5. CASE plcInstall
  BY <1>5, <1>q, <1>e DEF plcInstall, Goto, mac, phy, plc, Progress
<1>6. CASE plcAddNode
  BY <1>6, <1>t, <1>q, <1>e, NextNodeGoes DEF plcAddNode, mac, phy, Progress
<1>7. CASE plcConnectLink
  BY <1>7, <1>t, <1>q, <1>e, NextNodeGoes DEF plcConnectLink, mac, phy, plc, Progress
<1>8. CASE plcSetupDevices
  BY <1>8, <1>q, <1>e, FirstNode DEF plcSetupDevices, Goto, mac, phy, plc, Progress
<1>9. CASE plcConfigMac
  <2>1. /\ pc = "plcMacs" /\ cfg' = cfg /\ started' = started /\ tuned' = tuned
        /\ callbacks' = callbacks \cup {i}
        /\ NextNode("plcMacs", "specific")
    BY <1>9 DEF plcConfigMac
  <2>2. callbacks = 0..(i - 1) /\ tuned = {} /\ started = {} /\ cfg.PHY = "plc"
    BY <2>1 DEF Progress
  <2>3. CASE pc' = "specific" /\ i = N - 1
    <3>1. callbacks' = Nodes
      BY <1>t, <2>1, <2>2, <2>3, OneMoreNode
    <3>2. ~Models'
      BY <2>1, <2>2 DEF Models
    <3>3. Ready'
      BY <2>1, <2>2, <3>1, <3>2 DEF Ready, Nodes
    <3> QED BY <2>1, <2>2, <2>3, <3>3 DEF Progress
  <2>4. CASE pc' = "plcMacs" /\ i' = i + 1
    <3>1. callbacks' = 0..(i' - 1)
      BY <1>t, <2>1, <2>2, <2>4, OneMoreNode
    <3> QED BY <2>1, <2>2, <2>4, <3>1 DEF Progress
  <2> QED BY <1>t, <2>1, <2>3, <2>4, NextNodeGoes
<1>10. CASE setNodeSpecificParam
  <2>1. CASE Quit("exception")
    BY <1>10, <2>1, <1>q, <1>e DEF setNodeSpecificParam
  <2>2. CASE ~Quit("exception")
    <3>1. /\ pc = "specific" /\ pc' \in {"specific", "apps"} /\ cfg' = cfg
          /\ callbacks' = callbacks /\ tuned' = tuned /\ started' = started
      BY <1>10, <1>t, <2>2, NextNodeGoes DEF setNodeSpecificParam, mac
    <3> QED BY <3>1, SettingsStay DEF Progress, Ready, Nodes
  <2> QED BY <2>1, <2>2
<1>11. CASE StartApplication
  <2>1. /\ pc = "apps" /\ pc' \in {"apps", "running"} /\ cfg' = cfg
        /\ callbacks' = callbacks /\ tuned' = tuned
    BY <1>11, <1>t, NextNodeGoes DEF StartApplication, mac
  <2> QED BY <2>1, SettingsStay DEF Progress, Ready, Nodes
<1>12. CASE UNCHANGED vars
  BY <1>12 DEF vars, Progress, Ready, Models, Unknown, Nodes
<1> QED BY <1>1, <1>2, <1>3, <1>4, <1>5, <1>6, <1>7, <1>8, <1>9, <1>10, <1>11, <1>12 DEF Next

\* No stackline is asked for while some nodes can send and receive and others
\* cannot, for any number of nodes and any settings.
THEOREM StartsAllOrNothing == Spec => []AllOrNothing
<1>1. Progress => AllOrNothing
  BY DEF Progress, AllOrNothing
<1> QED BY <1>1, InitTyped, StepTyped, InitProgress, StepProgress, PTL DEF Spec

-----------------------------------------------------------------------------
(* The power line.                                                          *)

\* Where the link of node n ends, and the links of the nodes of S.
To(n) == cfg.node[n].plc_link.to % 65536

Links(S) == {<<n, To(n)>> :
                 n \in {m \in S : cfg.node[m].plc_link.kind = "node"}}

Wiring == {"plcLinks", "plcDevices", "plcMacs"}
Last   == {"specific", "apps", "running"}

\* All nodes are on the power line before the first line is laid, and the lines
\* laid are those of the nodes the loop has passed: LinesJoinNodes is not
\* inductive without what the loops have done so far.
Wired ==
    /\ pc \in Steps \ {"topology"} => \A n \in Nodes : position[n] # "none"
    /\ pc \in {"topology", "iface", "macs", "plcNodes"} => lines = {}
    /\ pc = "plcNodes" => \A n \in 0..(i - 1) : plcNodes[n] # "none"
    /\ pc \in Wiring \/ (pc \in Last /\ cfg.PHY = "plc") \/ lines # {}
          => \A n \in Nodes : plcNodes[n] # "none"
    /\ pc = "plcLinks" => lines = Links(0..(i - 1))
    /\ pc \in {"plcDevices", "plcMacs"} \/ (pc \in Last /\ cfg.PHY = "plc")
          => lines = Links(Nodes)

LEMMA InitWired == Init => Wired
BY DEF Init, Wired, Wiring, Last

LEMMA QuitWired ==
    ASSUME Wired, NEW end \in Ends, Quit(end)
    PROVE  Wired'
BY DEF Wired, Wiring, Last, Quit, Ends, Steps

\* One node more has its line laid, or has none.
LEMMA OneMoreLink ==
    Links((0..(i - 1)) \cup {i}) = IF cfg.node[i].plc_link.kind = "node"
                                   THEN Links(0..(i - 1)) \cup {<<i, To(i)>>}
                                   ELSE Links(0..(i - 1))
BY DEF Links

LEMMA LinkEndGiven ==
    ASSUME TypeOK, LinkEnd(cfg.node[i].plc_link) # -1
    PROVE  LinkEnd(cfg.node[i].plc_link) = To(i)
<1>1. cfg.node[i].plc_link \in LinkType
  BY SetupAssumption DEF TypeOK, SettingsType, NodeSettings
<1>2. cfg.node[i].plc_link.to \in Int
  BY <1>1 DEF LinkType
<1> QED BY <1>2 DEF LinkEnd, To

\* A step of the loop over the links lays at most the node's own line.
LEMMA LinkWired ==
    ASSUME TypeOK, Wired, pc = "plcLinks", NextNode("plcLinks", "plcDevices"),
           UNCHANGED <<cfg, position, plcNodes>>, lines' = Links((0..(i - 1)) \cup {i})
    PROVE  Wired'
<1>1. i \in Nodes /\ \A n \in Nodes : position[n] # "none" /\ plcNodes[n] # "none"
  BY DEF TypeOK, Wired, Wiring, Steps
<1>2. CASE pc' = "plcDevices" /\ i = N - 1
  <2>1. lines' = Links(Nodes)
    BY <1>1, <1>2, OneMoreNode
  <2> QED BY <1>1, <1>2, <2>1 DEF Wired, Wiring, Last, Links, To, Nodes
<1>3. CASE pc' = "plcLinks" /\ i' = i + 1
  <2>1. lines' = Links(0..(i' - 1))
    BY <1>1, <1>3, OneMoreNode
  <2> QED BY <1>1, <1>3, <2>1 DEF Wired, Wiring, Last, Links, To, Nodes
<1> QED BY <1>1, <1>2, <1>3, NextNodeGoes

LEMMA StepWired == TypeOK /\ Progress /\ Wired /\ [Next]_vars => Wired'
<1> SUFFICES ASSUME TypeOK, Progress, Wired, [Next]_vars PROVE Wired'
  OBVIOUS
<1>t. i \in Nodes /\ Nodes = 0..(N - 1)
  BY DEF TypeOK, Nodes
<1>q. ASSUME NEW end \in Ends, Quit(end) PROVE Wired'
  BY <1>q, QuitWired
<1>e. "FAILURE" \in Ends /\ "exception" \in Ends /\ "segfault" \in Ends
  BY DEF Ends
<1>1. CASE setPositionAllocator
  <2>1. CASE Quit("exception") \/ Quit("FAILURE")
    BY <2>1, <1>q, <1>e
  <2>2. CASE ~Quit("exception") /\ ~Quit("FAILURE")
    <3>1. /\ pc = "topology" /\ pc' = "iface" /\ lines' = lines
          /\ position' = [n \in Nodes |-> "alloc"]
      BY <1>1, <2>2 DEF setPositionAllocator, Goto, plc
    <3> QED BY <3>1 DEF Wired, Wiring, Last, Nodes
  <2> QED BY <2>1, <2>2
<1>2. CASE NoInterface
  BY <1>2, <1>q, <1>e DEF NoInterface
<1>3. CASE lrwpanSetup
  <2>1. CASE Quit("exception")
    BY <2>1, <1>q, <1>e
  <2>2. CASE ~Quit("exception")
    <3>1. /\ pc = "iface" /\ pc' \in {"specific", "macs"} /\ cfg.PHY = "lowpan"
          /\ UNCHANGED <<cfg, position, plcNodes, lines>>
      BY <1>3, <2>2 DEF lrwpanSetup, Goto, plc
    <3> QED BY <3>1 DEF Wired, Wiring, Last, Nodes, Steps
  <2> QED BY <2>1, <2>2
<1>4. CASE setAllNodesParam
  <2>1. CASE Quit("exception")
    BY <2>1, <1>q, <1>e
  <2>2. CASE ~Quit("exception")
    <3>1. /\ pc = "macs" /\ pc' \in {"specific", "macs"} /\ cfg.PHY = "lowpan"
          /\ UNCHANGED <<cfg, position, plcNodes, lines>>
      BY <1>4, <1>t, <2>2, NextNodeGoes DEF setAllNodesParam, plc, Progress
    <3> QED BY <3>1 DEF Wired, Wiring, Last, Nodes, Steps
  <2> QED BY <2>1, <2>2
<1>5. CASE plcInstall
  <2>1. CASE Quit("FAILURE")
    BY <2>1, <1>q, <1>e
  <2>2. CASE ~Quit("FAILURE")
    <3>1. /\ pc = "iface" /\ pc' = "plcNodes" /\ i' = 0
          /\ UNCHANGED <<cfg, position, plcNodes, lines>>
      BY <1>5, <2>2 DEF plcInstall, Goto, plc
    <3> QED BY <3>1, FirstNode DEF Wired, Wiring, Last, Nodes, Steps
  <2> QED BY <2>1, <2>2
<1>6. CASE plcAddNode
  <2>1. CASE Quit("exception")
    BY <2>1, <1>q, <1>e
  <2>2. CASE ~Quit("exception")
    <3>1. /\ pc = "plcNodes" /\ NextNode("plcNodes", "plcLinks")
          /\ UNCHANGED <<cfg, position, lines>>
          /\ plcNodes' = [plcNodes EXCEPT ![i] = position[i]]
      BY <1>6, <2>2 DEF plcAddNode
    <3>2. /\ \A n \in Nodes : position[n] # "none"
          /\ lines = {}
          /\ \A n \in 0..(i - 1) : plcNodes[n] # "none"
      BY <3>1 DEF Wired, Steps
    <3>3. \A n \in (0..(i - 1)) \cup {i} : plcNodes'[n] # "none"
      BY <1>t, <3>1, <3>2 DEF TypeOK
    <3>4. CASE pc' = "plcLinks" /\ i' = 0 /\ i = N - 1
      <4>1. \A n \in Nodes : plcNodes'[n] # "none"
        BY <1>t, <3>3, <3>4, OneMoreNode
      <4>2. Links({}) = {}
        BY DEF Links
      <4>3. lines' = Links(0..(i' - 1))
        BY <3>1, <3>2, <3>4, <4>2, FirstNode
      <4> QED BY <3>1, <3>2, <3>4, <4>1, <4>3 DEF Wired, Wiring, Last, Links, To, Nodes
    <3>5. CASE pc' = "plcNodes" /\ i' = i + 1
      <4>1. \A n \in 0..(i' - 1) : plcNodes'[n] # "none"
        BY <1>t, <3>3, <3>5, OneMoreNode
      <4> QED BY <3>1, <3>2, <3>5, <4>1 DEF Wired, Wiring, Last, Nodes
    <3> QED BY <1>t, <3>1, <3>4, <3>5, NextNodeGoes
  <2> QED BY <2>1, <2>2
<1>7. CASE plcConnectLink
  <2> DEFINE link == cfg.node[i].plc_link
  <2>1. CASE Quit("exception") \/ Quit("FAILURE")
    BY <2>1, <1>q, <1>e
  <2>2. pc = "plcLinks"
    BY <1>7 DEF plcConnectLink
  <2>3. lines = Links(0..(i - 1))
    BY <2>2 DEF Wired
  <2>6. Links((0..(i - 1)) \cup {i}) = IF link.kind = "node"
                                       THEN Links(0..(i - 1)) \cup {<<i, To(i)>>}
                                       ELSE Links(0..(i - 1))
    BY OneMoreLink
  <2>4. CASE /\ link.kind = "none" /\ NextNode("plcLinks", "plcDevices")
             /\ UNCHANGED <<cfg, position, mac, phy, plc, started>>
    <3>1. lines' = Links((0..(i - 1)) \cup {i})
      BY <2>3, <2>4, <2>6 DEF plc
    <3> QED BY <2>2, <2>4, <3>1, LinkWired DEF plc
  <2>5. CASE /\ link.kind = "node" /\ LinkEnd(link) # -1
             /\ lines' = lines \cup {<<i, LinkEnd(link)>>}
             /\ NextNode("plcLinks", "plcDevices")
             /\ UNCHANGED <<cfg, position, mac, phy, plcNodes, started>>
    <3>1. LinkEnd(link) = To(i)
      BY <2>5, LinkEndGiven
    <3>2. lines' = Links((0..(i - 1)) \cup {i})
      BY <2>3, <2>5, <2>6, <3>1
    <3> QED BY <2>2, <2>5, <3>2, LinkWired
  <2> QED BY <1>7, <2>1, <2>4, <2>5 DEF plcConnectLink
<1>8. CASE plcSetupDevices
  <2>1. CASE Quit("exception")
    BY <2>1, <1>q, <1>e
  <2>2. CASE ~Quit("exception")
    <3>1. /\ pc = "plcDevices" /\ pc' = "plcMacs"
          /\ UNCHANGED <<cfg, position, plcNodes, lines>>
      BY <1>8, <2>2 DEF plcSetupDevices, Goto, plc
    <3> QED BY <3>1 DEF Wired, Wiring, Last, Nodes, Steps, Links, To
  <2> QED BY <2>1, <2>2
<1>9. CASE plcConfigMac
  <2>1. /\ pc = "plcMacs" /\ pc' \in {"plcMacs", "specific"}
        /\ UNCHANGED <<cfg, position, plcNodes, lines>>
    BY <1>9, <1>t, NextNodeGoes DEF plcConfigMac, plc
  <2> QED BY <2>1 DEF Wired, Wiring, Last, Nodes, Steps, Links, To
<1>10. CASE setNodeSpecificParam
  <2>1. CASE Quit("exception")
    BY <2>1, <1>q, <1>e
  <2>2. CASE ~Quit("exception")
    <3>1. /\ pc = "specific" /\ pc' \in {"specific", "apps"}
          /\ UNCHANGED <<cfg, plcNodes, lines>>
      BY <1>10, <1>t, <2>2, NextNodeGoes DEF setNodeSpecificParam, plc
    <3>2. position' = IF cfg.node[i].nodePosition = "unset" THEN position
                      ELSE [position EXCEPT ![i] = cfg.node[i].nodePosition]
      BY <1>10, <2>2 DEF setNodeSpecificParam
    <3>3. cfg.node[i].nodePosition \in Positions \cup {"unset"}
      BY <1>t, SetupAssumption DEF TypeOK, SettingsType, NodeSettings
    <3>4. \A n \in Nodes : position[n] # "none"
      BY <3>1 DEF Wired, Steps
    <3>5. \A n \in Nodes : position'[n] # "none"
      BY <3>2, <3>3, <3>4, SetupAssumption DEF TypeOK
    <3> QED BY <3>1, <3>5 DEF Wired, Wiring, Last, Nodes, Links, To
  <2> QED BY <2>1, <2>2
<1>11. CASE StartApplication
  <2>1. /\ pc = "apps" /\ pc' \in {"apps", "running"}
        /\ UNCHANGED <<cfg, position, plcNodes, lines>>
    BY <1>11, <1>t, NextNodeGoes DEF StartApplication, plc
  <2> QED BY <2>1 DEF Wired, Wiring, Last, Nodes, Steps, Links, To
<1>12. CASE UNCHANGED vars
  BY <1>12 DEF vars, Wired, Wiring, Last, Nodes, Links, To
<1> QED BY <1>1, <1>2, <1>3, <1>4, <1>5, <1>6, <1>7, <1>8, <1>9, <1>10, <1>11, <1>12 DEF Next

\* A power line joins nodes that are on the power line already, and when
\* stacklines start there is one for every plc_link and no other, for any number
\* of nodes and any numbers in the links.
THEOREM PowerLinesAsConfigured == Spec => []LinesJoinNodes
<1>1. TypeOK /\ Progress /\ Wired => LinesJoinNodes
  <2> SUFFICES ASSUME TypeOK, Progress, Wired PROVE LinesJoinNodes
    OBVIOUS
  <2>1. ASSUME NEW l \in lines, NEW n \in {l[1], l[2]}
        PROVE  n \in Nodes /\ plcNodes[n] # "none"
    BY <2>1 DEF TypeOK, Wired
  <2>2. ASSUME started # {}, cfg.PHY = "plc" PROVE lines = Links(Nodes)
    BY <2>2 DEF Progress, Wired, Last
  <2> QED BY <2>1, <2>2 DEF LinesJoinNodes, Links, To
<1> QED BY <1>1, InitTyped, StepTyped, InitProgress, StepProgress, InitWired, StepWired,
           PTL DEF Spec

-----------------------------------------------------------------------------
(* What the settings say of one node.                                       *)

\* The power a node's settings ask for.
WantedPower(n) ==
    CASE cfg.node[n].txPower # "unset" -> cfg.node[n].txPower
      [] cfg.node[n].txPower = "unset" /\ cfg.txPower # "unset" -> cfg.txPower
      [] OTHER -> "default"

Configured(n) ==
    /\ position[n] = Wanted(n)
    /\ n \in promiscuous <=> cfg.node[n].nodePromiscuous
    /\ power[n] = WantedPower(n)

Untouched(n) == position[n] = "alloc" /\ n \notin promiscuous /\ power[n] = "default"

\* The last loop of start-up finds every node of an LR-WPAN untouched, whether
\* the propagation model was refused or not, and leaves it configured:
\* NodesAsConfigured is not inductive without the nodes the loop has yet to reach.
Placed ==
    /\ pc = "topology" => \A n \in Nodes : n \notin promiscuous /\ power[n] = "default"
    /\ pc \in {"iface", "macs"} => \A n \in Nodes : Untouched(n)
    /\ pc = "specific" /\ cfg.PHY = "lowpan" =>
          \A n \in Nodes : IF n < i THEN Configured(n) ELSE Untouched(n)
    /\ pc \in {"apps", "running"} /\ cfg.PHY = "lowpan" => \A n \in Nodes : Configured(n)

LEMMA InitPlaced == Init => Placed
BY DEF Init, Placed

LEMMA QuitPlaced ==
    ASSUME NEW end \in Ends, Quit(end)
    PROVE  Placed'
BY DEF Placed, Quit, Ends

\* A step that leaves the nodes and their settings as they were.
LEMMA NodesStay ==
    ASSUME UNCHANGED <<cfg, position, promiscuous, power>>, NEW n \in Nodes
    PROVE  (Configured(n)' <=> Configured(n)) /\ (Untouched(n)' <=> Untouched(n))
BY DEF Configured, Untouched, Wanted, WantedPower

\* The last loop's body configures its node and touches no other.
LEMMA NodeConfigured ==
    ASSUME TypeOK, cfg.PHY = "lowpan", pc = "specific", Untouched(i),
           setNodeSpecificParam, ~Quit("exception")
    PROVE  /\ position'[i] = Wanted(i)
           /\ i \in promiscuous' <=> cfg.node[i].nodePromiscuous
           /\ power'[i] = WantedPower(i)
           /\ \A n \in Nodes \ {i} : /\ position'[n] = position[n]
                                     /\ n \in promiscuous' <=> n \in promiscuous
                                     /\ power'[n] = power[n]
           /\ cfg' = cfg
<1>1. /\ cfg' = cfg
      /\ TxPower(i) # "junk"
      /\ position' = IF cfg.node[i].nodePosition = "unset" THEN position
                     ELSE [position EXCEPT ![i] = cfg.node[i].nodePosition]
      /\ promiscuous' = IF cfg.node[i].nodePromiscuous
                        THEN promiscuous \cup {i} ELSE promiscuous
      /\ power' = IF TxPower(i) # "unset"
                  THEN [power EXCEPT ![i] = TxPower(i)] ELSE power
  BY DEF setNodeSpecificParam
<1>2. /\ i \in Nodes
      /\ position \in [Nodes -> Positions \cup {"none", "alloc"}]
      /\ power \in [Nodes -> Powers \cup {"default"}]
  BY DEF TypeOK
<1>3. \A n \in Nodes \ {i} : /\ position'[n] = position[n]
                             /\ n \in promiscuous' <=> n \in promiscuous
                             /\ power'[n] = power[n]
  BY <1>1, <1>2
<1>4. position'[i] = Wanted(i)
  BY <1>1, <1>2 DEF Untouched, Wanted
<1>5. i \in promiscuous' <=> cfg.node[i].nodePromiscuous
  BY <1>1 DEF Untouched
<1>6. power'[i] = WantedPower(i)
  <2>1. CASE TxPower(i) # "unset"
    BY <1>1, <1>2, <2>1 DEF TxPower, WantedPower
  <2>2. CASE TxPower(i) = "unset"
    BY <1>1, <1>2, <2>2 DEF TxPower, WantedPower, Untouched
  <2> QED BY <2>1, <2>2
<1> QED BY <1>1, <1>3, <1>4, <1>5, <1>6

LEMMA StepPlaced == TypeOK /\ Progress /\ Placed /\ [Next]_vars => Placed'
<1> SUFFICES ASSUME TypeOK, Progress, Placed, [Next]_vars PROVE Placed'
  OBVIOUS
<1>t. i \in Nodes /\ N \in Nat /\ Nodes = 0..(N - 1)
  BY SetupAssumption DEF TypeOK, Nodes
<1>q. ASSUME NEW end \in Ends, Quit(end) PROVE Placed'
  BY <1>q, QuitPlaced
<1>e. "FAILURE" \in Ends /\ "exception" \in Ends /\ "segfault" \in Ends
  BY DEF Ends
<1>1. CASE setPositionAllocator
  <2>1. CASE Quit("exception") \/ Quit("FAILURE")
    BY <2>1, <1>q, <1>e
  <2>2. CASE ~Quit("exception") /\ ~Quit("FAILURE")
    <3>1. /\ pc = "topology" /\ pc' = "iface"
          /\ position' = [n \in Nodes |-> "alloc"]
          /\ UNCHANGED <<promiscuous, power>>
      BY <1>1, <2>2 DEF setPositionAllocator, Goto, phy
    <3>2. \A n \in Nodes : Untouched(n)'
      BY <3>1 DEF Placed, Untouched
    <3> QED BY <3>1, <3>2, <1>t DEF Placed, Nodes
  <2> QED BY <2>1, <2>2
<1>2. CASE NoInterface
  BY <1>2, <1>q, <1>e DEF NoInterface
<1>3. CASE lrwpanSetup \/ setAllNodesParam
  <2>1. CASE Quit("exception")
    BY <2>1, <1>q, <1>e
  <2>2. CASE ~Quit("exception")
    <3>1. /\ pc \in {"iface", "macs"}
          /\ (pc' = "specific" /\ i' = 0) \/ pc' = "macs"
          /\ UNCHANGED <<cfg, position, promiscuous, power>>
      BY <1>3, <1>t, <2>2, NextNodeGoes DEF lrwpanSetup, setAllNodesParam, Goto, phy
    <3>2. \A n \in Nodes : Untouched(n)'
      BY <3>1, NodesStay DEF Placed
    <3>3. \A n \in Nodes : ~(n < 0)
      BY <1>t
    <3> QED BY <3>1, <3>2, <3>3 DEF Placed, Nodes
  <2> QED BY <2>1, <2>2
<1>4. CASE plcInstall \/ plcAddNode \/ plcConnectLink \/ plcSetupDevices \/ plcConfigMac
  <2>1. CASE Quit("exception") \/ Quit("FAILURE")
    BY <2>1, <1>q, <1>e
  <2>2. CASE ~Quit("exception") /\ ~Quit("FAILURE")
    <3>1. pc' \in {"plcNodes", "plcLinks", "plcDevices", "plcMacs", "specific"} /\ cfg' = cfg
      BY <1>4, <1>t, <2>2, NextNodeGoes
      DEF plcInstall, plcAddNode, plcConnectLink, plcSetupDevices, plcConfigMac, Goto
    <3>2. cfg.PHY = "plc"
      BY <1>4 DEF plcInstall, plcAddNode, plcConnectLink, plcSetupDevices, plcConfigMac, Progress
    <3> QED BY <3>1, <3>2 DEF Placed
  <2> QED BY <2>1, <2>2
<1>5. CASE setNodeSpecificParam
  <2>1. CASE Quit("exception")
    BY <2>1, <1>q, <1>e
  <2>2. CASE ~Quit("exception")
    <3>1. /\ pc = "specific" /\ cfg' = cfg /\ NextNode("specific", "apps")
      BY <1>5, <2>2 DEF setNodeSpecificParam
    <3>2. CASE cfg.PHY # "lowpan"
      BY <1>t, <3>1, <3>2, NextNodeGoes DEF Placed
    <3>3. CASE cfg.PHY = "lowpan"
      <4>1. Untouched(i) /\ \A n \in Nodes : IF n < i THEN Configured(n) ELSE Untouched(n)
        BY <1>t, <3>1, <3>3 DEF Placed
      <4>2. /\ position'[i] = Wanted(i)
            /\ i \in promiscuous' <=> cfg.node[i].nodePromiscuous
            /\ power'[i] = WantedPower(i)
            /\ \A n \in Nodes \ {i} : /\ position'[n] = position[n]
                                      /\ n \in promiscuous' <=> n \in promiscuous
                                      /\ power'[n] = power[n]
        BY <1>5, <2>2, <3>1, <3>3, <4>1, NodeConfigured
      <4>3. ASSUME NEW n \in Nodes, n <= i PROVE Configured(n)'
        <5>1. CASE n = i
          BY <3>1, <4>2, <5>1 DEF Configured, Wanted, WantedPower
        <5>2. CASE n # i
          <6>1. Configured(n)
            BY <1>t, <4>1, <4>3, <5>2
          <6> QED BY <3>1, <4>2, <5>2, <6>1 DEF Configured, Wanted, WantedPower
        <5> QED BY <5>1, <5>2
      <4>4. ASSUME NEW n \in Nodes, i < n PROVE Untouched(n)'
        BY <1>t, <4>1, <4>2, <4>4 DEF Untouched
      <4>5. CASE pc' = "apps" /\ i = N - 1
        <5>1. \A n \in Nodes : n <= i
          BY <1>t, <4>5
        <5> QED BY <4>3, <4>5, <5>1 DEF Placed, Nodes
      <4>6. CASE pc' = "specific" /\ i' = i + 1
        <5>1. \A n \in Nodes : (n < i' => n <= i) /\ (~(n < i') => i < n)
          BY <1>t, <4>6
        <5>2. \A n \in Nodes : IF n < i' THEN Configured(n)' ELSE Untouched(n)'
          BY <4>3, <4>4, <5>1
        <5> QED BY <4>6, <5>2 DEF Placed, Nodes
      <4> QED BY <1>t, <3>1, <4>5, <4>6, NextNodeGoes
    <3> QED BY <3>2, <3>3
  <2> QED BY <2>1, <2>2
<1>6. CASE StartApplication
  <2>1. /\ pc = "apps" /\ pc' \in {"apps", "running"}
        /\ UNCHANGED <<cfg, position, promiscuous, power>>
    BY <1>6, <1>t, NextNodeGoes DEF StartApplication, phy
  <2>2. ASSUME cfg.PHY = "lowpan" PROVE \A n \in Nodes : Configured(n)'
    BY <2>1, <2>2, NodesStay DEF Placed
  <2> QED BY <2>1, <2>2 DEF Placed, Nodes
<1>7. CASE UNCHANGED vars
  <2>1. UNCHANGED <<cfg, pc, i, position, promiscuous, power>>
    BY <1>7 DEF vars
  <2>2. \A n \in Nodes : (Configured(n)' <=> Configured(n)) /\ (Untouched(n)' <=> Untouched(n))
    BY <2>1, NodesStay
  <2> QED BY <2>1, <2>2 DEF Placed, Nodes
<1> QED BY <1>1, <1>2, <1>3, <1>4, <1>5, <1>6, <1>7 DEF Next

\* What the settings say of one node holds when its stackline starts: its place,
\* its promiscuous mode and its power, for any number of nodes and any settings,
\* also when the propagation model was refused.
THEOREM NodesStartAsConfigured == Spec => []NodesAsConfigured
<1>1. Progress /\ Placed => NodesAsConfigured
  BY DEF Progress, Placed, NodesAsConfigured, Configured, WantedPower, RadioPosition
<1> QED BY <1>1, InitTyped, StepTyped, InitProgress, StepProgress, InitPlaced, StepPlaced,
           PTL DEF Spec

=============================================================================
