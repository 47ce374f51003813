# Whitefield in TLA+

Whitefield runs the network stacks of many wireless or power-line nodes as
ordinary processes (*stacklines*) over a simulated PHY and MAC (*Airline*, on
NS-3). This directory holds TLA+ models of its own code, their TLC runs and
TLAPS proofs. Paths below are relative to the repository; `src/airline` is
written for the sources of Airline, and so on.

## 1. Inventory

| Component | Code | State it keeps | Operations |
|---|---|---|---|
| Data plane | `src/airline/NS3/AirlineManager.cc`, `LrwpanIface.cc`, `common.cc`, `src/commline/cl_usock.c` | socket queues, the MAC's queues and retries, the message a blocked `sendto` holds | `msgReader`, `msgrecvCallback`, `DataIndication`, `DataConfirm`, `SendPacketToStackline`, `SendAckToStackline`, `usock_sendto`, `usock_recvfrom` |
| MAC counters | `src/airline/mac_stats.{h,cc}` | per node, seven counters and `rx_ack_ok[10]` | `set_tx_stats`, `set_rx_stats`, `get_summary` |
| OAM | `src/utils/monitor.c`, `AirlineManager.cc`, `Command.cc`, `cl_stackline_helpers.c`; clients `udp_cmd.c`, `canvas.py` | the request the monitor serves, its poll count, commands and replies on the lines | `monitor_thread`, `fwd_cmd_on_commline`, the `cmd_*` handlers, `sl_handle_cmd` |
| Processes | `src/airline/main.cc`, `src/utils/forker.c`, `Config::spawnStackline` | who lives, who holds which socket name, signals on their way, spawn requests | `exec_forker`, `wait_on_q`, `fork_n_exec`, `killall_childprocess`, `sig_handler`, `prctl` |
| Configuration | `src/airline/Config.{h,cc}`, `Nodeinfo.h` | the table of nodes, the settings by name, the stack of open files | `setConfigurationFromFile`, `getKeyRange`, `setNode*`, `setNumberOfNodes` |
| Commline addressing | `src/commline/commline.h`, `cl_usock.c` | descriptor per line | `MTYPE`, `GET_LINE`, `usock_setabsaddr`, `cl_get_descriptor` |
| Addresses of the media | `LrwpanIface.cc`, `cl_stackline_helpers.c`, `PowerLineCommHandler.cc` | none | id to address and back, three ways |
| Start-up | `AirlineManager::startNetwork`, `LrwpanIface.cc`, `PropagationModel.cc`, `PowerLineCommHandler.cc`, `IfaceHandler.{h,cc}`, `Airline.cc` | positions, nodes whose MAC calls back, channels, lines of the power line | `setPositionAllocator`, `lrwpanSetup`, `setAllNodesParam`, `plcInstall`, `plcAddNode`, `plcConnectLink`, `setNodeSpecificParam`, `StartApplication` |
| Power-line interface | `PLCIface.cc`, `PowerLineCommHandler.cc` | per-node MAC objects and callbacks | `plcSend`, `plcHandleData`, `plcHandleAck`, `plcHandleTxFail` |
| Web canvas, page | `src/canvas/assets/cytoscape_app.js`, `cytoscape.html` | open requests, the newest one (`xhr`), layout, what is shown | `query_graph` and its handler, `view_position`, `view_tree`, the timer |
| Web canvas, server | `src/canvas/canvas.py` | none between requests | `graph`: positions, then one route command per node |

How they interact. Everything but NS-3's own events goes through four *lines*
of Unix datagram sockets: stacklines and Airline (`AIRLINE`, `STACKLINE`), Airline
and the forker (`FORKER`), and the repliers and the monitor (`MONITOR`, a
thread of the forker process). A send is refused when nobody is bound and
waits while the receiver's socket is full. Airline is one thread: NS-3's
callbacks and `msgReader`, which reschedules itself every millisecond, never
run at the same time, and a blocked send stops all of them. Apart from the
sockets, processes influence each other through their deaths
(`PR_SET_PDEATHSIG`, `SIGCHLD`) and through socket names that are inherited over
`fork` and `exec`.

What is hard here: packets carry no identity, so stacklines match the ACKs they
get by order; sends block; replies come after their request was given up;
processes die between two system calls; the names of a dead invocation stay in
use; later lines of a configuration undo earlier ones; the page's requests overlap and
are answered in any order. The `hazards` of
PROJECT.json list these at their lines, each with the properties that would
notice it going wrong.

What makes each component correct:

- data plane: ACKs come once and in order, an acknowledged packet was really passed
  on, nothing is swallowed, counters balance;
- OAM: everybody gets the response to its own command, and gets one; nothing is
  left behind;
- processes: two invocations never mix, no child outlives its parents, requests
  are served;
- configuration: the table says what the lines say, nothing is written past it, and
  a line the parser refuses stops the program, however deep in includes it is;
- start-up: stacklines run on a network that is set up as the settings say, or not at
  all;
- addresses: an id comes back as itself, and as nobody else;
- all together: commands and packets in the same sockets neither disturb nor lock up
  each other;
- web canvas: it never goes back to an earlier state, shows what was asked for, and
  leaves the window alone otherwise.

## 2. Modules

| Module | Models | Composition |
|---|---|---|
| `Commline` | lines, ids, message types, socket names | extended by the three below it |
| `Macstats` | the counters and their updates, as operators | extended by `DataPlane` |
| `LinkService` | *abstract*: what a stackline is promised | instantiated by `DataPlane` and `Ifaces` |
| `DataPlane` | stacklines, Airline's thread, LR-WPAN MAC and radio, sockets | implements `LinkService` |
| `Ifaces` | the data plane over LR-WPAN or over the power line | extends `DataPlane` and `Address`, implements `LinkService` |
| `Oam` | clients, monitor thread, Airline and stacklines as repliers | on `Commline` |
| `Whitefield` | the data plane and OAM over the sockets they share | extends `DataPlane`, instantiates `Oam` twice; implements `Oam` and `LinkService` |
| `Address` | the three address conversions | on `Commline` |
| `Lifecycle` | Airline, forker and stacklines as processes | |
| `Config` | the configuration parser | |
| `Setup` | Airline's start-up over both interfaces | |
| `Canvas` | the page of the web canvas | |
| `MC*` | values of the constants for TLC | |
| `*Proofs` | theorems | |

`map` in PROJECT.json gives the lines behind every definition. The following
only says what is not obvious from it.

### DataPlane

One action per handler, with everything the handler does. `StackSend`,
`StackRecv` and `StackUnblock` are the stackline's side of Commline (`cl_sendto_q`,
`cl_recvfrom_q`); stacklines themselves are other projects. `MsgReaderStart/Stop/
Drop/Send` are the receive loop and `msgrecvCallback` with its early returns. The
MAC (`MacRetry`, `MacDone`, `MacReject`) is NS-3's and marked external: it keeps
frames in order, transmits the head up to `MaxRetry + 1` times, and ends in one of
the statuses `wf_ack_status` knows. `DataIndication` and `DataConfirm` are
Whitefield's callbacks from it.

- `alOut` and `slOut` hold the one message of a send that is waiting. While `alOut`
  is not empty no step of Airline, MAC or radio is taken.
- `seq`, `sent`, `got`, `reports` and `refused` are history; the code has no packet
  identity and no action reads them to decide anything, except that a count of
  submissions bounds the run.
- Dropped: payload, lqi, capture files. Kept: whether a frame fits the PHY, because
  `McpsDataRequest` rejects one that does not before it is queued, and that
  report overtakes others. `ReportsFifo` says what still holds then.

`LinkService` has neither queues nor blocking. Its variables have the names of
`DataPlane`'s, so the refinement mapping is the identity on `stack`, `sent`, `got`
and `reports`, and all other steps stutter.

### Ifaces

`phy` is the configuration's `PHY`, fixed at the start: `getIfaceApi` looks it up for
every packet. With `"plc"` the MAC's callbacks are `plcHandleData`, `plcHandleAck` and
`plcHandleTxFail`, everything else is `DataPlane`. What differs from LR-WPAN is kept:
ids travel as MAC addresses (`PlcId`), only two statuses exist, there is no promiscuous
mode (`ifaceSetPromiscuous` fails, `setNodeSpecificParam` ignores it), and no size the
PHY refuses, but a packet that fills the buffer of a message is dropped at reception
although the MAC acknowledged it. The power-line MAC is NS-3's and external: like the
LR-WPAN one it keeps frames in order; `MaxRetry` bounds its repeats, which the
configuration does not set. The refinement mapping of `Promise` is not the identity:
over the power line every packet counts as one that fits (`Submitted`).
`EitherAckedIsPassedOn` excepts packets that fill the buffer, and those to the id that
marks frames with a header of their own: a stackline may have that id, but what is sent
to it has its addressee in the header.

### Whitefield

Each action is one of `DataPlane` or of `Oam`, and no model of either is repeated:
`Whitefield` says which of them touch the same socket and which wait for each other.
The queues `alq` and `slq` hold packets, reports and commands. An Airline whose reply
waits (`alReply`) takes no step of the data plane; one whose data waits (`alOut`) answers
no command, because it is not in `msgReader`'s loop; a stackline whose reply waits
receives nothing. Two instances of `Oam` do this: `O`, over the shared queues,
gives the steps; `Commands`, over what is left of the queues when only commands are
looked at (`CmdsIn`), is what they must amount to. `WhitefieldAssumption` has every node's
stackline under the node's id, as `Oam` does; commands and clients are any `Oam` has.

`NoWaitCycle` draws the graph of who waits for whom (`Waits`) in every state.
Two conditions are necessary, and TLC shows a lock-up without either: stacklines that
receive while they send, and no more timeouts than the `MONITOR` socket holds
replies. One timeout more, and Airline waits with a late reply for the monitor while
the monitor waits with the next command for Airline, for ever.

### Oam

A client sends one command. `MonitorRecv`, `MonitorSend`, `MonitorPollHit` and
`MonitorPollMiss` are the thread's blocking points; between two of them anything
may happen. `Outcome` reduces each Airline command handler to what matters
here: a text, a reply of length 0 (which the monitor drops and keeps polling), or
an exception that leaves `Simulator::Run` and so ends Airline. An `answer`
names the client whose command it is the reply to; requests and replies carry that name
in `from`, which is history: the code has no such identity. `Outstanding` is the set of positions, in all
queues and sends that wait, that hold a command or a reply. `stack` has the same three states as
in `DataPlane`: a command for a stackline that has not bound its name yet is refused.

`LockedUp` is the monitor waiting to send to a line with a full socket while that line
waits to reply and the `MONITOR` socket is full: nobody moves again. Late replies bring
it about, and `LockUpNeedsTimeouts` says how many it takes. `EveryCommandAnswered` ends
there: it excepts the states in which so many commands ran out of polls.

### Lifecycle

Processes move through the system calls of `main`, `exec_forker` and `fork_n_exec`:
a child is `forked` before it is `armed` (its `prctl`). `sig` holds fatal signals
that have been sent; delivery is a step of its own. `HoldsAirline` says which
processes keep the abstract socket name: everybody forked after the bind. `stray`
and `lost` are history. Each invocation (`Gens`) has its own configuration
(`NoExec`).

### Config

The file is not fixed: at each step any of `Lines` may come next, so that TLC
reads all files up to a length. A line is its key, the range after the key, a
number and a value; the numbers may have a sign. `End` and `OutOfBounds` keep the
code's order: cut-off of a range first, bounds check afterwards. `Dash` and
`AfterDash` are what `strchr` and `atoi` make of the text after the bracket: in `[-1]`
they find the dash of a range, and the line is applied to the indices -1 to 1. The
check looks at the end only, so such a line is accepted, and `nodeArray[-1]` is
written. That is undefined behaviour. `astray` (history) collects the indices
written that the table does not have; the entries of the table are written as the
code says; and from then on the program may end at any point (`Crash`). What else
lies in front of the table and is overwritten is not modelled, so two of the properties
speak of the time before (`astray = {}`), and `StrayOnlyBelow` of which lines get there.

The properties compare with a definition of what the lines mean that does not look
at the table (`LastLine`, `LastForAll`, `Refused`), over `log`, history too. `Refused` is what
the parser means to refuse: short positions and descending ranges inside the
table, which it only logs, and ranges it cuts off at the end are accepted.

### Setup

One thread, one action per step of `startNetwork` and one per turn of each of its
loops over the nodes; `pc` says which, `i` the node. It starts where `Config` ended:
`cfg` holds the settings as they were read. A number that is none throws
(`"exception"`, caught in `Manager::startManager`), other settings return `FAILURE`,
and in both cases Airline ends, with exit code 0 (`main.cc:105`). A propagation model
of unknown name is reduced to just that, and so are cables and spectrum models. NS-3's
objects are what Whitefield does to them: a node's position, whether its MAC calls
back, which channel it is on, and between which nodes a `PLC_Line` was made.

### Canvas

`xhr` is a global, replaced by each request; `older` holds the requests it no longer
names and that are still open. A member of `older` stands for one request or for any
number of alike ones, so there is no bound on requests, ticks or clicks: the state
space is finite as it is. The handler of any of them draws the newest one's answer, if that is
there. The server is reduced to answers: the network as it was when it was asked, or
something that is no JSON. (The server asks one node after the other, so what it
calls one state is put together over some milliseconds; and a browser's limit on open
connections is left out, the model has all orders.) Cytoscape is reduced to what is
shown and whether the window was fitted.

## 3. Runs

| Run | Instance | Question |
|---|---|---|
| `dp_mixed` | 2 nodes, unicast, broadcast and own-header frames, too long or not, 2 and 1 packets, 1 retry, queues of 1 | safety and refinement of the data plane |
| `ifaces` | both interfaces; nodes 0 and 1 and a stackline with id 2, `macHeaderAdd=0`, promiscuous node, sizes, 2 and 1 packets, single-threaded stacklines | the same over either interface, where ids, headers and sizes are unusual |
| `dp_live` | both interfaces, 2 nodes, 1 packet each, 1 retry, `macHeaderAdd=1` with a frame that brings a header | liveness |
| `oam` | 5 clients, one after the other, 1 node, 2 polls, queues of 1 | safety and liveness of OAM, and its lock-up |
| `oam_stale` | 2 clients, queues of 2 | finding |
| `life` | 2 invocations of 4 nodes, one node without exec, one with a missing binary, requests queue of 2 | safety and liveness of the processes |
| `life_started` | 1 invocation of 1 node | finding |
| `config` | 19 lines, 5 of them, 2 open files | the parser |
| `setup` | 3 nodes, every combination of four kinds of node on both interfaces, and each setting spoilt in turn | start-up |
| `setup_position` | 2 nodes on the power line, with and without a position | finding |
| `whitefield` | 2 nodes, 1 packet, 3 clients with commands to Airline and to the sender, 1 poll, queues of 1 | lock-ups; both services over shared sockets |
| `canvas` | 3 states of the network, answers that fail | the page |

Bounds and why they do. Queues of one message make every send block as soon as
it can: longer ones add waiting room, no new case. Two retries or polls separate
first, middle and last. Two packets of one sender are enough for an order, and for one
that overtakes the other. Three clients are one that times out, one that
is answered with its reply, and one behind; the lock-up of `oam` takes five: three whose
commands run out of polls, one that is answered with the late reply to another, and one
whose command finds no room. To keep that small, they send in one order (`InOrderSpec`: nothing but their
commands tells them apart, and symmetry cannot be used with liveness), the first three
any command, the last two one of the two usual ones and only when two commands have
run out of polls; the last three do not give up, which only loses answers. Two invocations are what "a new one
while the old one goes" needs; four nodes have one that starts, one that is
missing, and a last one. Tables of two and four nodes put ranges inside, across
and beyond the end, -1 and -3 are the ends of ranges that fit and of ones that do not,
and five lines allow a table, two settings, an include and
another table. Three nodes give start-up's loops a first, a middle and a last turn to
stop at, and one spoilt setting at a time is what a step can stop at. `whitefield` has
one packet, because each kind of wait needs one message in a full socket, and three
clients, because the lock-up at the edge of `NoWaitCycle` needs a reply that is late, one
that is stuck behind it and a command behind both. Three states of the network are an
early, a late and a middle one to overtake. `MAX_MAC_TX_RETRY_CNT` is 4, above
`MaxRetry` as the code's 10 is in its default configuration.

Only `whitefield` uses symmetry, of clients: nothing but their commands, which all may
send, tells them apart, and that run checks no liveness. `CHECK_DEADLOCK FALSE` stands where
the system ends: all clients served, all processes gone, the file read; and in
`whitefield` and `oam`, where the waits that `NoWaitCycle` and `LockUpNeedsTimeouts` except
are such an end. The data plane
alone and the page have none: `msgReader` and the timer always come round again, so
those runs check for deadlock.

### Fairness

- `Ifaces!IfFairSpec`: Airline's thread runs (weak fairness of its loop and of its
  waiting send) and stacklines go on receiving. The MAC's events and a stackline's
  waiting send are strongly fair because `msgReader`, 1 ms apart, keeps interrupting
  them and a kernel wakes its waiters in turn. Receiving stacklines are an
  assumption about other projects: a stackline that sends and receives in one
  thread may block Airline and be blocked by it for ever, since both sends wait
  (`Threaded = FALSE`; safety is checked there, liveness is not).
- `Oam!FairSpec`: the monitor thread, Airline and the living stacklines run. A
  client's timeout is not forced, so `EveryCommandAnswered` does not rest on it.
  That is not enough once more commands have run out of polls than the two sockets
  hold messages: then the monitor may be locked up, and the property excepts it. The
  bound is tight: with queues of one message TLC finds the lock-up, and a client that
  waits for ever, when the exception starts at four timeouts instead of three.
- `Lifecycle!FairSpec`: signals that were sent arrive, and the forker's loop runs.
  No process is forced to die, to arm or to start.
- `Canvas!FairSpec`: the timer goes on, requests are served and answers arrive, after
  any time. That is not enough to see anything: with answers slower than the timer
  each is dropped (below). `PromptSpec`, which the run uses, adds that now and then an
  answer with a graph comes before the next tick; the interval of a second against
  milliseconds per node is there for that.

### Findings

1. `oam_stale` - the reply to a command that was given up answers the next one.
2. `life_started` - "All nodes started." also when every spawn request was lost.
3. `setup_position` - on the power line a node's `nodePosition` has no effect: the power
   line copies positions before `startNetwork` applies it.

Seen on the way, without a run: `set_rx_stats` takes "destination is not node 0" for
"multicast" (`mac_stats.cc:58`), so the `MCAST_PKTS rx` column counts unicasts;
`get_summary` has columns for the attempts 1 to `macMaxRetry` (`mac_stats.cc:107`), and the
MAC makes one attempt more, so that the columns can add up to less than `tx_succ`
(`StatsBalance` counts all slots, printed or not); `nodeExec[-1]` and the like are taken
for a range, pass the check of `Config.cc:260` and are written in front of the table
and to nodes they do not name, although an index that does not exist is "out of
bounds" (`Config.cc:261`) and the first node "has an index of zero"
(`docs/wf-config-help.rst:59`; `astray = {}` fails in `config`); a general `txPower` does
not replace an earlier `txPower[n]` (`AirlineManager.cc:246`), although
`docs/wf-config-help.rst:73` says that the order of settings is important
(`SettingsMeanLastLine` keeps the two apart, as the code does, and does not say which
counts); a
`lossModel` or `delayModel` of unknown name is reported and then a network starts in
which no node has callbacks (`LrwpanIface.cc:201`; `AllOrNothing` has it as its one
exception); `plc_link[0]=65537` joins nodes 0 and 1 (`PowerLineCommHandler.cc:463`; `LinesJoinNodes` has
the same cut-off, and does not notice);
`plc_cable` (`config/plc_topology.cfg:13`) is read nowhere; `PHY=plc` in an Airline built
without the power line calls a null pointer (`IfaceHandler.cc:59`); `macPktQlen` (`config/wf.cfg:20`) is read nowhere;
one late reply more than the `MONITOR` socket holds stops Airline, and with it
simulated time, in `AirlineManager.cc:192`, for ever if the monitor waits for it with the
next command (`BacklogBounded`, `LockUpNeedsTimeouts`, `NoWaitCycle`), and the same between
the monitor and a stackline; `rx_ack_ok` has ten slots, indexed by
attempt, so the tenth attempt, which `macMaxRetry` "<20" (`docs/wf-config-help.rst:36`)
allows, is counted nowhere (`mac_stats.cc:46`: `StatsBalance` fails with `MaxRetry` at
`MAX_MAC_TX_RETRY_CNT - 1`); with more than about a thousand nodes, at a millisecond or
more per node, each of the canvas' answers is replaced before it comes and the page stays
empty (`cytoscape_app.js:5`: `KeepsUp` fails under `FairSpec`); one stackline that does
not answer in a second, or with something that is no route, fails the whole graph
(`canvas.py:67`); "Whitefield is already running" (`main.cc:95`) is also said when only a
stackline of a dead invocation still runs; a forker that dies between a fork and
the child's `prctl` does not take the child with it, unlike the comment at
`forker.c:115`, which is why `ChildrenFollow` has its exception.

## 4. Proofs

All for every value of the constants that satisfies the named assumptions of the
module (`DataPlaneAssumption`, `AttemptCapAssumption`, `SizesAssumption`, `OamAssumption`,
`CmdsAssumption`, `WhitefieldAssumption`, `LifecycleAssumption`, `ConfigAssumption`,
`SetupAssumption`, `CanvasAssumption`). Two hypotheses are stated by the theorems that need
them, below: `NumNodes <= 65280` (the power line) and `AttemptsFit` (the counters).

- **`DataPlaneProofs!TypeCorrect`**: `TypeOK` of the data plane. It says more than
  its name: no report carries a status outside the four stacklines know, and
  `tries` never passes `MaxRetry`. `TypeOK` is inductive; there is a lemma per piece of
  state several actions write (counters, queues, the send that may block, the confirm).
- **`DataPlaneProofs!ReportsComeInOrder`** (`ReportsFifo`) and
  **`DataPlaneImplementsService`** (`ImplementsService`). What a report says rests on what
  the packet went through, so the invariant follows every packet of a sender over the
  five places it can be: the send that waits (`slOut`), the AIRLINE socket (`alq`), the MAC
  (`mac`), the stackline's socket with the send that waits for it (`Inbox`), and what was
  read (`reports`). `Line` says that the packets in these places are in the order of
  submission, except that those too long for the PHY may be ahead (`Earlier`), and that
  none is in two of them; `Truthful` that what is on the way is about a packet that was
  submitted. `Covered` says that a packet accepted and not yet reported is in one of the
  places: none is lost, which is what "without a gap" needs. `DataInOrder` is the same
  for deliveries, where repeats are allowed. `Moves` says what a step does to the five
  places, and the invariant is kept by any step that is one of `Moves`. The refinement
  maps `StackStart`, `StackDie` and `StackSend` to `Start`, `Die` and `Submit`, `StackRecv` to
  `Deliver` or `Report`, and everything else to a stutter.
- **`DataPlaneProofs!AcksArePassedOn`** (`AckedIsPassedOn`): who has heard the frame on
  the air was sent it (`HeardPassedOn`), an ACK_OK that is on the way or read was sent for a
  packet its addressee heard (`AcksPassedOn`), and a message sent to a stackline stays there
  until it is read or the stackline dies (`PassedStays`). `Handles` is to this what `Moves` is
  to the order.
- **`DataPlaneProofs!StatsAreBalanced`** (`StatsBalance`), **`NothingIsOvercounted`**: the sum
  of `rx_ack_ok` is a fold over slots the fold picks in an order of its own. `SumIs` gives
  what the fold computes, `SumsExist` its values (the sets are finite, the numbers counted
  up by `Counting`, with the library's well-founded minimum in place of induction), and
  `SumCounts` that one more in one slot is one more in the sum. `Counts` says what a step
  does to one node: counters and MAC stay, a unicast enters both, or one leaves the MAC and
  is counted as failed or under its attempts. `StatsAreBalanced` supposes `AttemptsFit`, that
  every attempt has a slot (`MaxRetry + 1 < MAX_MAC_TX_RETRY_CNT`), because the documented
  range of `macMaxRetry` does not see to it (9 and more lose counts, as said under
  Findings); without it the inequality is left: nothing is counted twice (`NeverOvercounted`).
- **`IfacesProofs!EitherAcksArePassedOn`**, **`EitherImplementsTheService`**: the same over
  either interface. The power line's actions are shown to be `Handles`, and to be
  `Moves` in another state: `D` is the data plane in the state where every packet fits
  (`Fit`), because the power line calls none too long; the steps both interfaces share
  are steps of `D` too. Both theorems suppose `NumNodes <= 65280`: an id between 0xff00 and
  0xfffe that went over the power line as a MAC address comes back as 0 (`PlcIds`), so
  with that many nodes reports and packets would go to node 0.
- **`IfacesProofs!EitherStatsAreBalanced`** (`StatsBalance`): the power line's callbacks are
  `Counts` too, under both hypotheses.
- **`OamProofs!OamTypeCorrect`**, **`OamNoSharedAnswer`**: a request and the replies to it
  are one token, named for its client. `At` is where the tokens are, and `Tokens` says
  that each is in one place and there once: in a queue, with the monitor, in a send that
  waits, or in the client's answer.
- **`OamProofs!OamBacklogBounded`**: the set of what is left over grows by one when the
  monitor sends, shrinks by one when it collects a reply, and the count of timeouts
  grows when it gives up, because the command it serves has not timed out before (`Fresh`,
  which rests on `Tokens`). Requests are put into one line or dropped, never into two.
- **`OamProofs!OamLockUpNeedsTimeouts`** (`LockUpNeedsTimeouts`): in a lock-up both sockets are
  full and the line holds one reply more. These are one more than the two sockets hold
  (`TwoFullQueues`, by the library's pigeonhole theorem), and all of it is backlog, of
  which there is no more than there were timeouts while the monitor waits to send
  (`Backlog`).
- **`OamProofs!OamAnswerIsMine`**: without a timeout the backlog is empty whenever
  the monitor is between two commands, so what it polls is the reply to the command it
  serves (`OnlyMine`). `OamAssumption` says that no client is named like one of the
  monitor's own answers; nothing else is asked of the names.
- **`WhitefieldProofs!WhitefieldImplementsOam`** (`ImplementsOam`): the commands of a queue,
  in their order (`CmdsIn`), are not touched by what packets do to it, and what a step of
  OAM does to the queue it does to them (`QueueMoves`; what a queue loses at its front or
  gains at its end is counted over the commands' positions, without induction over
  queues). So every step is one of `Oam` over `AlCmds` and `SlCmds`, or changes none of
  OAM's state (`EveryStep`). A socket full of packets only makes OAM wait: `Oam` may
  always wait. The invariant this needs (`WInv`) is `Oam`'s own, over the commands, and that
  packets and reports are no commands (`Shared`). The data plane's types are not needed.
- **`WhitefieldProofs!WhitefieldAnswers`**: with that, the theorems of `OamProofs` hold with
  packets in the sockets; the module is instantiated with the refinement mapping (`C`).
- **`WhitefieldProofs!WhitefieldNoWaitCycle`** (`NoWaitCycle`): stacklines that receive while
  they send wait for nobody but the monitor (`Edges`), so every circle goes through the
  monitor, which then waits to send, and through a process that holds a reply for which
  the `MONITOR` socket has no room (`CycleHolds`). The replies there and the one held are
  more than `QLen` of the backlog (`HeldReplyIsBacklog`), and `OamBacklogBounded` allows
  as many as commands ran out of polls. No case analysis of the interleavings is
  left: it is in the proof of the bound.
- **`WhitefieldProofs!WhitefieldImplementsService`** (`ImplementsService`): the other half.
  What is not a command in a queue, in its order (`DataIn`), is a queue of a data plane that
  has it for itself (`D`), except that commands may fill a socket in which packets leave
  room: then a packet waits where `D` would queue it. That wait is a step of `B`, the data
  plane whose sockets hold nothing (`QLen` is 0, which is why `DataPlaneAssumption` allows
  it and `WhitefieldAssumption` does not). `Served`, all of the data plane's invariants
  together, does not speak of `QLen`, so `D` and `B` have it in the same states
  (`SameServed`), and both keep it. A third kind of step only starts or ends `msgReader`'s
  loop when a command is next (`LoopMoves`). Every step of the system is one of these three
  over the packets (`EveryDataStep`), and so one of `LinkService` or a stutter.
- **`WhitefieldProofs!WhitefieldAcksArePassedOn`** (`AckedIsPassedOn`),
  **`WhitefieldStatsAreBalanced`** (`StatsBalance`): from `Served` too.
- **`LifecycleProofs!TypeCorrect`**, **`OneInvocationAtATime`**: a name is taken only
  by `AirlineBind`, when nobody holds it (`HoldersBind`), and all other steps only
  pass it on inside one invocation.
- **`LifecycleProofs!ChildrenAlwaysFollow`**: `ChildrenFollow` is not inductive by
  itself: an Airline that dies before it called `exec_forker` must have no forker to
  leave behind (`NoForkerYet`). With it, there is one step per action, and a lemma per kind of
  death.
- **`ConfigProofs!TypeCorrect`, `StraysOnlyBelow`, `SettingsAreTheLastLines`**: the
  parser's table is typed only together with `FilesOpen` (what is being read has a
  file open). `RangeEnds` says that a range that passes the bounds check ends inside the
  table, and starts in front of it only with a negative index; `LineStrays` that nothing
  else is written outside. A negative index always does (`NegativeRange`), so before the
  first stray write ranges start inside, and then `RangeIsNamed`, the central lemma, says
  that a range that passes contains exactly the nodes the line names. `LineDoesWhatItSays`
  lifts it to every kind of line, and `LastLineAfterSetting`, `LastLineAfterNumber` and
  `LastForAllAfterLine` say what one more line does to the meaning of a file. So the result
  covers files, tables and include depths of any size and numbers of any sign, without
  induction over the file: the induction is the one over steps.
- **`ConfigProofs!AcceptedConfigHasNoRefused`** (`AcceptedHasNoRefused`): while nothing has
  failed or strayed, the number of nodes in the table is the one the lines read so far set
  (`NumbersKnown`), and none of them was one to refuse for the number in force where it
  stood (`Right`); `RefusedFails` is the step from a line to the failure.
- **`SetupProofs!TypeCorrect`**, **`StartsAllOrNothing`**: `AllOrNothing` speaks of the last
  loop only; `Progress` says for each step before it which nodes are set up so far (in
  the loops, those below `i`), which makes it inductive.
- **`SetupProofs!PowerLinesAsConfigured`** (`LinesJoinNodes`), **`NodesStartAsConfigured`**
  (`NodesAsConfigured`): `Wired` and `Placed` say the same of the lines made and of the
  settings applied so far, loop by loop.
- **`IfacesProofs!LrwpanRoundTrip`, `LongRoundTrip`, `PlcRoundTrip`**: what becomes of all
  ids as addresses, by arithmetic on bytes. **`WhitefieldProofs!NamesAreDistinct`**: so
  are socket names distinct.
- **`CanvasProofs!TypeCorrect`**, **`CanvasNeverGoesBack`**, **`FitsAreAskedFor`**: that no
  graph is replaced by an earlier one needs `NewestIsNewest`: nothing shown is later than
  what the newest request may still get, because a request is served after it became
  the newest. That the window is only fitted when a view was asked for needs `FitIsDue`:
  while `first_run` is set, the layout in use is the one asked for and not yet drawn.

Only model-checked: everything about liveness (fairness and ENABLED are out of the
prover's reach), that is `EveryUnicastReported`, `BlockedSendsEnd`, `EveryCommandAnswered`,
`EverythingStops`, `RequestsServed`, `ViewTakesEffect` and `KeepsUp`. All other properties of
the passing runs are theorems.

## 5. Not modelled, and why

- `cl_msgq.c` (System V queues) is compiled out by `USE_UNIX_SOCKETS`; `pty_handler.c`
  never gets a descriptor, the code that would give it one is under `#if 0`.
- What NS-3 computes from a propagation model, a cable or a position.
- `pcap_util.c` and log redirection: output only.
- Splitting lines and exec strings (`cmdParser`, `resolveToken`, `split`, `trim`): string
  work without a property here. Ranges on `numOfNodes` or `include` and numbers that
  overflow `atoi`'s int are not among the lines; what a write in front of the table
  overwrites is up to the build.
- The forker's table of 2000 children: it bounds nothing in the code, and the models
  have no memory layout to overrun.
- The descriptor table of `cl_usock.c` (`g_usock_fd`, `g_def_line`, `cl_get_descriptor`): all
  callers under `src/` bind before they use a line, and clean up right before they exit,
  so no sequence of theirs reaches its odd corners.
- How `canvas.py` puts a graph together; the vendored `cytoscape.js`, `dagre.js` and
  `cytoscape-dagre.js`.
- The shell, plotting and regression scripts, beyond what they send to the monitor.
- Liveness of `Whitefield`: its instance has too many states for TLC's liveness check;
  each half has its own (`dp_live`, `oam`).

## 6. Plan

Done, in this order because the first is what all users of Whitefield rely on:
`DataPlane` with `LinkService`; `Oam`; `Lifecycle`; `Address`; `Config`; `Setup`; `Canvas`;
the composition `Whitefield`; the power line in `Ifaces`; types and the safety invariants
above proved.

Proved since: `ReportsFifo`, `AckedIsPassedOn`, `StatsBalance` and the refinement of
`LinkService`, over LR-WPAN, over either interface and (LR-WPAN) over sockets shared with
commands; the invariants of `Oam`, and how late its lock-up comes; `AcceptedHasNoRefused`; `LinesJoinNodes` and
`NodesAsConfigured`; `Whitefield`'s steps as steps of `Oam`, and `NoWaitCycle`.

Next: the composition `Whitefield` with the power line in place of LR-WPAN, whose theorems
are those of `IfacesProofs` over the packets of the queues; `WhitefieldNoWaitCycle` for
stacklines that do not receive while they send, under what such a stackline may assume.

## 7. Running

    tlc -config dp_mixed.cfg MCDataPlane.tla
    tlapm ConfigProofs.tla

The configurations and their MC modules: `dp_mixed` MCDataPlane, `ifaces` and `dp_live`
MCIfaces, `oam*` MCOam, `life*` MCLifecycle, `config` MCConfig, `setup*` MCSetup,
`whitefield` MCWhitefield, `canvas` MCCanvas.
The largest runs are `dp_mixed` (2.9 million states), `ifaces` (1.6 million), `whitefield`
(0.7 million) and `oam` (0.5 million, with the longest liveness check), one to two
minutes each with two workers.
