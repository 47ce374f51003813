------------------------------ MODULE Whitefield ----------------------------
(***************************************************************************)
(* The data plane and OAM together, as they run: packets and commands      *)
(* share the AIRLINE socket and every stackline's socket, msgReader takes  *)
(* both from one queue, and while Airline or a stackline waits to send a   *)
(* reply it does nothing else.                                             *)
(*                                                                         *)
(* The steps are those of DataPlane and of Oam, over queues that hold      *)
(* messages of both.  What is added is who waits for whom.                 *)
(***************************************************************************)
EXTENDS DataPlane

CONSTANTS Clients, Cmds, MacMaxRetrySet, PollMax

\* Every node has its stackline, under the node's id; every socket holds something;
\* commands and clients are as Oam has them.
ASSUME WhitefieldAssumption ==
    /\ Stacks = Nodes
    /\ QLen # 0
    /\ MacMaxRetrySet \in BOOLEAN
    /\ PollMax \in Nat \ {0}
    /\ Clients \cap {"INVALID_LINE", "INVALID_CMD", "NO_RSP_FROM_LINE"} = {}
    /\ Cmds \subseteq [line : {"AL", "SL", "other"}, id : Nat, colon : BOOLEAN,
                       name : STRING, arg : {"none", "good", "junk"}]

VARIABLES
    client, answer, udpq, mon, moq, running, timeouts,   \* as in Oam
    alReply,   \* the reply Airline's blocked sendto holds
    slReply    \* per stackline, the reply its blocked sendto holds

oamVars == <<client, answer, udpq, mon, moq, running, timeouts, alReply, slReply>>

wfVars == <<vars, oamVars>>

\* Oam over the shared queues.
O == INSTANCE Oam WITH alOut <- alReply, slOut <- slReply

\* A command in a queue that also holds packets and reports.
IsCmd(m) == "cmd" \in DOMAIN m

CmdNext(q) == q # <<>> /\ IsCmd(Head(q))
DataNext(q) == q # <<>> /\ ~IsCmd(Head(q))

WInit == Init /\ O!Init

-----------------------------------------------------------------------------
(* Clients and the monitor thread: they touch the data plane's queues, and  *)
(* wait for room in them, only in MonitorSend.                              *)

dataRest == <<sent, slOut, reading, macVars, stats, alOut, historyVars>>

ClientStep(c) == (O!ClientSend(c) \/ O!ClientTimeout(c)) /\ UNCHANGED vars

MonitorStep ==
    \/ O!MonitorRecv /\ UNCHANGED vars
    \/ UNCHANGED <<dataRest, stack>> /\ O!MonitorSend
    \/ O!MonitorPollHit /\ UNCHANGED vars
    \/ O!MonitorPollMiss /\ UNCHANGED vars

-----------------------------------------------------------------------------
(* Airline: msgReader's loop takes packets and commands as they come, and   *)
(* is held up by a reply that waits for room in the MONITOR socket.         *)

AirlineMsgReader ==
    /\ alReply = <<>>
    /\ \/ MsgReaderStart
       \/ MsgReaderStop
       \/ DataNext(alq) /\ (MsgReaderDrop \/ MsgReaderSend)
    /\ UNCHANGED oamVars

\* Mutant: the reply is dropped when the MONITOR socket has no room.
AirlineCmdNoWait ==
    /\ reading
    /\ CmdNext(alq)
    /\ alReply = <<>>
    /\ alq' = Tail(alq)
    /\ moq' = IF O!CanReply
              THEN Append(moq, [from |-> Head(alq).from, empty |-> FALSE]) ELSE moq
    /\ UNCHANGED <<stackVars, reading, macVars, stats, alOut, slq, historyVars>>
    /\ UNCHANGED <<client, answer, udpq, mon, running, timeouts, alReply, slReply>>

\* A command without text has length 0, which msgReader takes for the end of
\* the queue.
AirlineCmd ==
    /\ reading
    /\ CmdNext(alq)
    /\ reading' = (Head(alq).cmd.name # "")
    /\ UNCHANGED <<stackVars, macVars, stats, alOut, slq, historyVars>>
    /\ O!AirlineCmd

AirlineReplyUnblock == UNCHANGED vars /\ O!AirlineReplyUnblock

-----------------------------------------------------------------------------
(* Stacklines.  One thread receives packets, reports and commands, and      *)
(* answers commands; while its reply waits it receives nothing.  If the     *)
(* stackline is not Threaded, the same thread also sends packets.           *)

WStackStart(s) == StackStart(s) /\ UNCHANGED oamVars

WStackDie(s) ==
    /\ StackDie(s)
    /\ slReply' = [slReply EXCEPT ![s] = <<>>]
    /\ UNCHANGED <<client, answer, udpq, mon, moq, running, timeouts, alReply>>

WStackSend(s) ==
    /\ Threaded \/ slReply[s] = <<>>
    /\ StackSend(s)
    /\ UNCHANGED oamVars

WStackUnblock(s) == StackUnblock(s) /\ UNCHANGED oamVars

WStackRecv(s) ==
    /\ slReply[s] = <<>>
    /\ DataNext(slq[s])
    /\ StackRecv(s)
    /\ UNCHANGED oamVars

StackCmd(s) ==
    /\ CmdNext(slq[s])
    /\ Threaded \/ slOut[s] = <<>>
    /\ UNCHANGED <<stackVars, alq, reading, macVars, stats, alOut, historyVars>>
    /\ O!StackCmd(s)

StackReplyUnblock(s) == UNCHANGED vars /\ O!StackReplyUnblock(s)

-----------------------------------------------------------------------------
WStack(s) == \/ WStackStart(s)
             \/ WStackDie(s)
             \/ WStackSend(s)
             \/ WStackUnblock(s)
             \/ WStackRecv(s)
             \/ StackCmd(s)
             \/ StackReplyUnblock(s)

\* An exception that leaves the simulator (Oam) ends all but the clients.
Radio == \/ \E n, r \in Nodes : DataIndication(n, r)
         \/ \E n \in Nodes : MacStep(n)

WNext ==
    \/ \E c \in Clients : ClientStep(c)
    \/ MonitorStep
    \/ running /\ \/ AirlineMsgReader
                  \/ AirlineCmd
                  \/ AirlineReplyUnblock
                  \/ AirlineUnblock /\ UNCHANGED oamVars
                  \/ Radio /\ UNCHANGED oamVars
                  \/ \E s \in Stacks : WStack(s)

WSpec == WInit /\ [][WNext]_wfVars

-----------------------------------------------------------------------------
(* Properties.  ImplementsService (DataPlane) is checked here too: commands *)
(* and replies in the sockets do not change what stacklines are promised.   *)

\* Where the commands of a queue are, the k-th member of a set of positions,
\* and the commands in their order.
CmdsAt(q) == {i \in DOMAIN q : IsCmd(q[i])}
Nth(P, k) == CHOOSE i \in P : Cardinality({j \in P : j <= i}) = k
CmdsIn(q) == [k \in 1..Cardinality(CmdsAt(q)) |-> q[Nth(CmdsAt(q), k)]]

AlCmds == CmdsIn(alq)
SlCmds == [s \in Stacks |-> CmdsIn(slq[s])]

\* Oam as its clients see it: what it makes of the shared queues.
Commands == INSTANCE Oam WITH
    alq <- AlCmds, slq <- SlCmds, alOut <- alReply, slOut <- slReply

\* Packets in the sockets do not change what clients are promised: every step
\* of the whole is a step of Oam or leaves OAM alone (msgReader, msgrecvCallback,
\* fwd_cmd_on_commline, sl_handle_cmd).
ImplementsOam == Commands!Spec

\* Processes, by the message type they receive on.
Airline   == MTYPE(AIRLINE, CL_MGR_ID)
Monitor   == MTYPE(MONITOR, CL_MGR_ID)
Stack(s)  == MTYPE(STACKLINE, s)
Processes == {Airline, Monitor} \cup {Stack(s) : s \in Stacks}

Full(q) == Len(q) >= QLen

\* The sends that do not return before their receiver has received: who waits
\* for whom.
Waits ==
    (IF alOut # <<>> /\ Bound(Head(alOut).to) /\ Full(slq[Head(alOut).to])
     THEN {<<Airline, Stack(Head(alOut).to)>>} ELSE {})
    \cup (IF alReply # <<>> /\ Full(moq) THEN {<<Airline, Monitor>>} ELSE {})
    \cup (IF mon.pc = "send" /\ O!Cmd.line = "AL" /\ Full(alq)
          THEN {<<Monitor, Airline>>} ELSE {})
    \cup {<<Monitor, Stack(s)>> : s \in
            {s \in Stacks : /\ mon.pc = "send" /\ O!Cmd.line = "SL"
                            /\ O!SrcId(O!Cmd) = s /\ Bound(s) /\ Full(slq[s])}}
    \cup {<<Stack(s), Monitor>> : s \in
            {s \in Stacks : slReply[s] # <<>> /\ Full(moq)}}
    \cup {<<Stack(s), Airline>> : s \in
            {s \in Stacks : slOut[s] # <<>> /\ ~Threaded /\ Full(alq)}}

\* Some processes wait for each other, and so for ever.
WaitCycle ==
    \E P \in (SUBSET Processes) \ {{}} : \A p \in P : \E q \in P : <<p, q>> \in Waits

\* Commands and packets in the same sockets do not lock the processes up:
\* Airline waiting with a reply for the monitor, the monitor with a command for
\* Airline, or for a stackline that waits for one of them.  Only commands that
\* ran out of polls can do it, and only more of them than the MONITOR socket
\* holds replies; it takes stacklines that receive while they send.
NoWaitCycle == Threaded /\ Cardinality(timeouts) <= QLen => ~WaitCycle

=============================================================================
