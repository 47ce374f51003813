------------------------------ MODULE DataPlane -----------------------------
(***************************************************************************)
(* The path of a packet through Whitefield: a stackline process sends it   *)
(* on the AIRLINE line, Airline's msgReader hands it to the MAC of the     *)
(* node that sent it, the MAC transmits and retries it, every node that    *)
(* hears it passes it to its own stackline on the STACKLINE line, and the  *)
(* outcome goes back to the sender as an ACK message.                      *)
(*                                                                         *)
(* Airline is one thread (NS3 RealtimeSimulatorImpl): its two callbacks    *)
(* and msgReader never run at the same time, and while it is blocked in a  *)
(* sendto nothing of the simulation runs.  Stacklines are processes of     *)
(* their own.  All sends are blocking datagram sends: refused when nobody  *)
(* is bound to the name, waiting when the receiver's queue is full.        *)
(***************************************************************************)
EXTENDS Macstats, Naturals, Sequences, FiniteSets, SequencesExt

CONSTANTS
    NumNodes,      \* numOfNodes of the configuration
    Stacks,        \* ids under which stackline processes send and listen
    Dsts,          \* destinations the stacklines use
    Promisc,       \* nodes configured with nodePromiscuous
    MacHeaderAdd,  \* macHeaderAdd of the configuration
    MaxRetry,      \* macMaxRetry of the configuration
    QLen,          \* datagrams a socket holds before a sender waits
    MaxPkts,       \* bound: packets each stackline submits
    Sizes,         \* {TRUE}: every frame fits the PHY; BOOLEAN: some do not
    Threaded       \* a stackline goes on receiving while its send waits

Nodes == 0..(NumNodes - 1)

\* QLen may be 0 for what is said of a socket that has no room: a socket of the
\* system holds a datagram at least.
ASSUME DataPlaneAssumption ==
    /\ NumNodes \in Nat /\ 0 < NumNodes /\ NumNodes <= 65535
    /\ Stacks \subseteq Ids
    /\ Dsts \subseteq Ids
    /\ Promisc \subseteq Nodes
    /\ MacHeaderAdd \in BOOLEAN
    /\ MaxRetry \in Nat
    /\ QLen \in Nat
    /\ MaxPkts \in [Stacks -> Nat]
    /\ Sizes \subseteq BOOLEAN
    /\ Threaded \in BOOLEAN

VARIABLES
    stack,     \* "new" (not bound yet), "up" or "dead", per stackline
    sent,      \* history: what each stackline has submitted, in order
    slOut,     \* the message a stackline's blocked sendto holds (at most one)
    alq,       \* Airline's receive queue
    reading,   \* msgReader is in its receive loop
    mac,       \* per node, the frames its MAC holds; the head is on the air
    tries,     \* per node, retransmissions of the head so far
    heard,     \* per node, who heard the latest transmission of the head
    stats,     \* per node, the counters
    alOut,     \* the message Airline's blocked sendto holds (at most one)
    slq,       \* each stackline's receive queue
    got,       \* history: per stackline, packets it received
    reports,   \* history: per stackline, ACK messages it received, in order
    refused    \* history: data messages nobody was bound to receive

vars == <<stack, sent, slOut, alq, reading, mac, tries, heard, stats,
          alOut, slq, got, reports, refused>>

stackVars   == <<stack, sent, slOut>>
macVars     == <<mac, tries, heard>>
historyVars == <<got, reports, refused>>

-----------------------------------------------------------------------------
(* Messages.  The field seq (the sender's count of submissions) is history: *)
(* the code carries no packet identity, only addresses.                     *)

Statuses    == {"ACK_OK", "NO_ACK", "ERR", "FATAL"}
MacStatuses == {"SUCCESS", "NO_ACK", "CHANNEL_ACCESS_FAILURE", "FRAME_TOO_LONG"}

Packets  == [dst : Dsts, fits : BOOLEAN]
Frames   == [src : Stacks, dst : Dsts, fits : BOOLEAN, seq : Nat]
DataMsgs == [kind : {"data"}, src : Stacks, dst : Dsts, seq : Nat]
AckMsgs  == [kind : {"ack"}, src : Nodes, dst : Ids, seq : Nat,
             status : Statuses, retries : Nat]
ToStack  == DataMsgs \cup AckMsgs
OutMsgs  == [to : Ids, msg : ToStack]

\* A transmission is acknowledged unless it is a broadcast or its source is a
\* promiscuous node (TX_OPTION_ACK).
AckRequested(f) == f.dst # BCAST /\ f.src \notin Promisc

\* Whom the MAC of node r passes a frame up to: by address, by broadcast, in
\* promiscuous mode, or, when the stackline builds the MAC header itself, by
\* what that header says.
Addressed(f, r) == \/ f.dst \in {BCAST, CL_DSTID_MACHDR_PRESENT, r}
                   \/ r \in Promisc

\* Mutant: hand the MAC's own status for a busy channel through.
wf_ack_status_raw(macStatus) ==
    CASE macStatus = "SUCCESS"                -> "ACK_OK"
      [] macStatus = "NO_ACK"                 -> "NO_ACK"
      [] macStatus = "CHANNEL_ACCESS_FAILURE" -> macStatus
      [] macStatus = "FRAME_TOO_LONG"         -> "FATAL"

\* LrWpan's data-confirm status as the stacklines know it.
wf_ack_status(macStatus) ==
    CASE macStatus = "SUCCESS"                -> "ACK_OK"
      [] macStatus = "NO_ACK"                 -> "NO_ACK"
      [] macStatus = "CHANNEL_ACCESS_FAILURE" -> "ERR"
      [] macStatus = "FRAME_TOO_LONG"         -> "FATAL"

-----------------------------------------------------------------------------
TypeOK ==
    /\ stack \in [Stacks -> {"new", "up", "dead"}]
    /\ sent \in [Stacks -> Seq(Packets)]
    /\ slOut \in [Stacks -> Seq(Frames)]
    /\ alq \in Seq(Frames)
    /\ reading \in BOOLEAN
    /\ mac \in [Nodes -> Seq(Frames)]
    /\ tries \in [Nodes -> 0..MaxRetry]
    /\ heard \in [Nodes -> SUBSET Nodes]
    /\ stats \in [Nodes -> StatsType]
    /\ alOut \in Seq(OutMsgs)
    /\ slq \in [Stacks -> Seq(ToStack)]
    /\ got \in [Stacks -> SUBSET (Stacks \X Nat)]
    /\ reports \in [Stacks -> Seq([seq : Nat, status : Statuses])]
    /\ refused \subseteq Ids \X Stacks \X Nat

Init ==
    /\ stack = [s \in Stacks |-> "new"]
    /\ sent = [s \in Stacks |-> <<>>]
    /\ slOut = [s \in Stacks |-> <<>>]
    /\ alq = <<>>
    /\ reading = FALSE
    /\ mac = [n \in Nodes |-> <<>>]
    /\ tries = [n \in Nodes |-> 0]
    /\ heard = [n \in Nodes |-> {}]
    /\ stats = [n \in Nodes |-> NoStats]
    /\ alOut = <<>>
    /\ slq = [s \in Stacks |-> <<>>]
    /\ got = [s \in Stacks |-> {}]
    /\ reports = [s \in Stacks |-> <<>>]
    /\ refused = {}

-----------------------------------------------------------------------------
(* Stackline processes.                                                     *)

\* The process binds its STACKLINE address: from now on it can be sent to.
StackStart(s) ==
    /\ stack[s] = "new"
    /\ stack' = [stack EXCEPT ![s] = "up"]
    /\ UNCHANGED <<sent, slOut, alq, reading, macVars, stats, alOut, slq,
                   historyVars>>

\* The process exits or crashes: its socket goes, with what was queued on it.
\* Nothing restarts it.
StackDie(s) ==
    /\ stack[s] = "up"
    /\ stack' = [stack EXCEPT ![s] = "dead"]
    /\ slOut' = [slOut EXCEPT ![s] = <<>>]
    /\ slq' = [slq EXCEPT ![s] = <<>>]
    /\ UNCHANGED <<sent, alq, reading, macVars, stats, alOut, historyVars>>

\* The stack hands a packet to cl_sendto_q(MTYPE(AIRLINE, CL_MGR_ID)).
StackSend(s) ==
    /\ stack[s] = "up"
    /\ slOut[s] = <<>>
    /\ Len(sent[s]) < MaxPkts[s]
    /\ \E dst \in Dsts \ {s}, fits \in Sizes :
         LET m == [src |-> s, dst |-> dst, fits |-> fits,
                   seq |-> Len(sent[s]) + 1]
         IN  /\ sent' = [sent EXCEPT ![s] =
                              Append(@, [dst |-> dst, fits |-> fits])]
             /\ \/ /\ Len(alq) < QLen
                   /\ alq' = Append(alq, m)
                   /\ UNCHANGED slOut
                \/ /\ Len(alq) >= QLen
                   /\ slOut' = [slOut EXCEPT ![s] = <<m>>]
                   /\ UNCHANGED alq
    /\ UNCHANGED <<stack, reading, macVars, stats, alOut, slq, historyVars>>

\* Airline's queue has room again: the waiting sendto completes.
StackUnblock(s) ==
    /\ slOut[s] # <<>>
    /\ Len(alq) < QLen
    /\ alq' = Append(alq, Head(slOut[s]))
    /\ slOut' = [slOut EXCEPT ![s] = <<>>]
    /\ UNCHANGED <<stack, sent, reading, macVars, stats, alOut, slq,
                   historyVars>>

\* cl_recvfrom_q(MTYPE(STACKLINE, id)) in the stackline.
StackRecv(s) ==
    /\ stack[s] = "up"
    /\ slq[s] # <<>>
    /\ Threaded \/ slOut[s] = <<>>
    /\ LET m == Head(slq[s])
       IN  \/ /\ m.kind = "data"
              /\ got' = [got EXCEPT ![s] = @ \cup {<<m.src, m.seq>>}]
              /\ UNCHANGED reports
           \/ /\ m.kind = "ack"
              /\ reports' = [reports EXCEPT ![s] =
                                Append(@, [seq |-> m.seq, status |-> m.status])]
              /\ UNCHANGED got
    /\ slq' = [slq EXCEPT ![s] = Tail(@)]
    /\ UNCHANGED <<stackVars, alq, reading, macVars, stats, alOut, refused>>

-----------------------------------------------------------------------------
(* Airline, receiving.                                                      *)

\* The simulator can run its next event.
Idle == ~reading /\ alOut = <<>>

\* The 1 ms event of ScheduleCommlineRX fires and msgReader enters its loop.
MsgReaderStart ==
    /\ Idle
    /\ reading' = TRUE
    /\ UNCHANGED <<stackVars, alq, macVars, stats, alOut, slq, historyVars>>

\* Nothing to receive: leave the loop and schedule the next round.
MsgReaderStop ==
    /\ reading
    /\ alq = <<>>
    /\ reading' = FALSE
    /\ UNCHANGED <<stackVars, alq, macVars, stats, alOut, slq, historyVars>>

\* msgrecvCallback's early returns.
Acceptable(m) ==
    /\ IN_RANGE(m.src, 0, NumNodes)
    /\ m.dst = CL_DSTID_MACHDR_PRESENT => ~MacHeaderAdd

MsgReaderDrop ==
    /\ reading
    /\ alq # <<>>
    /\ ~Acceptable(Head(alq))
    /\ alq' = Tail(alq)
    /\ UNCHANGED <<stackVars, reading, macVars, stats, alOut, slq, historyVars>>

\* ifaceSendPacket hands the frame to the MAC of the node it names as source
\* and the transmission is counted, whatever ifaceSendPacket returned.
MsgReaderSend ==
    /\ reading
    /\ alq # <<>>
    /\ LET m == Head(alq)
       IN  /\ Acceptable(m)
           /\ mac' = [mac EXCEPT ![m.src] = Append(@, m)]
           /\ stats' = [stats EXCEPT ![m.src] = set_tx_stats(@, m.dst)]
    /\ alq' = Tail(alq)
    /\ UNCHANGED <<stackVars, reading, tries, heard, alOut, slq, historyVars>>

-----------------------------------------------------------------------------
(* Airline, sending to a stackline.                                         *)

Bound(to) == to \in Stacks /\ stack[to] = "up"

\* Data messages are remembered when refused; a lost ACK has no other trace.
Refuse(to, m) ==
    refused' = IF m.kind = "data" THEN refused \cup {<<to, m.src, m.seq>>}
                                  ELSE refused

\* Mutant: a non-blocking send that drops the message when the queue is full.
SendToStacklineNoWait(to, m) ==
    \/ /\ ~Bound(to)
       /\ Refuse(to, m)
       /\ UNCHANGED <<alOut, slq>>
    \/ /\ Bound(to)
       /\ slq' = IF Len(slq[to]) < QLen THEN [slq EXCEPT ![to] = Append(@, m)]
                                        ELSE slq
       /\ UNCHANGED <<alOut, refused>>

\* cl_sendto_q(MTYPE(STACKLINE, to), m): refused, queued, or waiting.
SendToStackline(to, m) ==
    \/ /\ ~Bound(to)
       /\ Refuse(to, m)
       /\ UNCHANGED <<alOut, slq>>
    \/ /\ Bound(to)
       /\ Len(slq[to]) < QLen
       /\ slq' = [slq EXCEPT ![to] = Append(@, m)]
       /\ UNCHANGED <<alOut, refused>>
    \/ /\ Bound(to)
       /\ Len(slq[to]) >= QLen
       /\ alOut' = <<[to |-> to, msg |-> m]>>
       /\ UNCHANGED <<slq, refused>>

\* Mutant: the send is repeated although it went through.
AirlineUnblockTwice ==
    /\ alOut # <<>>
    /\ LET o == Head(alOut)
       IN  \/ /\ ~Bound(o.to)
              /\ Refuse(o.to, o.msg)
              /\ alOut' = <<>>
              /\ UNCHANGED slq
           \/ /\ Bound(o.to)
              /\ Len(slq[o.to]) < QLen
              /\ slq' = [slq EXCEPT ![o.to] = Append(@, o.msg)]
              /\ UNCHANGED <<alOut, refused>>
    /\ UNCHANGED <<stackVars, alq, reading, macVars, stats, got, reports>>

\* The wait ends: there is room, or the receiver is gone.
AirlineUnblock ==
    /\ alOut # <<>>
    /\ LET o == Head(alOut)
       IN  \/ /\ ~Bound(o.to)
              /\ Refuse(o.to, o.msg)
              /\ UNCHANGED slq
           \/ /\ Bound(o.to)
              /\ Len(slq[o.to]) < QLen
              /\ slq' = [slq EXCEPT ![o.to] = Append(@, o.msg)]
              /\ UNCHANGED refused
    /\ alOut' = <<>>
    /\ UNCHANGED <<stackVars, alq, reading, macVars, stats, got, reports>>

\* SendPacketToStackline: the reception is charged to the frame's source.
SendPacketToStackline(r, f) ==
    /\ stats' = [stats EXCEPT ![f.src] = set_data_stats(@, f.dst)]
    /\ SendToStackline(r, [kind |-> "data", src |-> f.src, dst |-> f.dst,
                           seq |-> f.seq])

\* DataIndication of node r for the frame at the head of mac[n].
DataIndication(n, r) ==
    /\ Idle
    /\ mac[n] # <<>>
    /\ Head(mac[n]).fits
    /\ r # n
    /\ r \notin heard[n]
    /\ Addressed(Head(mac[n]), r)
    /\ SendPacketToStackline(r, Head(mac[n]))
    /\ heard' = [heard EXCEPT ![n] = @ \cup {r}]
    /\ UNCHANGED <<stackVars, alq, reading, mac, tries, got, reports>>

\* SendAckToStackline: count the outcome and tell the sender.  The number of
\* attempts is filled in for ACK_OK only.
SendAckToStackline(n, f, status, attempts) ==
    LET retries == IF status = "ACK_OK" THEN attempts ELSE 0
    IN  /\ stats' = [stats EXCEPT ![n] = set_ack_stats(@, status, retries)]
        /\ SendToStackline(n, [kind |-> "ack", src |-> n, dst |-> f.dst,
                               seq |-> f.seq, status |-> status,
                               retries |-> retries])

\* Mutant: report the MAC's retransmissions instead of its attempts.
DataConfirmNoIncrement(n, f, macStatus) ==
    \/ /\ f.dst = BCAST
       /\ UNCHANGED <<stats, alOut, slq, refused>>
    \/ /\ f.dst # BCAST
       /\ SendAckToStackline(n, f, wf_ack_status(macStatus), tries[n])

\* Mutant: confirm broadcasts too.
DataConfirmBroadcast(n, f, macStatus) ==
    SendAckToStackline(n, f, wf_ack_status(macStatus), tries[n] + 1)

\* DataConfirm of node n for frame f: nothing for a broadcast.
DataConfirm(n, f, macStatus) ==
    \/ /\ f.dst = BCAST
       /\ UNCHANGED <<stats, alOut, slq, refused>>
    \/ /\ f.dst # BCAST
       /\ SendAckToStackline(n, f, wf_ack_status(macStatus), tries[n] + 1)

-----------------------------------------------------------------------------
(* The MAC and the channel (NS3 LrWpanMac), as far as Airline sees them.    *)

\* No ACK came back for the head: transmit it again.
MacRetry(n) ==
    /\ Idle
    /\ mac[n] # <<>>
    /\ Head(mac[n]).fits
    /\ AckRequested(Head(mac[n]))
    /\ tries[n] < MaxRetry
    /\ tries' = [tries EXCEPT ![n] = @ + 1]
    /\ heard' = [heard EXCEPT ![n] = {}]
    /\ UNCHANGED <<stackVars, alq, reading, mac, stats, alOut, slq, historyVars>>

\* The outcomes the MAC can give the head.
Outcome(n, macStatus) ==
    LET f == Head(mac[n])
    IN  \/ /\ macStatus = "SUCCESS"
           /\ AckRequested(f) => \/ f.dst \in heard[n]
                                 \/ f.dst = CL_DSTID_MACHDR_PRESENT
        \/ /\ macStatus = "NO_ACK"
           /\ AckRequested(f)
           /\ tries[n] = MaxRetry
        \/ macStatus = "CHANNEL_ACCESS_FAILURE"

\* The MAC is done with the head of mac[n].
MacDone(n, macStatus) ==
    /\ Idle
    /\ mac[n] # <<>>
    /\ Head(mac[n]).fits
    /\ Outcome(n, macStatus)
    /\ DataConfirm(n, Head(mac[n]), macStatus)
    /\ mac' = [mac EXCEPT ![n] = Tail(@)]
    /\ tries' = [tries EXCEPT ![n] = 0]
    /\ heard' = [heard EXCEPT ![n] = {}]
    /\ UNCHANGED <<stackVars, alq, reading, got, reports>>

\* The MAC refuses a frame that does not fit in the event that hands it over
\* (ScheduleNow, so after msgReader's loop), ahead of the frames it holds.
MacReject(n, i) ==
    /\ Idle
    /\ ~mac[n][i].fits
    /\ DataConfirm(n, mac[n][i], "FRAME_TOO_LONG")
    /\ mac' = [mac EXCEPT ![n] = RemoveAt(@, i)]
    /\ UNCHANGED <<stackVars, alq, reading, tries, heard, got, reports>>

-----------------------------------------------------------------------------
StackStep(s) == \/ StackStart(s)
                \/ StackDie(s)
                \/ StackSend(s)
                \/ StackUnblock(s)
                \/ StackRecv(s)

MsgReader == \/ MsgReaderStart
             \/ MsgReaderStop
             \/ MsgReaderDrop
             \/ MsgReaderSend

\* What the MAC of node n does by itself; hearing a frame is up to the radio.
MacStep(n) == \/ MacRetry(n)
              \/ \E st \in MacStatuses : MacDone(n, st)
              \/ \E i \in DOMAIN mac[n] : MacReject(n, i)

Next == \/ \E s \in Stacks : StackStep(s)
        \/ MsgReader
        \/ \E n, r \in Nodes : DataIndication(n, r)
        \/ \E n \in Nodes : MacStep(n)
        \/ AirlineUnblock

Spec == Init /\ [][Next]_vars

-----------------------------------------------------------------------------
(* Properties.                                                              *)

Service == INSTANCE LinkService WITH
    stack <- stack, sent <- sent, got <- got, reports <- reports

Reportable(s, k) == Service!Reportable(s, k)

\* The data plane implements the service its stacklines rely on: in-order
\* delivery, and one in-order report for every unicast (msgrecvCallback,
\* DataIndication, DataConfirm and the queues between them).
ImplementsService == Service!ServiceSpec

\* A stackline never gets two ACK messages for one packet, and the ACKs of
\* frames the PHY can carry come in the order of submission: ACKs carry only
\* addresses, so a stackline can tell them apart by order alone
\* (SendAckToStackline).
ReportsFifo ==
    \A s \in Stacks : \A i, j \in DOMAIN reports[s] :
        i < j => LET p == reports[s][i].seq
                     q == reports[s][j].seq
                 IN  /\ p # q
                     /\ sent[s][p].fits /\ sent[s][q].fits => p < q

Holds(r, s, k) ==
    \/ <<s, k>> \in got[r]
    \/ \E i \in DOMAIN slq[r] : /\ slq[r][i].kind = "data"
                                /\ slq[r][i].src = s
                                /\ slq[r][i].seq = k

\* When a sender reads ACK_OK for a unicast, the addressee's stackline already
\* has the packet in its socket or has read it, unless that process was not
\* there to be sent to: SendPacketToStackline of the receiver completes, however
\* long it blocks, before DataConfirm of the sender runs.  (With the destination
\* CL_DSTID_MACHDR_PRESENT the addressee is in the payload's header, so nobody
\* is meant by that id, not even a stackline that has it.)
AckedIsPassedOn ==
    \A s \in Stacks \ Promisc : \A i \in DOMAIN reports[s] :
        LET k   == reports[s][i].seq
            dst == sent[s][k].dst
        IN  (/\ reports[s][i].status = "ACK_OK"
             /\ dst \in Stacks \ {CL_DSTID_MACHDR_PRESENT}) =>
                \/ Holds(dst, s, k)
                \/ <<dst, s, k>> \in refused
                \/ stack[dst] = "dead"

UnicastsInMac(n) ==
    Cardinality({i \in DOMAIN mac[n] : mac[n][i].dst # BCAST})

\* A node's counters balance: every unicast counted as transmitted is counted
\* as failed, counted under its number of attempts, or still in the MAC.  So
\* tx_succ = tx_pkts - tx_fail and rx_ack_ok agree (set_tx_stats, set_rx_stats).
\* The report of cmd_mac_stats may show less: get_summary prints a column for the
\* attempts 1 to macMaxRetry only, and there is one attempt more.
StatsBalance ==
    \A n \in Nodes :
        TxSucc(stats[n]) = SumFunction(stats[n].rx_ack_ok) + UnicastsInMac(n)

\* Every unicast Airline accepts is eventually reported to its sender, if the
\* sender lives: no queue, retry or blocked send swallows the outcome.
EveryUnicastReported ==
    \A s \in Stacks : \A k \in 1..MaxPkts[s] :
        (k \in DOMAIN sent[s] /\ Reportable(s, k))
            ~> (stack[s] = "dead" \/ Service!Reported(s, k))

\* A send that waits for room in a queue does not wait for ever.
BlockedSendsEnd ==
    /\ alOut # <<>> ~> alOut = <<>>
    /\ \A s \in Stacks : slOut[s] # <<>> ~> slOut[s] = <<>>

=============================================================================
