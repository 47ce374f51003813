-------------------------------- MODULE Ifaces -------------------------------
(***************************************************************************)
(* The data plane over either of Airline's interfaces.  The configuration  *)
(* names one, and IfaceHandler sends every packet to it: LR-WPAN, which    *)
(* DataPlane models, or the power line, which has callbacks of its own     *)
(* (PowerLineCommHandler.cc).  Stacklines, msgReader, counters and queues  *)
(* are DataPlane's for both.                                               *)
(*                                                                         *)
(* Over the power line a packet has no size the PHY refuses; fits = FALSE  *)
(* stands for one that fills the buffer of a message (COMMLINE_MAX_BUF).   *)
(* There is no promiscuous mode (setPromiscuous is NULL).                  *)
(***************************************************************************)
EXTENDS DataPlane, Address

\* Whatever else stacklines send, they send packets that are not too long.
ASSUME SizesAssumption == TRUE \in Sizes

VARIABLE phy   \* PHY of the configuration: "lowpan" or "plc"

ifVars == <<vars, phy>>

IfInit == Init /\ phy \in {"lowpan", "plc"}

\* What is left of an id that went over the power line as a MAC address.
PlcId(id) == getIdFromMacAddr(getMacAddress(id))

OverPlc(f) == [f EXCEPT !.src = PlcId(@), !.dst = PlcId(@)]

-----------------------------------------------------------------------------
(* Callbacks of the power-line MAC.                                         *)

\* A packet that fills the buffer is dropped.
plcHandleData(r, f) ==
    \/ /\ ~f.fits
       /\ UNCHANGED <<stats, alOut, slq, refused>>
    \/ /\ f.fits
       /\ SendPacketToStackline(r, OverPlc(f))

\* Mutant: report the retransmissions instead of the attempts.
plcHandleAckNoIncrement(n, f, retries) ==
    SendAckToStackline(n, OverPlc(f), "ACK_OK", retries)

plcHandleAck(n, f, retries) ==
    SendAckToStackline(n, OverPlc(f), "ACK_OK", retries + 1)

\* Mutant: tell the receiver.
plcHandleTxFailReceiver(n, f) ==
    SendAckToStackline(PlcId(f.dst), [f EXCEPT !.dst = PlcId(n)], "NO_ACK", 0)

plcHandleTxFail(n, f) == SendAckToStackline(n, OverPlc(f), "NO_ACK", 0)

-----------------------------------------------------------------------------
(* The power-line MAC (NS3, module plc), as far as Airline sees it: one     *)
(* frame at a time, repeated until the addressee acknowledges it or the MAC *)
(* gives up; broadcasts are neither acknowledged nor repeated.              *)

PlcAddressed(f, r) ==
    getMacAddress(f.dst) \in {getMacAddress(r), getMacAddress(BCAST)}

PlcIndication(n, r) ==
    /\ phy = "plc"
    /\ Idle
    /\ mac[n] # <<>>
    /\ r # n
    /\ r \notin heard[n]
    /\ PlcAddressed(Head(mac[n]), r)
    /\ plcHandleData(r, Head(mac[n]))
    /\ heard' = [heard EXCEPT ![n] = @ \cup {r}]
    /\ UNCHANGED <<phy, stackVars, alq, reading, mac, tries, got, reports>>

PlcRetry(n) ==
    /\ phy = "plc"
    /\ Idle
    /\ mac[n] # <<>>
    /\ Head(mac[n]).dst # BCAST
    /\ tries[n] < MaxRetry
    /\ tries' = [tries EXCEPT ![n] = @ + 1]
    /\ heard' = [heard EXCEPT ![n] = {}]
    /\ UNCHANGED <<phy, stackVars, alq, reading, mac, stats, alOut, slq,
                   historyVars>>

PlcDone(n) ==
    /\ phy = "plc"
    /\ Idle
    /\ mac[n] # <<>>
    /\ LET f == Head(mac[n])
       IN  \/ /\ f.dst = BCAST
              /\ UNCHANGED <<stats, alOut, slq, refused>>
           \/ /\ f.dst # BCAST
              /\ f.dst \in heard[n]
              /\ plcHandleAck(n, f, tries[n])
           \/ /\ f.dst # BCAST
              /\ plcHandleTxFail(n, f)
    /\ mac' = [mac EXCEPT ![n] = Tail(@)]
    /\ tries' = [tries EXCEPT ![n] = 0]
    /\ heard' = [heard EXCEPT ![n] = {}]
    /\ UNCHANGED <<phy, stackVars, alq, reading, got, reports>>

-----------------------------------------------------------------------------
StackProcess(s) == StackStep(s) /\ UNCHANGED phy

AirlineCommline == (MsgReader \/ AirlineUnblock) /\ UNCHANGED phy

LrwpanIndication(n, r) ==
    phy = "lowpan" /\ DataIndication(n, r) /\ UNCHANGED phy

LrwpanMac(n) == phy = "lowpan" /\ MacStep(n) /\ UNCHANGED phy

Mac(n) == LrwpanMac(n) \/ PlcRetry(n) \/ PlcDone(n)

IfNext == \/ \E s \in Stacks : StackProcess(s)
          \/ AirlineCommline
          \/ \E n, r \in Nodes : LrwpanIndication(n, r) \/ PlcIndication(n, r)
          \/ \E n \in Nodes : Mac(n)

IfSpec == IfInit /\ [][IfNext]_ifVars

\* Fairness.  A stackline's receive loop and every step of Airline's thread
\* are eventually taken once they stay possible.  msgReader's event and the
\* MAC's own events alternate, because msgReader is rescheduled 1 ms ahead,
\* and a kernel wakes every waiting sender, so the MAC's steps and a waiting
\* send are taken when they are possible again and again.
IfFairness ==
    /\ WF_vars(MsgReader)
    /\ WF_vars(AirlineUnblock)
    /\ \A n \in Nodes : SF_vars(Mac(n))
    /\ \A s \in Stacks : WF_vars(StackRecv(s)) /\ SF_vars(StackUnblock(s))

IfFairSpec == IfSpec /\ IfFairness

-----------------------------------------------------------------------------
(* Properties.                                                              *)

\* What stacklines submit, as far as their interface tells sizes apart: no
\* packet is too long for the power line.
Submitted == [s \in Stacks |-> [k \in DOMAIN sent[s] |->
                 [sent[s][k] EXCEPT !.fits = @ \/ phy = "plc"]]]

\* What stacklines may rely on does not depend on the interface.
Promise == INSTANCE LinkService WITH
    stack <- stack, sent <- Submitted, got <- got, reports <- reports

\* Both interfaces implement the service (ifaceSendPacket; plcHandleData,
\* plcHandleAck and plcHandleTxFail as well as DataIndication and DataConfirm).
EitherImplementsService == Promise!ServiceSpec

\* When a sender reads ACK_OK, the addressee's stackline has the packet or has
\* read it, unless it was not there to be sent to.  Over the power line that
\* goes for packets that leave room in the buffer: one that fills it is
\* acknowledged by the MAC and dropped by plcHandleData.
EitherAckedIsPassedOn ==
    \A s \in Stacks \ Promisc : \A i \in DOMAIN reports[s] :
        LET k == reports[s][i].seq
            p == sent[s][k]
        IN  (/\ reports[s][i].status = "ACK_OK"
             /\ p.fits
             /\ p.dst \in Stacks \ {CL_DSTID_MACHDR_PRESENT}) =>
                \/ Holds(p.dst, s, k)
                \/ <<p.dst, s, k>> \in refused
                \/ stack[p.dst] = "dead"

=============================================================================
