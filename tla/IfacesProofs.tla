---------------------------- MODULE IfacesProofs ----------------------------
(***************************************************************************)
(* The addresses of the media, for every 16-bit id; and what               *)
(* DataPlaneProofs proves of one interface, for either.  First what ACK_OK *)
(* says, which goes for the power line too, as far as packets fit.  Then   *)
(* the service.  The power line moves packets as LR-WPAN does but calls    *)
(* none too long, so its steps are looked at in the state where every      *)
(* packet fits: D is the data plane in that state.                         *)
(***************************************************************************)
EXTENDS Ifaces, DataPlaneProofs

-----------------------------------------------------------------------------
(* Addresses.                                                               *)

\* A 16-bit number is put together again from its two bytes.
LEMMA Bytes ==
    ASSUME NEW id \in Ids
    PROVE  /\ Hi(id) \in 0..255 /\ Lo(id) \in 0..255
           /\ Word(Hi(id), Lo(id)) = id
BY DEF Ids, Hi, Lo, Word

\* LR-WPAN: frames reach the node they are addressed to, and confirmations and
\* indications name the node they came from (id2addr, setShortAddress, addr2id).
THEOREM LrwpanRoundTrip == \A id \in Ids : LrwpanAgree(id)
<1> TAKE id \in Ids
<1>1. Word(Hi(id), Lo(id)) = id
  BY Bytes
<1> QED BY <1>1 DEF LrwpanAgree, id2addr, setShortAddress, addr2id

\* Stacklines: a 64-bit address names the node it was made for, the broadcast
\* address included (cl_get_id2longaddr, cl_get_longaddr2id).
THEOREM LongRoundTrip == \A id \in Ids : LongAgree(id)
<1> TAKE id \in Ids
<1>1. Word(Hi(id), Lo(id)) = id
  BY Bytes
<1>2. CASE id = 65535
  BY <1>2 DEF LongAgree, cl_get_id2longaddr, cl_get_longaddr2id
<1>3. CASE id # 65535
  <2> DEFINE a == <<1, 2, 3, 4, 5, 6, Hi(id), Lo(id)>>
  <2>1. a[1] # 0 /\ a[7] = Hi(id) /\ a[8] = Lo(id) /\ 1 \in 1..8
    OBVIOUS
  <2>2. cl_get_longaddr2id(a) = id
    BY <1>1, <2>1 DEF cl_get_longaddr2id
  <2> QED BY <1>3, <2>2 DEF LongAgree, cl_get_id2longaddr
<1> QED BY <1>2, <1>3

\* Power line: what comes back for each id, the ids that alias node 0 included
\* (getMacAddress, getIdFromMacAddr).
THEOREM PlcRoundTrip == \A id \in Ids : PlcAgree(id)
<1> TAKE id \in Ids
<1> DEFINE bcast == <<255, 255, 255, 255, 255, 255>>
<1>1. CASE id = 65535
  BY <1>1 DEF PlcAgree, getMacAddress, getIdFromMacAddr
<1>2. CASE id # 65535
  <2> DEFINE i == (id + 1) % 65536
             a == <<0, 0, 0, 0, Hi(i), Lo(i)>>
  <2>1. i = id + 1 /\ i \in Ids
    BY <1>2 DEF Ids
  <2>2. Word(a[5], a[6]) = id + 1
    BY <2>1, Bytes
  <2>3. a # bcast
    <3>1. a[1] = 0 /\ bcast[1] = 255
      OBVIOUS
    <3> QED BY <3>1
  <2>4. (Word(a[5], a[6]) + 65535) % 65536 = id
    BY <1>2, <2>2 DEF Ids
  <2>5. getIdFromMacAddr(a) = IF id >= 65280 THEN 0 ELSE id
    BY <2>3, <2>4 DEF getIdFromMacAddr
  <2>6. getMacAddress(id) = a
    BY <1>2 DEF getMacAddress
  <2> QED BY <1>2, <2>5, <2>6 DEF PlcAgree
<1> QED BY <1>1, <1>2

-----------------------------------------------------------------------------
(* The steps of either interface, as DataPlaneProofs knows them.            *)

LEMMA EitherSteps ==
    ASSUME phy \in {"lowpan", "plc"}, [IfNext]_ifVars
    PROVE  /\ phy' = phy
           /\ phy = "lowpan" => [Next]_vars
           /\ phy = "plc" => \/ SharedStep
                             \/ \E n, r \in Nodes : PlcIndication(n, r)
                             \/ \E n \in Nodes : PlcRetry(n) \/ PlcDone(n)
<1>1. CASE UNCHANGED ifVars
  BY <1>1 DEF ifVars, SharedStep
<1>2. CASE IfNext
  BY <1>2 DEF IfNext, StackProcess, AirlineCommline, LrwpanIndication, LrwpanMac,
     Mac, PlcIndication, PlcRetry, PlcDone, Next, SharedStep
<1> QED BY <1>1, <1>2

\* An id that goes over the power line comes back as an id, and as itself when
\* it is that of a node, if the nodes' ids end below those that are taken for
\* node 0, or of everybody.
PlcIdsApart == NumNodes <= 65280

LEMMA PlcIds ==
    /\ \A id \in Ids : PlcId(id) \in Ids
    /\ \A id \in Ids : id < 65280 \/ id = BCAST => PlcId(id) = id
<1>1. \A id \in Ids : PlcId(id) = IF id >= 65280 /\ id # 65535 THEN 0 ELSE id
  BY PlcRoundTrip DEF PlcAgree, PlcId
<1>2. Ids \subseteq Nat /\ 0 \in Ids /\ BCAST = 65535
  BY DEF Ids, BCAST
<1> QED BY <1>1, <1>2

LEMMA MacAddressesDiffer ==
    ASSUME NEW i \in Ids, NEW j \in Ids, getMacAddress(i) = getMacAddress(j)
    PROVE  i = j
<1> DEFINE up(k) == (k + 1) % 65536
<1>1. ASSUME NEW k \in Ids, k # 65535
      PROVE  /\ up(k) = k + 1 /\ up(k) \in Ids
             /\ getMacAddress(k) = <<0, 0, 0, 0, Hi(up(k)), Lo(up(k))>>
             /\ getMacAddress(k)[1] = 0
             /\ Word(getMacAddress(k)[5], getMacAddress(k)[6]) = k + 1
  <2>1. up(k) = k + 1 /\ up(k) \in Ids
    BY <1>1 DEF Ids
  <2>2. getMacAddress(k) = <<0, 0, 0, 0, Hi(up(k)), Lo(up(k))>>
    BY <1>1 DEF getMacAddress
  <2>3. Word(Hi(up(k)), Lo(up(k))) = k + 1
    BY <2>1, Bytes
  <2> HIDE DEF up
  <2>4. /\ getMacAddress(k)[1] = 0
        /\ getMacAddress(k)[5] = Hi(up(k)) /\ getMacAddress(k)[6] = Lo(up(k))
    BY <2>2
  <2> QED BY <2>1, <2>2, <2>3, <2>4
<1>2. getMacAddress(65535)[1] = 255
  BY DEF getMacAddress
<1>3. i \in Nat /\ j \in Nat
  BY DEF Ids
<1> QED BY <1>1, <1>2, <1>3

LEMMA SameEnds ==
    ASSUME NEW f \in Frames, PlcId(f.src) = f.src, PlcId(f.dst) = f.dst
    PROVE  OverPlc(f) = f
<1>1. [f EXCEPT !.src = f.src] = f
  BY DEF Frames
<1>2. [f EXCEPT !.dst = f.dst] = f
  BY DEF Frames
<1>3. [f EXCEPT !.src = PlcId(f.src)] = f
  BY <1>1
<1>4. [[f EXCEPT !.src = PlcId(f.src)] EXCEPT !.dst = PlcId(f.dst)] = f
  BY <1>2, <1>3
<1> QED BY <1>4 DEF OverPlc

\* The packet on the air of a power-line node that another hears goes up with
\* the ids it was sent with.
LEMMA PlcKeeps ==
    ASSUME TypeOK, Genuine, PlcIdsApart, NEW n \in Nodes, NEW r \in Nodes,
           mac[n] # <<>>, PlcAddressed(Head(mac[n]), r)
    PROVE  /\ OverPlc(Head(mac[n])) = Head(mac[n])
           /\ Head(mac[n]) \in TakenBy[n]
           /\ Head(mac[n]).dst \in {r, BCAST}
<1> DEFINE f == Head(mac[n])
<1>1. f \in TakenBy[n]
  BY SeqTyped DEF Genuine
<1>2. f \in Frames /\ f.src = n /\ n \in Stacks
  BY <1>1, TakenFrame
<1> HIDE DEF f
<1>3. f.dst \in Ids /\ r \in Ids /\ n \in Ids /\ BCAST \in Ids
  <2>1. r \in Ids /\ n \in Ids
    BY NodesAreIds
  <2>2. f.dst \in Ids
    BY <1>2, DataPlaneAssumption DEF Frames
  <2>3. BCAST \in Ids
    BY DEF Ids, BCAST
  <2> QED BY <2>1, <2>2, <2>3
<1>4. getMacAddress(f.dst) \in {getMacAddress(r), getMacAddress(BCAST)}
  BY DEF PlcAddressed, f
<1>5. f.dst \in {r, BCAST}
  BY <1>3, <1>4, MacAddressesDiffer
<1>6. n < 65280 /\ r < 65280
  BY DataPlaneAssumption DEF Nodes, PlcIdsApart
<1>7. PlcId(f.src) = f.src /\ PlcId(f.dst) = f.dst
  BY <1>2, <1>3, <1>5, <1>6, PlcIds
<1>8. OverPlc(f) = f
  BY <1>2, <1>7, SameEnds
<1> QED BY <1>1, <1>5, <1>8 DEF f

\* What a node that hears a packet over the power line does with it.
LEMMA PlcHandsUp ==
    ASSUME TypeOK, Genuine, PlcIdsApart, NEW n \in Nodes, NEW r \in Nodes,
           PlcIndication(n, r)
    PROVE  LET f == Head(mac[n])
               d == [kind |-> "data", src |-> n, dst |-> f.dst, seq |-> f.seq]
           IN  /\ f \in TakenBy[n] /\ d \in DataMsgs /\ f.dst \in {r, BCAST}
               /\ \/ ~f.fits /\ UNCHANGED <<stats, alOut, slq, refused>>
                  \/ /\ f.fits
                     /\ stats' = [stats EXCEPT ![n] = set_data_stats(@, f.dst)]
                     /\ SendToStackline(r, d)
<1> DEFINE f == Head(mac[n])
           d == [kind |-> "data", src |-> n, dst |-> f.dst, seq |-> f.seq]
<1>1. OverPlc(f) = f /\ f \in TakenBy[n] /\ f.dst \in {r, BCAST}
  BY PlcKeeps DEF PlcIndication
<1>2. plcHandleData(r, f)
  BY DEF PlcIndication
<1>3. f \in Frames /\ f.src = n /\ n \in Stacks
  BY <1>1, TakenFrame
<1> HIDE DEF f
<1>4. d \in DataMsgs
  BY <1>3 DEF DataMsgs, Frames
<1>5. \/ ~f.fits /\ UNCHANGED <<stats, alOut, slq, refused>>
      \/ /\ f.fits
         /\ stats' = [stats EXCEPT ![n] = set_data_stats(@, f.dst)]
         /\ SendToStackline(r, d)
  BY <1>1, <1>2, <1>3 DEF plcHandleData, SendPacketToStackline
<1> QED BY <1>1, <1>4, <1>5 DEF f

\* What the power-line MAC tells of the packet it is done with.
LEMMA PlcTells ==
    ASSUME TypeOK, Genuine, NEW n \in Nodes, PlcDone(n)
    PROVE  LET f == Head(mac[n])
           IN  /\ f \in TakenBy[n]
               /\ \/ f.dst = BCAST /\ UNCHANGED <<stats, alOut, slq, refused>>
                  \/ \E a \in AckMsgs :
                        /\ f.dst # BCAST
                        /\ a.src = n /\ a.seq = f.seq
                        /\ a.status # "FATAL"
                        /\ a.status = "ACK_OK" => f.dst \in heard[n]
                        /\ stats' = [stats EXCEPT ![n] =
                                        set_ack_stats(@, a.status, a.retries)]
                        /\ SendToStackline(n, a)
<1> DEFINE f == Head(mac[n])
           ack(status, retries) ==
               [kind |-> "ack", src |-> n, dst |-> PlcId(f.dst), seq |-> f.seq,
                status |-> status, retries |-> retries]
<1>1. f \in TakenBy[n]
  BY SeqTyped DEF Genuine, PlcDone
<1>2. f \in Frames
  BY <1>1, TakenFrame
<1> HIDE DEF f
<1>3. PlcId(f.dst) \in Ids /\ f.seq \in Nat
  BY <1>2, PlcIds, DataPlaneAssumption DEF Frames
<1>4. ASSUME NEW status \in Statuses, NEW retries \in Nat
      PROVE  ack(status, retries) \in AckMsgs
  BY <1>3 DEF AckMsgs
<1>5. OverPlc(f).dst = PlcId(f.dst) /\ OverPlc(f).seq = f.seq
  BY <1>2 DEF OverPlc, Frames
<1>6. CASE f.dst = BCAST /\ UNCHANGED <<stats, alOut, slq, refused>>
  BY <1>1, <1>6 DEF f
<1>7. CASE f.dst # BCAST /\ f.dst \in heard[n] /\ plcHandleAck(n, f, tries[n])
  <2> DEFINE a == ack("ACK_OK", tries[n] + 1)
  <2>1. a \in AckMsgs
    <3>1. tries[n] + 1 \in Nat /\ "ACK_OK" \in Statuses
      BY DataPlaneAssumption DEF TypeOK, Statuses
    <3> QED BY <1>4, <3>1
  <2>2. /\ stats' = [stats EXCEPT ![n] = set_ack_stats(@, "ACK_OK", tries[n] + 1)]
        /\ SendToStackline(n, a)
    BY <1>5, <1>7 DEF plcHandleAck, SendAckToStackline
  <2>3. /\ a.src = n /\ a.seq = f.seq /\ a.status = "ACK_OK"
        /\ a.retries = tries[n] + 1
    OBVIOUS
  <2> HIDE DEF a
  <2> QED BY <1>1, <1>7, <2>1, <2>2, <2>3 DEF f
<1>8. CASE f.dst # BCAST /\ plcHandleTxFail(n, f)
  <2> DEFINE a == ack("NO_ACK", 0)
  <2>1. a \in AckMsgs
    <3>1. "NO_ACK" \in Statuses
      BY DEF Statuses
    <3> QED BY <1>4, <3>1
  <2>2. /\ stats' = [stats EXCEPT ![n] = set_ack_stats(@, "NO_ACK", 0)]
        /\ SendToStackline(n, a)
    BY <1>5, <1>8 DEF plcHandleTxFail, SendAckToStackline
  <2>3. a.src = n /\ a.seq = f.seq /\ a.status = "NO_ACK" /\ a.retries = 0
    OBVIOUS
  <2> HIDE DEF a
  <2> QED BY <1>1, <1>8, <2>1, <2>2, <2>3 DEF f
<1> QED BY <1>6, <1>7, <1>8 DEF PlcDone, f

\* The state keeps its shape whichever interface moves the packets.
LEMMA EitherTyped ==
    ASSUME TypeOK, Genuine, phy \in {"lowpan", "plc"}, PlcIdsApart,
           [IfNext]_ifVars
    PROVE  TypeOK'
<1>1. CASE [Next]_vars
  BY <1>1, StepTyped
<1>2. CASE SharedStep
  <2>1. [Next]_vars
    BY <1>2 DEF SharedStep, Next
  <2> QED BY <2>1, StepTyped
<1>3. ASSUME NEW n \in Nodes, NEW r \in Nodes, PlcIndication(n, r)
      PROVE  TypeOK'
  <2> DEFINE f == Head(mac[n])
             d == [kind |-> "data", src |-> n, dst |-> f.dst, seq |-> f.seq]
  <2>1. /\ d \in DataMsgs
        /\ \/ ~f.fits /\ UNCHANGED <<stats, alOut, slq, refused>>
           \/ /\ stats' = [stats EXCEPT ![n] = set_data_stats(@, f.dst)]
              /\ SendToStackline(r, d)
    BY <1>3, PlcHandsUp
  <2>2. d \in ToStack
    BY <2>1 DEF ToStack
  <2>3. UNCHANGED <<stack, sent, slOut, alq, reading, mac, tries, got, reports>>
    BY <1>3 DEF PlcIndication, stackVars
  <2>4. heard' \in [Nodes -> SUBSET Nodes]
    BY <1>3 DEF PlcIndication, TypeOK
  <2>5. set_data_stats(stats[n], f.dst) \in StatsType
    BY StatsTyped DEF TypeOK
  <2> HIDE DEF f, d
  <2>6. CASE UNCHANGED <<stats, alOut, slq, refused>>
    BY <2>3, <2>4, <2>6 DEF TypeOK
  <2>7. CASE /\ stats' = [stats EXCEPT ![n] = set_data_stats(@, f.dst)]
             /\ SendToStackline(r, d)
    <3>1. /\ alOut' \in Seq(OutMsgs)
          /\ slq' \in [Stacks -> Seq(ToStack)]
          /\ refused' \subseteq Ids \X Stacks \X Nat
      BY <2>2, <2>7, SendTyped
    <3>2. stats' \in [Nodes -> StatsType]
      BY <2>5, <2>7, ChargeTyped DEF TypeOK
    <3> QED BY <2>3, <2>4, <3>1, <3>2 DEF TypeOK
  <2> QED BY <2>1, <2>6, <2>7
<1>4. ASSUME NEW n \in Nodes, PlcRetry(n) PROVE TypeOK'
  <2>1. tries' \in [Nodes -> 0..MaxRetry] /\ heard' \in [Nodes -> SUBSET Nodes]
    BY <1>4, DataPlaneAssumption DEF PlcRetry, TypeOK
  <2>2. UNCHANGED <<stack, sent, slOut, alq, reading, mac, stats, alOut, slq,
                    got, reports, refused>>
    BY <1>4 DEF PlcRetry, stackVars, historyVars
  <2> QED BY <2>1, <2>2 DEF TypeOK
<1>5. ASSUME NEW n \in Nodes, PlcDone(n) PROVE TypeOK'
  <2>1. tries' \in [Nodes -> 0..MaxRetry] /\ heard' \in [Nodes -> SUBSET Nodes]
    BY <1>5, DataPlaneAssumption DEF PlcDone, TypeOK
  <2>2. UNCHANGED <<stack, sent, slOut, alq, reading, got, reports>>
    BY <1>5 DEF PlcDone, stackVars
  <2>3. mac' \in [Nodes -> Seq(Frames)]
    BY <1>5, QueuesTyped DEF PlcDone, TypeOK
  <2>4. CASE UNCHANGED <<stats, alOut, slq, refused>>
    BY <2>1, <2>2, <2>3, <2>4 DEF TypeOK
  <2>5. ASSUME NEW a \in AckMsgs,
               stats' = [stats EXCEPT ![n] = set_ack_stats(@, a.status, a.retries)],
               SendToStackline(n, a)
        PROVE  TypeOK'
    <3>1. a \in ToStack /\ a.retries \in Nat
      BY DEF ToStack, AckMsgs
    <3>2. /\ alOut' \in Seq(OutMsgs)
          /\ slq' \in [Stacks -> Seq(ToStack)]
          /\ refused' \subseteq Ids \X Stacks \X Nat
      BY <2>5, <3>1, SendTyped
    <3>3. set_ack_stats(stats[n], a.status, a.retries) \in StatsType
      BY <3>1, StatsTyped DEF TypeOK
    <3>4. stats' \in [Nodes -> StatsType]
      BY <2>5, <3>3, ChargeTyped DEF TypeOK
    <3> QED BY <2>1, <2>2, <2>3, <3>2, <3>4 DEF TypeOK
  <2> QED BY <1>5, <2>4, <2>5, PlcTells
<1> QED BY <1>1, <1>2, <1>3, <1>4, <1>5, EitherSteps

\* The power line does to messages what LR-WPAN does.
LEMMA EitherHandles ==
    ASSUME TypeOK, Genuine, phy \in {"lowpan", "plc"}, phy = "lowpan" => HeardFits,
           PlcIdsApart, [IfNext]_ifVars
    PROVE  Handles
<1>1. CASE [Next]_vars /\ HeardFits
  BY <1>1, NextHandles
<1>2. CASE SharedStep
  BY <1>2 DEF Handles
<1>3. ASSUME NEW n \in Nodes, NEW r \in Nodes, PlcIndication(n, r)
      PROVE  HandsUp(n, r)
  <2>1. /\ Idle /\ mac[n] # <<>>
        /\ heard' = [heard EXCEPT ![n] = @ \cup {r}]
        /\ UNCHANGED <<stack, sent, slOut, alq, mac, got, reports>>
    BY <1>3 DEF PlcIndication, stackVars
  <2> DEFINE f == Head(mac[n])
             d == [kind |-> "data", src |-> n, dst |-> f.dst, seq |-> f.seq]
  <2>2. \/ ~f.fits /\ UNCHANGED <<alOut, slq, refused>>
        \/ SendToStackline(r, d)
    BY <1>3, PlcHandsUp
  <2> QED BY <2>1, <2>2 DEF HandsUp
<1>4. ASSUME NEW n \in Nodes, PlcRetry(n) PROVE Repeats(n)
  BY <1>4 DEF PlcRetry, Repeats, stackVars, historyVars
<1>5. ASSUME NEW n \in Nodes, PlcDone(n) PROVE Concludes(n)
  <2>1. Answers(n, Head(mac[n]))
    <3> DEFINE f == Head(mac[n])
    <3>1. \/ UNCHANGED <<alOut, slq, refused>>
          \/ \E a \in AckMsgs :
                /\ f.dst # BCAST
                /\ a.seq = f.seq
                /\ a.status = "ACK_OK" => f.dst \in heard[n]
                /\ SendToStackline(n, a)
      BY <1>5, PlcTells
    <3> HIDE DEF f
    <3>2. Answers(n, f)
      BY <3>1 DEF Answers
    <3> QED BY <3>2 DEF f
  <2> QED BY <1>5, <2>1 DEF PlcDone, Concludes, stackVars
<1> QED BY <1>1, <1>2, <1>3, <1>4, <1>5, EitherSteps DEF Handles

-----------------------------------------------------------------------------
(* What ACK_OK says, over either interface.                                 *)

\* Over the power line a packet that nobody passes on may be heard.
EitherHeard ==
    /\ TypeOK /\ Genuine
    /\ phy \in {"lowpan", "plc"}
    /\ phy = "lowpan" => HeardFits
    /\ HeardPassedOn /\ AcksPassedOn

LEMMA EitherHeardFirst == IfInit => EitherHeard
<1> SUFFICES ASSUME IfInit PROVE EitherHeard
  OBVIOUS
<1>1. Init /\ phy \in {"lowpan", "plc"}
  BY DEF IfInit
<1>2. Truthful
  BY <1>1, InitOrder
<1> QED BY <1>1, <1>2, InitTyped, InitAcks DEF EitherHeard, Truthful

LEMMA EitherHeardKept ==
    ASSUME EitherHeard, PlcIdsApart, [IfNext]_ifVars
    PROVE  EitherHeard'
<1> USE DEF EitherHeard
<1>1. Handles /\ TypeOK'
  BY EitherHandles, EitherTyped
<1>2. Genuine'
  BY <1>1, HandlesFrames, GenuineKept
<1>3. phy' = phy /\ (phy = "lowpan" => [Next]_vars)
  BY EitherSteps
<1>4. phy' = "lowpan" => HeardFits'
  BY <1>3, HeardFitsKept
<1>5. HeardPassedOn' /\ AcksPassedOn'
  BY <1>1, HeardKept, AcksKept
<1> QED BY <1>1, <1>2, <1>3, <1>4, <1>5

\* When a sender reads ACK_OK for a packet that leaves room in the buffer, the
\* addressee's stackline has the packet or was not there, whichever interface
\* the configuration names, as long as node ids stop short of those that the
\* power line takes for node 0 (plcHandleData, plcHandleAck, DataIndication,
\* DataConfirm).
THEOREM EitherAcksArePassedOn ==
    ASSUME NumNodes <= 65280
    PROVE  IfSpec => []EitherAckedIsPassedOn
<1>1. EitherHeard /\ [IfNext]_ifVars => EitherHeard'
  BY EitherHeardKept DEF PlcIdsApart
<1>2. EitherHeard => EitherAckedIsPassedOn
  <2> SUFFICES ASSUME TypeOK, AcksPassedOn PROVE EitherAckedIsPassedOn
    BY DEF EitherHeard
  <2> QED BY AckSays DEF EitherAckedIsPassedOn
<1> QED BY <1>1, <1>2, EitherHeardFirst, PTL DEF IfSpec

-----------------------------------------------------------------------------
(* The counters balance over either interface.                              *)

LEMMA EitherCounts ==
    ASSUME TypeOK, Genuine, PlcIdsApart, phy \in {"lowpan", "plc"},
           [IfNext]_ifVars, NEW n \in Nodes
    PROVE  Counts(n)
<1>1. CASE [Next]_vars
  BY <1>1, NextCounts
<1>2. CASE SharedStep
  BY <1>2, SharedCounts
<1>3. ASSUME NEW k \in Nodes, NEW r \in Nodes, PlcIndication(k, r) PROVE Counts(n)
  <2>1. mac' = mac
    BY <1>3 DEF PlcIndication
  <2>2. CASE stats' = stats
    BY <2>1, <2>2 DEF Counts, CountsStay
  <2>3. CASE \E dst : stats' = [stats EXCEPT ![k] = set_data_stats(@, dst)]
    BY <2>1, <2>3, ReceptionCounts DEF Counts
  <2> QED BY <1>3, <2>2, <2>3, PlcHandsUp
<1>4. ASSUME NEW k \in Nodes, PlcRetry(k) PROVE Counts(n)
  BY <1>4 DEF PlcRetry, Counts, CountsStay
<1>5. ASSUME NEW k \in Nodes, PlcDone(k) PROVE Counts(n)
  <2>1. mac[k] \in Seq(Frames) /\ mac[k] # <<>>
    BY <1>5 DEF TypeOK, PlcDone
  <2>2. 1 \in DOMAIN mac[k] /\ Tail(mac[k]) = RemoveAt(mac[k], 1) /\ Head(mac[k]) = mac[k][1]
    BY <2>1, TailRemoves
  <2>3. mac' = [mac EXCEPT ![k] = RemoveAt(@, 1)]
    BY <1>5, <2>2 DEF PlcDone
  <2>4. tries[k] + 1 \in 1..(MaxRetry + 1)
    BY DataPlaneAssumption DEF TypeOK
  <2>5. IF mac[k][1].dst = BCAST THEN stats' = stats
        ELSE \E status \in Statuses, retries \in Nat :
                /\ stats' = [stats EXCEPT ![k] = set_ack_stats(@, status, retries)]
                /\ status = "ACK_OK" => retries \in 1..(MaxRetry + 1)
    <3>1. CASE mac[k][1].dst = BCAST
      BY <1>5, <2>2, <3>1 DEF PlcDone
    <3>2. CASE /\ mac[k][1].dst # BCAST
               /\ stats' = [stats EXCEPT ![k] = set_ack_stats(@, "ACK_OK", tries[k] + 1)]
      <4> DEFINE rt == tries[k] + 1
      <4>1. rt \in Nat /\ rt \in 1..(MaxRetry + 1)
        BY <2>4
      <4>2. "ACK_OK" \in Statuses
        BY DEF Statuses
      <4>3. stats' = [stats EXCEPT ![k] = set_ack_stats(@, "ACK_OK", rt)]
        BY <3>2
      <4> HIDE DEF rt
      <4> QED BY <3>2, <4>1, <4>2, <4>3
    <3>3. CASE /\ mac[k][1].dst # BCAST
               /\ stats' = [stats EXCEPT ![k] = set_ack_stats(@, "NO_ACK", 0)]
      BY <3>3 DEF Statuses
    <3>4. CASE plcHandleAck(k, mac[k][1], tries[k]) /\ mac[k][1].dst # BCAST
      BY <3>2, <3>4 DEF plcHandleAck, SendAckToStackline
    <3>5. CASE plcHandleTxFail(k, mac[k][1]) /\ mac[k][1].dst # BCAST
      BY <3>3, <3>5 DEF plcHandleTxFail, SendAckToStackline
    <3> QED BY <1>5, <2>2, <3>1, <3>4, <3>5 DEF PlcDone
  <2> QED BY <2>2, <2>3, <2>5, OutcomeCounts
<1> QED BY <1>1, <1>2, <1>3, <1>4, <1>5, EitherSteps

\* cmd_mac_stats says the same of the power line: what is counted as transmitted
\* and not as failed is counted under its number of attempts or still in the MAC
\* (plcHandleAck and plcHandleTxFail as well as DataConfirm), as long as ids and
\* attempts fit.
THEOREM EitherStatsAreBalanced ==
    ASSUME NumNodes <= 65280, AttemptsFit
    PROVE  IfSpec => []StatsBalance
<1>1. EitherHeard /\ [IfNext]_ifVars => EitherHeard'
  BY EitherHeardKept DEF PlcIdsApart
<1>2. EitherHeard /\ StatsBalance /\ [IfNext]_ifVars => StatsBalance'
  <2> SUFFICES ASSUME EitherHeard, StatsBalance, [IfNext]_ifVars PROVE StatsBalance'
    OBVIOUS
  <2>1. \A n \in Nodes : Counts(n)
    BY EitherCounts DEF EitherHeard, PlcIdsApart
  <2> QED BY <2>1, BalanceKept DEF EitherHeard
<1>3. IfInit => StatsBalance
  BY InitBalance DEF IfInit
<1> QED BY <1>1, <1>2, <1>3, EitherHeardFirst, PTL DEF IfSpec

-----------------------------------------------------------------------------
(* The data plane in the state where every packet fits.                     *)

Fit(f)    == [f EXCEPT !.fits = TRUE]
AllFit(q) == [k \in DOMAIN q |-> Fit(q[k])]

Sent  == [s \in Stacks |-> AllFit(sent[s])]
SlOut == [s \in Stacks |-> AllFit(slOut[s])]
Alq   == AllFit(alq)
Held  == [n \in Nodes |-> AllFit(mac[n])]

D == INSTANCE DataPlaneProofs WITH
    sent <- Sent, slOut <- SlOut, alq <- Alq, mac <- Held

\* What does not depend on the state is the same in D.
LEMMA SameConstants ==
    /\ D!Ids = Ids /\ D!Nodes = Nodes
    /\ D!BCAST = BCAST /\ D!CL_DSTID_MACHDR_PRESENT = CL_DSTID_MACHDR_PRESENT
    /\ D!Packets = Packets /\ D!Frames = Frames /\ D!DataMsgs = DataMsgs
    /\ D!AckMsgs = AckMsgs /\ D!ToStack = ToStack /\ D!OutMsgs = OutMsgs
    /\ D!StatsType = StatsType /\ D!Statuses = Statuses
<1>1. D!Ids = Ids /\ D!Nodes = Nodes /\ D!Statuses = Statuses
  BY DEF D!Ids, Ids, D!Nodes, Nodes, D!Statuses, Statuses
<1>2. D!BCAST = BCAST /\ D!CL_DSTID_MACHDR_PRESENT = CL_DSTID_MACHDR_PRESENT
  BY DEF D!BCAST, BCAST, D!CL_DSTID_MACHDR_PRESENT, CL_DSTID_MACHDR_PRESENT
<1>3. D!Packets = Packets /\ D!Frames = Frames /\ D!DataMsgs = DataMsgs
  BY DEF D!Packets, Packets, D!Frames, Frames, D!DataMsgs, DataMsgs
<1>4. D!AckMsgs = AckMsgs
  BY <1>1 DEF D!AckMsgs, AckMsgs
<1>5. D!ToStack = ToStack
  BY <1>3, <1>4 DEF D!ToStack, ToStack
<1>6. D!OutMsgs = OutMsgs
  BY <1>1, <1>5 DEF D!OutMsgs, OutMsgs
<1>7. D!StatsType = StatsType
  BY DEF D!StatsType, StatsType, D!Attempts, Attempts
<1> QED BY <1>1, <1>2, <1>3, <1>4, <1>5, <1>6, <1>7

LEMMA SameAssumptions == D!DataPlaneAssumption /\ D!AttemptCapAssumption
<1>1. /\ Stacks \subseteq D!Ids
      /\ Dsts \subseteq D!Ids
      /\ Promisc \subseteq D!Nodes
  BY SameConstants, DataPlaneAssumption
<1>2. D!DataPlaneAssumption
  BY <1>1, DataPlaneAssumption DEF D!DataPlaneAssumption
<1> QED BY <1>2, AttemptCapAssumption DEF D!AttemptCapAssumption

LEMMA SameOperators ==
    /\ \A st, dst : D!set_tx_stats(st, dst) = set_tx_stats(st, dst)
    /\ \A st, dst : D!set_data_stats(st, dst) = set_data_stats(st, dst)
    /\ \A st, status, n : D!set_ack_stats(st, status, n) = set_ack_stats(st, status, n)
    /\ \A m : D!Acceptable(m) <=> Acceptable(m)
    /\ \A f, r : D!Addressed(f, r) <=> Addressed(f, r)
    /\ \A f : D!AckRequested(f) <=> AckRequested(f)
<1> USE DEF D!BCAST, BCAST, D!CL_DSTID_MACHDR_PRESENT, CL_DSTID_MACHDR_PRESENT,
            D!IN_RANGE, IN_RANGE
<1>1. \A st, dst : D!set_tx_stats(st, dst) = set_tx_stats(st, dst)
  BY DEF D!set_tx_stats, set_tx_stats
<1>2. \A st, dst : D!set_data_stats(st, dst) = set_data_stats(st, dst)
  BY DEF D!set_data_stats, set_data_stats
<1>3. \A st, status, n : D!set_ack_stats(st, status, n) = set_ack_stats(st, status, n)
  BY DEF D!set_ack_stats, set_ack_stats
<1>4. \A m : D!Acceptable(m) <=> Acceptable(m)
  BY DEF D!Acceptable, Acceptable
<1>5. \A f, r : D!Addressed(f, r) <=> Addressed(f, r)
  BY DEF D!Addressed, Addressed
<1>6. \A f : D!AckRequested(f) <=> AckRequested(f)
  BY DEF D!AckRequested, AckRequested
<1> QED BY <1>1, <1>2, <1>3, <1>4, <1>5, <1>6

-----------------------------------------------------------------------------
(* A queue in which every packet fits.                                      *)

Fitting(S) == \A f \in S : Fit(f) \in S

LEMMA RecordsFit == Fitting(Packets) /\ Fitting(Frames)
BY DEF Fitting, Fit, Packets, Frames

LEMMA FitQueue ==
    ASSUME NEW S, Fitting(S), NEW q \in Seq(S)
    PROVE  /\ AllFit(q) \in Seq(S)
           /\ Len(AllFit(q)) = Len(q)
           /\ DOMAIN AllFit(q) = DOMAIN q
           /\ \A k \in DOMAIN q : AllFit(q)[k] = Fit(q[k])
           /\ AllFit(q) = <<>> <=> q = <<>>
<1>1. DOMAIN AllFit(q) = 1..Len(q) /\ Len(q) \in Nat /\ DOMAIN q = 1..Len(q)
  BY DEF AllFit
<1>2. \A k \in DOMAIN q : AllFit(q)[k] = Fit(q[k]) /\ q[k] \in S
  BY DEF AllFit
<1>3. AllFit(q) = [k \in 1..Len(q) |-> Fit(q[k])]
  BY <1>1 DEF AllFit
<1>4. [k \in 1..Len(q) |-> Fit(q[k])] \in Seq(S)
  BY <1>1, <1>2, IsASeq DEF Fitting
<1>5. Len(AllFit(q)) = Len(q)
  BY <1>1, <1>3, <1>4, LenProperties
<1>6. AllFit(q) = <<>> <=> q = <<>>
  BY <1>3, <1>4, <1>5, EmptySeq
<1> QED BY <1>1, <1>2, <1>3, <1>4, <1>5, <1>6

LEMMA FitAppend ==
    ASSUME NEW S, Fitting(S), NEW q \in Seq(S), NEW f \in S
    PROVE  AllFit(Append(q, f)) = Append(AllFit(q), Fit(f))
<1> DEFINE l == AllFit(Append(q, f))
           a == AllFit(q)
           r == Append(a, Fit(f))
<1>1. Append(q, f) \in Seq(S) /\ Fit(f) \in S
  BY DEF Fitting
<1>2. /\ a \in Seq(S) /\ Len(a) = Len(q)
      /\ \A k \in DOMAIN q : a[k] = Fit(q[k])
  BY FitQueue
<1>3. /\ l \in Seq(S) /\ Len(l) = Len(Append(q, f))
      /\ \A k \in DOMAIN Append(q, f) : l[k] = Fit(Append(q, f)[k])
  BY <1>1, FitQueue
<1>4. Len(q) \in Nat /\ Len(Append(q, f)) = Len(q) + 1
  OBVIOUS
<1> HIDE DEF l, a
<1>5. r \in Seq(S) /\ Len(r) = Len(q) + 1
  BY <1>1, <1>2
<1>6. ASSUME NEW k \in 1..(Len(q) + 1) PROVE l[k] = r[k]
  <2>1. l[k] = Fit(Append(q, f)[k])
    BY <1>3, <1>4
  <2>2. CASE k = Len(q) + 1
    <3>1. Append(q, f)[k] = f
      BY <1>4, <2>2
    <3>2. r[k] = Fit(f)
      BY <1>1, <1>2, <1>4, <2>2
    <3> QED BY <2>1, <3>1, <3>2
  <2>3. CASE k # Len(q) + 1
    <3>1. k \in DOMAIN q /\ Append(q, f)[k] = q[k]
      BY <1>4, <2>3
    <3>2. r[k] = a[k]
      BY <1>1, <1>2, <1>4, <2>3
    <3> QED BY <1>2, <2>1, <3>1, <3>2
  <2> QED BY <2>2, <2>3
<1>7. l = r
  BY <1>3, <1>4, <1>5, <1>6, SeqEqual
<1> QED BY <1>7 DEF l, a

LEMMA FitHead ==
    ASSUME NEW S, Fitting(S), NEW q \in Seq(S), q # <<>>
    PROVE  /\ AllFit(q) # <<>>
           /\ Head(AllFit(q)) = Fit(Head(q))
           /\ Tail(AllFit(q)) = AllFit(Tail(q))
<1> DEFINE a == AllFit(q)
           b == AllFit(Tail(q))
<1>1. /\ a \in Seq(S) /\ a # <<>> /\ Len(a) = Len(q)
      /\ \A k \in DOMAIN q : a[k] = Fit(q[k])
  BY FitQueue
<1>2. 1 \in DOMAIN q /\ Len(q) \in Nat /\ Head(q) = q[1]
  OBVIOUS
<1>3. Tail(q) \in Seq(S) /\ Len(Tail(q)) = Len(q) - 1
  OBVIOUS
<1>4. /\ b \in Seq(S) /\ Len(b) = Len(q) - 1
      /\ \A k \in DOMAIN Tail(q) : b[k] = Fit(Tail(q)[k])
  <2> DEFINE t == Tail(q)
  <2>1. t \in Seq(S) /\ Len(t) = Len(q) - 1
    BY <1>3
  <2> HIDE DEF t
  <2>2. /\ AllFit(t) \in Seq(S) /\ Len(AllFit(t)) = Len(t)
        /\ \A k \in DOMAIN t : AllFit(t)[k] = Fit(t[k])
    BY <2>1, FitQueue
  <2>3. /\ AllFit(t) \in Seq(S) /\ Len(AllFit(t)) = Len(q) - 1
        /\ \A k \in DOMAIN t : AllFit(t)[k] = Fit(t[k])
    BY <2>1, <2>2
  <2> QED BY <2>3 DEF t
<1> HIDE DEF a, b
<1>5. Head(a) = Fit(Head(q))
  BY <1>1, <1>2
<1>6. Tail(a) \in Seq(S) /\ Len(Tail(a)) = Len(q) - 1
  BY <1>1
<1>7. ASSUME NEW k \in 1..(Len(q) - 1)
      PROVE  Tail(a)[k] = b[k]
  <2>1. Tail(a)[k] = a[k + 1]
    BY <1>1, <1>2
  <2>2. k + 1 \in DOMAIN q /\ k \in DOMAIN Tail(q) /\ Tail(q)[k] = q[k + 1]
    BY <1>2, <1>3
  <2> QED BY <1>1, <1>4, <2>1, <2>2
<1>8. Tail(a) = b
  BY <1>4, <1>6, <1>7, SeqEqual
<1> QED BY <1>1, <1>5, <1>8 DEF a, b

\* A table of queues in which every packet fits.
LEMMA FitTable ==
    ASSUME NEW S, Fitting(S), NEW I, NEW q \in [I -> Seq(S)], NEW i, NEW v
    PROVE  /\ [k \in I |-> AllFit(q[k])] \in [I -> Seq(S)]
           /\ [k \in I |-> AllFit([q EXCEPT ![i] = v][k])] =
                 [[k \in I |-> AllFit(q[k])] EXCEPT ![i] = AllFit(v)]
<1>1. ASSUME NEW k \in I PROVE AllFit(q[k]) \in Seq(S)
  BY FitQueue
<1> QED BY <1>1

\* What the data plane in that state looks like.
LEMMA FitState ==
    ASSUME TypeOK
    PROVE  /\ Sent \in [Stacks -> Seq(Packets)]
           /\ SlOut \in [Stacks -> Seq(Frames)]
           /\ Alq \in Seq(Frames)
           /\ Held \in [Nodes -> Seq(Frames)]
           /\ Len(Alq) = Len(alq)
           /\ Alq = <<>> <=> alq = <<>>
           /\ \A s \in Stacks : Len(Sent[s]) = Len(sent[s])
           /\ \A s \in Stacks : DOMAIN Sent[s] = DOMAIN sent[s]
           /\ \A s \in Stacks : SlOut[s] = <<>> <=> slOut[s] = <<>>
           /\ \A n \in Nodes : Held[n] = <<>> <=> mac[n] = <<>>
<1>1. /\ sent \in [Stacks -> Seq(Packets)]
      /\ slOut \in [Stacks -> Seq(Frames)]
      /\ alq \in Seq(Frames)
      /\ mac \in [Nodes -> Seq(Frames)]
  BY DEF TypeOK
<1>2. Fitting(Packets) /\ Fitting(Frames)
  BY RecordsFit
<1>3. /\ Sent \in [Stacks -> Seq(Packets)]
      /\ SlOut \in [Stacks -> Seq(Frames)]
      /\ Held \in [Nodes -> Seq(Frames)]
  <2>1. ASSUME NEW s \in Stacks
        PROVE  AllFit(sent[s]) \in Seq(Packets) /\ AllFit(slOut[s]) \in Seq(Frames)
    BY <1>1, <1>2, FitQueue
  <2>2. ASSUME NEW n \in Nodes PROVE AllFit(mac[n]) \in Seq(Frames)
    BY <1>1, <1>2, FitQueue
  <2> QED BY <2>1, <2>2 DEF Sent, SlOut, Held
<1>4. Alq \in Seq(Frames) /\ Len(Alq) = Len(alq) /\ (Alq = <<>> <=> alq = <<>>)
  BY <1>1, <1>2, FitQueue DEF Alq
<1>5. ASSUME NEW s \in Stacks
      PROVE  /\ Len(Sent[s]) = Len(sent[s])
             /\ DOMAIN Sent[s] = DOMAIN sent[s]
             /\ SlOut[s] = <<>> <=> slOut[s] = <<>>
  <2>1. sent[s] \in Seq(Packets) /\ slOut[s] \in Seq(Frames)
    BY <1>1
  <2>2. Sent[s] = AllFit(sent[s]) /\ SlOut[s] = AllFit(slOut[s])
    BY DEF Sent, SlOut
  <2>3. Len(AllFit(sent[s])) = Len(sent[s]) /\ DOMAIN AllFit(sent[s]) = DOMAIN sent[s]
    BY <1>2, <2>1, FitQueue
  <2>4. AllFit(slOut[s]) = <<>> <=> slOut[s] = <<>>
    BY <1>2, <2>1, FitQueue
  <2> QED BY <2>2, <2>3, <2>4
<1>6. ASSUME NEW n \in Nodes PROVE Held[n] = <<>> <=> mac[n] = <<>>
  <2>1. mac[n] \in Seq(Frames) /\ Held[n] = AllFit(mac[n])
    BY <1>1 DEF Held
  <2> QED BY <1>2, <2>1, FitQueue
<1> QED BY <1>3, <1>4, <1>5, <1>6

LEMMA FitTyped == TypeOK => D!TypeOK
<1> SUFFICES ASSUME TypeOK PROVE D!TypeOK
  OBVIOUS
<1>1. /\ stack \in [Stacks -> {"new", "up", "dead"}]
      /\ reading \in BOOLEAN
      /\ tries \in [Nodes -> 0..MaxRetry]
      /\ heard \in [Nodes -> SUBSET Nodes]
      /\ stats \in [Nodes -> StatsType]
      /\ alOut \in Seq(OutMsgs)
      /\ slq \in [Stacks -> Seq(ToStack)]
      /\ got \in [Stacks -> SUBSET (Stacks \X Nat)]
      /\ reports \in [Stacks -> Seq([seq : Nat, status : Statuses])]
      /\ refused \subseteq Ids \X Stacks \X Nat
  BY DEF TypeOK
<1>2. /\ Sent \in [Stacks -> Seq(Packets)]
      /\ SlOut \in [Stacks -> Seq(Frames)]
      /\ Alq \in Seq(Frames)
      /\ Held \in [Nodes -> Seq(Frames)]
  BY FitState
<1>3. D!TypeOK <=>
      /\ stack \in [Stacks -> {"new", "up", "dead"}]
      /\ Sent \in [Stacks -> Seq(Packets)]
      /\ SlOut \in [Stacks -> Seq(Frames)]
      /\ Alq \in Seq(Frames)
      /\ reading \in BOOLEAN
      /\ Held \in [Nodes -> Seq(Frames)]
      /\ tries \in [Nodes -> 0..MaxRetry]
      /\ heard \in [Nodes -> SUBSET Nodes]
      /\ stats \in [Nodes -> StatsType]
      /\ alOut \in Seq(OutMsgs)
      /\ slq \in [Stacks -> Seq(ToStack)]
      /\ got \in [Stacks -> SUBSET (Stacks \X Nat)]
      /\ reports \in [Stacks -> Seq([seq : Nat, status : Statuses])]
      /\ refused \subseteq Ids \X Stacks \X Nat
  BY SameConstants, Zenon DEF D!TypeOK
<1> QED BY <1>1, <1>2, <1>3

\* How it changes with the tables and queues of the system.
LEMMA FitChanges ==
    ASSUME TypeOK
    PROVE  /\ sent' = sent => Sent' = Sent
           /\ slOut' = slOut => SlOut' = SlOut
           /\ alq' = alq => Alq' = Alq
           /\ mac' = mac => Held' = Held
           /\ \A s, q : sent' = [sent EXCEPT ![s] = q] =>
                           Sent' = [Sent EXCEPT ![s] = AllFit(q)]
           /\ \A s, q : slOut' = [slOut EXCEPT ![s] = q] =>
                           SlOut' = [SlOut EXCEPT ![s] = AllFit(q)]
           /\ \A n, q : mac' = [mac EXCEPT ![n] = q] =>
                           Held' = [Held EXCEPT ![n] = AllFit(q)]
<1>1. /\ sent \in [Stacks -> Seq(Packets)]
      /\ slOut \in [Stacks -> Seq(Frames)]
      /\ mac \in [Nodes -> Seq(Frames)]
      /\ Fitting(Packets) /\ Fitting(Frames)
  BY RecordsFit DEF TypeOK
<1>2. ASSUME NEW s, NEW q, sent' = [sent EXCEPT ![s] = q]
      PROVE  Sent' = [Sent EXCEPT ![s] = AllFit(q)]
  <2>1. [k \in Stacks |-> AllFit([sent EXCEPT ![s] = q][k])] =
           [[k \in Stacks |-> AllFit(sent[k])] EXCEPT ![s] = AllFit(q)]
    BY <1>1, FitTable
  <2> QED BY <1>2, <2>1 DEF Sent
<1>3. ASSUME NEW s, NEW q, slOut' = [slOut EXCEPT ![s] = q]
      PROVE  SlOut' = [SlOut EXCEPT ![s] = AllFit(q)]
  <2>1. [k \in Stacks |-> AllFit([slOut EXCEPT ![s] = q][k])] =
           [[k \in Stacks |-> AllFit(slOut[k])] EXCEPT ![s] = AllFit(q)]
    BY <1>1, FitTable
  <2> QED BY <1>3, <2>1 DEF SlOut
<1>4. ASSUME NEW n, NEW q, mac' = [mac EXCEPT ![n] = q]
      PROVE  Held' = [Held EXCEPT ![n] = AllFit(q)]
  <2>1. [k \in Nodes |-> AllFit([mac EXCEPT ![n] = q][k])] =
           [[k \in Nodes |-> AllFit(mac[k])] EXCEPT ![n] = AllFit(q)]
    BY <1>1, FitTable
  <2> QED BY <1>4, <2>1 DEF Held
<1>5. /\ sent' = sent => Sent' = Sent
      /\ slOut' = slOut => SlOut' = SlOut
      /\ alq' = alq => Alq' = Alq
      /\ mac' = mac => Held' = Held
  BY DEF Sent, SlOut, Alq, Held
<1> QED BY <1>2, <1>3, <1>4, <1>5

\* A packet that is made to fit is one that its sender may send.
FitAs(s, dst, fits, yes) ==
    /\ Fit([dst |-> dst, fits |-> fits]) = [dst |-> dst, fits |-> yes]
    /\ Fit([src |-> s, dst |-> dst, fits |-> fits, seq |-> Len(sent[s]) + 1]) =
          [src |-> s, dst |-> dst, fits |-> yes, seq |-> Len(sent[s]) + 1]

LEMMA FitMade ==
    ASSUME NEW s, NEW dst, NEW fits
    PROVE  \E yes \in Sizes : FitAs(s, dst, fits, yes)
<1>1. \A v : [[dst |-> dst, fits |-> fits] EXCEPT !.fits = v] =
                [dst |-> dst, fits |-> v]
  OBVIOUS
<1>2. \A v : [[src |-> s, dst |-> dst, fits |-> fits,
               seq |-> Len(sent[s]) + 1] EXCEPT !.fits = v] =
                [src |-> s, dst |-> dst, fits |-> v, seq |-> Len(sent[s]) + 1]
  OBVIOUS
<1>3. TRUE \in Sizes
  BY SizesAssumption
<1> WITNESS TRUE \in Sizes
<1> QED BY <1>1, <1>2, Zenon DEF Fit, FitAs

LEMMA FitOne ==
    /\ AllFit(<<>>) = <<>>
    /\ \A f \in Frames : AllFit(<<f>>) = <<Fit(f)>>
<1>1. AllFit(<<>>) = <<>>
  <2>1. <<>> \in Seq(Frames) /\ Fitting(Frames)
    BY RecordsFit, SeqTyped
  <2> QED BY <2>1, FitQueue
<1>2. ASSUME NEW f \in Frames PROVE AllFit(<<f>>) = <<Fit(f)>>
  <2>1. <<>> \in Seq(Frames) /\ Fitting(Frames)
    BY RecordsFit, SeqTyped
  <2>2. AllFit(Append(<<>>, f)) = Append(AllFit(<<>>), Fit(f))
    BY <2>1, FitAppend
  <2>3. Append(<<>>, f) = <<f>> /\ Append(<<>>, Fit(f)) = <<Fit(f)>>
    OBVIOUS
  <2> QED BY <1>1, <2>2, <2>3
<1> QED BY <1>1, <1>2

\* The steps that do not depend on the interface are steps of D.
LEMMA FitShared ==
    ASSUME TypeOK, SharedStep
    PROVE  D!SharedStep
<1> USE DEF stackVars, macVars, historyVars, D!stackVars, D!macVars, D!historyVars
<1>1. /\ sent' = sent => Sent' = Sent
      /\ slOut' = slOut => SlOut' = SlOut
      /\ alq' = alq => Alq' = Alq
      /\ mac' = mac => Held' = Held
  BY FitChanges
<1>2. ASSUME NEW s \in Stacks, StackStart(s) PROVE D!StackStart(s)
  BY <1>1, <1>2 DEF StackStart, D!StackStart
<1>3. ASSUME NEW s \in Stacks, StackDie(s) PROVE D!StackDie(s)
  <2>1. SlOut' = [SlOut EXCEPT ![s] = AllFit(<<>>)]
    BY <1>3, FitChanges DEF StackDie
  <2>2. SlOut' = [SlOut EXCEPT ![s] = <<>>]
    BY <2>1, FitOne
  <2> QED BY <1>1, <1>3, <2>2 DEF StackDie, D!StackDie
<1>4. ASSUME NEW s \in Stacks, StackSend(s) PROVE D!StackSend(s)
  <2>1. PICK dst \in Dsts \ {s}, fits \in Sizes :
          LET m == [src |-> s, dst |-> dst, fits |-> fits,
                    seq |-> Len(sent[s]) + 1]
          IN  /\ sent' = [sent EXCEPT ![s] =
                               Append(@, [dst |-> dst, fits |-> fits])]
              /\ \/ /\ Len(alq) < QLen
                    /\ alq' = Append(alq, m)
                    /\ UNCHANGED slOut
                 \/ /\ Len(alq) >= QLen
                    /\ slOut' = [slOut EXCEPT ![s] = <<m>>]
                    /\ UNCHANGED alq
    BY <1>4 DEF StackSend
  <2>2. PICK yes \in Sizes : FitAs(s, dst, fits, yes)
    BY FitMade
  <2> DEFINE p  == [dst |-> dst, fits |-> fits]
             pF == [dst |-> dst, fits |-> yes]
             m  == [src |-> s, dst |-> dst, fits |-> fits, seq |-> Len(sent[s]) + 1]
             mF == [src |-> s, dst |-> dst, fits |-> yes, seq |-> Len(Sent[s]) + 1]
  <2>3. fits \in BOOLEAN
    BY DataPlaneAssumption
  <2>4. /\ sent[s] \in Seq(Packets) /\ alq \in Seq(Frames)
        /\ Fitting(Packets) /\ Fitting(Frames)
    BY RecordsFit DEF TypeOK
  <2>5. p \in Packets /\ m \in Frames
    BY <2>3, <2>4 DEF Packets, Frames
  <2>6. /\ Len(Sent[s]) = Len(sent[s]) /\ Len(Alq) = Len(alq)
        /\ SlOut[s] = <<>> <=> slOut[s] = <<>>
        /\ Sent[s] = AllFit(sent[s])
    BY FitState DEF Sent
  <2>7. Fit(p) = pF /\ Fit(m) = mF
    BY <2>2, <2>6, Zenon DEF FitAs
  <2>8. /\ AllFit(Append(sent[s], p)) = Append(Sent[s], pF)
        /\ AllFit(Append(alq, m)) = Append(Alq, mF)
        /\ AllFit(<<m>>) = <<mF>>
    <3> HIDE DEF p, pF, m, mF
    <3> QED BY <2>4, <2>5, <2>6, <2>7, FitAppend, FitOne DEF Alq
  <2>9. Sent' = [Sent EXCEPT ![s] = Append(@, pF)]
    <3>1. Sent' = [Sent EXCEPT ![s] = AllFit(Append(sent[s], p))]
      BY <2>1, FitChanges
    <3> QED BY <2>8, <3>1
  <2>10. \/ /\ Len(Alq) < QLen
           /\ Alq' = Append(Alq, mF)
           /\ UNCHANGED SlOut
        \/ /\ Len(Alq) >= QLen
           /\ SlOut' = [SlOut EXCEPT ![s] = <<mF>>]
           /\ UNCHANGED Alq
    <3>1. CASE /\ Len(alq) < QLen
               /\ alq' = Append(alq, m)
               /\ UNCHANGED slOut
      BY <1>1, <2>6, <2>8, <3>1 DEF Alq
    <3>2. CASE /\ Len(alq) >= QLen
               /\ slOut' = [slOut EXCEPT ![s] = <<m>>]
               /\ UNCHANGED alq
      <4>1. SlOut' = [SlOut EXCEPT ![s] = AllFit(<<m>>)]
        <5> HIDE DEF m
        <5> QED BY <3>2, FitChanges
      <4> QED BY <1>1, <2>6, <2>8, <3>2, <4>1
    <3> QED BY <2>1, <3>1, <3>2
  <2>11. /\ stack[s] = "up" /\ SlOut[s] = <<>> /\ Len(Sent[s]) < MaxPkts[s]
         /\ UNCHANGED <<stack, reading, Held, tries, heard, stats, alOut, slq,
                        got, reports, refused>>
    BY <1>1, <1>4, <2>6 DEF StackSend
  <2>12. /\ Sent' = [Sent EXCEPT ![s] = Append(Sent[s], [dst |-> dst, fits |-> yes])]
         /\ \/ /\ Len(Alq) < QLen
               /\ Alq' = Append(Alq, [src |-> s, dst |-> dst, fits |-> yes,
                                      seq |-> Len(Sent[s]) + 1])
               /\ UNCHANGED SlOut
            \/ /\ Len(Alq) >= QLen
               /\ SlOut' = [SlOut EXCEPT ![s] =
                               <<[src |-> s, dst |-> dst, fits |-> yes,
                                  seq |-> Len(Sent[s]) + 1]>>]
               /\ UNCHANGED Alq
    BY <2>9, <2>10
  <2> QED BY <2>11, <2>12, Zenon DEF D!StackSend
<1>5. ASSUME NEW s \in Stacks, StackUnblock(s) PROVE D!StackUnblock(s)
  <2>1. /\ slOut[s] \in Seq(Frames) /\ slOut[s] # <<>> /\ alq \in Seq(Frames)
        /\ Fitting(Frames) /\ Head(slOut[s]) \in Frames
    BY <1>5, RecordsFit, SeqTyped DEF TypeOK, StackUnblock
  <2>2. /\ SlOut[s] # <<>> /\ Head(SlOut[s]) = Fit(Head(slOut[s]))
    BY <2>1, FitHead DEF SlOut
  <2>3. Len(Alq) = Len(alq)
    BY FitState
  <2>4. Alq' = Append(Alq, Head(SlOut[s]))
    BY <1>5, <2>1, <2>2, FitAppend DEF StackUnblock, Alq
  <2>5. SlOut' = [SlOut EXCEPT ![s] = AllFit(<<>>)]
    BY <1>5, FitChanges DEF StackUnblock
  <2>6. SlOut' = [SlOut EXCEPT ![s] = <<>>]
    BY <2>5, FitOne
  <2> QED BY <1>1, <1>5, <2>2, <2>3, <2>4, <2>6 DEF StackUnblock, D!StackUnblock
<1>6. ASSUME NEW s \in Stacks, StackRecv(s) PROVE D!StackRecv(s)
  <2>1. SlOut[s] = <<>> <=> slOut[s] = <<>>
    BY FitState
  <2> QED BY <1>1, <1>6, <2>1 DEF StackRecv, D!StackRecv
<1>7. MsgReaderStart => D!MsgReaderStart
  BY <1>1 DEF MsgReaderStart, D!MsgReaderStart, Idle, D!Idle
<1>8. MsgReaderStop => D!MsgReaderStop
  BY <1>1, FitState DEF MsgReaderStop, D!MsgReaderStop
<1>9. ASSUME alq # <<>>, alq' = Tail(alq)
      PROVE  /\ Alq # <<>> /\ Head(Alq) = Fit(Head(alq)) /\ Alq' = Tail(Alq)
             /\ Head(alq) \in Frames
             /\ D!Acceptable(Head(Alq)) <=> Acceptable(Head(alq))
             /\ Head(Alq).src = Head(alq).src /\ Head(Alq).dst = Head(alq).dst
  <2>1. alq \in Seq(Frames) /\ Fitting(Frames) /\ Head(alq) \in Frames
    BY <1>9, RecordsFit, SeqTyped DEF TypeOK
  <2>2. Alq # <<>> /\ Head(Alq) = Fit(Head(alq)) /\ Alq' = Tail(Alq)
    BY <1>9, <2>1, FitHead DEF Alq
  <2>3. Head(Alq).src = Head(alq).src /\ Head(Alq).dst = Head(alq).dst
    BY <2>1, <2>2 DEF Fit, Frames
  <2>4. D!Acceptable(Head(Alq)) <=> Acceptable(Head(alq))
    BY <2>3, SameOperators DEF Acceptable
  <2> QED BY <2>1, <2>2, <2>3, <2>4
<1>10. MsgReaderDrop => D!MsgReaderDrop
  BY <1>1, <1>9 DEF MsgReaderDrop, D!MsgReaderDrop
<1>11. ASSUME MsgReaderSend PROVE D!MsgReaderSend
  <2> DEFINE m == Head(alq)
  <2>1. /\ alq # <<>> /\ alq' = Tail(alq) /\ Acceptable(m)
        /\ mac' = [mac EXCEPT ![m.src] = Append(@, m)]
        /\ stats' = [stats EXCEPT ![m.src] = set_tx_stats(@, m.dst)]
    BY <1>11 DEF MsgReaderSend
  <2>2. /\ Alq # <<>> /\ Head(Alq) = Fit(m) /\ Alq' = Tail(Alq)
        /\ m \in Frames /\ D!Acceptable(Head(Alq))
        /\ Head(Alq).src = m.src /\ Head(Alq).dst = m.dst
    BY <1>9, <2>1
  <2> HIDE DEF m
  <2>3. stats' = [stats EXCEPT ![m.src] = D!set_tx_stats(@, m.dst)]
    BY <2>1, SameOperators
  <2>4. Held' = [Held EXCEPT ![m.src] = Append(@, Fit(m))]
    <3>1. mac' = [mac EXCEPT ![m.src] = Append(mac[m.src], m)]
      BY <2>1
    <3>2. Held' = [Held EXCEPT ![m.src] = AllFit(Append(mac[m.src], m))]
      <4>1. \A n, q : mac' = [mac EXCEPT ![n] = q] => Held' = [Held EXCEPT ![n] = AllFit(q)]
        BY FitChanges
      <4> QED BY <3>1, <4>1, Zenon
    <3>3. CASE m.src \in Nodes
      <4>1. mac[m.src] \in Seq(Frames) /\ Fitting(Frames)
        BY <3>3, RecordsFit DEF TypeOK
      <4>2. AllFit(Append(mac[m.src], m)) = Append(Held[m.src], Fit(m))
        BY <2>2, <3>3, <4>1, FitAppend DEF Held
      <4> QED BY <3>2, <4>2
    <3>4. CASE m.src \notin Nodes
      BY <3>2, <3>4, FitState
    <3> QED BY <3>3, <3>4
  <2>5. UNCHANGED <<stack, Sent, SlOut, reading, tries, heard, alOut, slq, got,
                    reports, refused>> /\ reading
    BY <1>1, <1>11 DEF MsgReaderSend
  <2> QED BY <2>2, <2>3, <2>4, <2>5 DEF D!MsgReaderSend
<1>12. AirlineUnblock => D!AirlineUnblock
  BY <1>1 DEF AirlineUnblock, D!AirlineUnblock, Bound, D!Bound, Refuse, D!Refuse
<1>13. UNCHANGED vars => UNCHANGED D!vars
  BY <1>1 DEF vars, D!vars
<1> QED BY <1>2, <1>3, <1>4, <1>5, <1>6, <1>7, <1>8, <1>10, <1>11, <1>12, <1>13
   DEF SharedStep, StackStep, MsgReader, D!SharedStep, D!StackStep, D!MsgReader

\* The frame on the air of a power-line node, there and in D.
LEMMA FitOnAir ==
    ASSUME TypeOK, D!Genuine, NEW n \in Nodes, mac[n] # <<>>
    PROVE  /\ n \in D!Nodes /\ n \in Stacks
           /\ Held[n] # <<>>
           /\ Head(Held[n]) \in D!TakenBy[n]
           /\ Head(Held[n]).dst = Head(mac[n]).dst
           /\ Head(Held[n]).seq = Head(mac[n]).seq
           /\ Head(Held[n]).fits
           /\ Tail(Held[n]) = AllFit(Tail(mac[n]))
<1> DEFINE f == Head(mac[n])
           g == Head(Held[n])
<1>1. mac[n] \in Seq(Frames) /\ Fitting(Frames) /\ f \in Frames
  BY RecordsFit, SeqTyped DEF TypeOK
<1>2. Held[n] # <<>> /\ g = Fit(f) /\ Tail(Held[n]) = AllFit(Tail(mac[n]))
  BY <1>1, FitHead DEF Held
<1>3. n \in D!Nodes
  BY SameConstants
<1>4. Held[n] \in Seq(D!TakenBy[n])
  BY <1>3 DEF D!Genuine
<1>5. g \in D!TakenBy[n]
  BY <1>2, <1>4, SeqTyped
<1>6. n \in Stacks
  BY <1>3, <1>5, SameAssumptions, D!TakenFrame
<1>7. Fit(f).dst = f.dst /\ Fit(f).seq = f.seq
  BY <1>1 DEF Fit, Frames
<1>8. Fit(f).fits
  BY <1>1 DEF Fit, Frames
<1> HIDE DEF f, g
<1> QED BY <1>2, <1>3, <1>5, <1>6, <1>7, <1>8 DEF f, g

LEMMA PlcPasses ==
    ASSUME TypeOK, Genuine, PlcIdsApart, D!TypeOK, D!Genuine,
           NEW n \in Nodes, NEW r \in Nodes, PlcIndication(n, r)
    PROVE  D!PassesUp(n, r)
<1> DEFINE f == Head(mac[n])
           g == Head(Held[n])
           d == [kind |-> "data", src |-> n, dst |-> f.dst, seq |-> f.seq]
<1>1. alOut = <<>> /\ mac[n] # <<>> /\ r # n
  BY DEF PlcIndication, Idle
<1>2. /\ n \in D!Nodes /\ n \in Stacks /\ Held[n] # <<>> /\ g \in D!TakenBy[n]
      /\ g.dst = f.dst /\ g.seq = f.seq /\ g.fits
  BY <1>1, FitOnAir
<1>3. /\ d \in DataMsgs /\ f.dst \in {r, BCAST}
      /\ \/ UNCHANGED <<alOut, slq>>
         \/ SendToStackline(r, d)
  BY PlcHandsUp
<1>4. UNCHANGED <<stack, Sent, SlOut, Alq, Held, got, reports>>
  BY FitChanges DEF PlcIndication, stackVars
<1>5. CASE UNCHANGED <<alOut, slq>>
  BY <1>2, <1>4, <1>5 DEF D!Inbox, D!PassesUp
<1>6. CASE SendToStackline(r, d)
  <2>1. D!SendToStackline(r, d)
    BY <1>6 DEF SendToStackline, D!SendToStackline, Bound, D!Bound, Refuse, D!Refuse
  <2>2. r \in D!Nodes /\ d \in D!DataMsgs
    BY <1>3, SameConstants
  <2>3. D!Addressed(g, r)
    BY <1>2, <1>3, SameOperators DEF Addressed
  <2>4. d.src = n /\ d.dst = g.dst /\ d.seq = g.seq
    BY <1>2
  <2> HIDE DEF d, f, g
  <2>5. \/ D!Inbox' = D!Inbox
        \/ /\ r \in Stacks /\ d \in D!DataFor[r]
           /\ D!Inbox' = [D!Inbox EXCEPT ![r] = Append(@, d)]
    BY <1>1, <1>2, <2>1, <2>2, <2>3, <2>4, SameAssumptions, D!DataTells
  <2> QED BY <1>2, <1>4, <2>2, <2>4, <2>5 DEF D!PassesUp, g
<1> QED BY <1>3, <1>5, <1>6

LEMMA PlcFinishes ==
    ASSUME TypeOK, Genuine, D!TypeOK, D!Genuine, D!InOrder,
           NEW n \in Nodes, PlcDone(n)
    PROVE  D!Finishes(n)
<1> DEFINE f == Head(mac[n])
           g == Head(Held[n])
<1>1. alOut = <<>> /\ mac[n] # <<>> /\ mac' = [mac EXCEPT ![n] = Tail(@)]
  BY DEF PlcDone, Idle
<1>2. /\ n \in D!Nodes /\ Held[n] # <<>>
      /\ g.dst = f.dst /\ g.seq = f.seq /\ g.fits
      /\ Tail(Held[n]) = AllFit(Tail(mac[n]))
  BY <1>1, FitOnAir
<1>3. Held' = [Held EXCEPT ![n] = Tail(@)]
  <2>1. Held' = [Held EXCEPT ![n] = AllFit(Tail(mac[n]))]
    BY <1>1, FitChanges
  <2> QED BY <1>2, <2>1
<1>4. UNCHANGED <<stack, Sent, SlOut, Alq, got, reports>>
  BY FitChanges DEF PlcDone, stackVars
<1>5. /\ g \in D!TakenBy[n]
      /\ Tail(Held[n]) \in Seq(D!TakenBy[n])
      /\ D!Leaves(n, g, Tail(Held[n]))
  <2>1. n \in D!Nodes /\ D!LosesHead(n)
    BY <1>2, <1>3 DEF D!LosesHead
  <2>2. D!HeadGoes(n)
    BY <2>1, SameAssumptions, D!HeadLeaves
  <2> QED BY <2>2 DEF D!HeadGoes
<1>6. D!Confirmed(n, g)
  <2>1. \/ f.dst = BCAST /\ UNCHANGED <<alOut, slq>>
        \/ \E a \in AckMsgs : /\ f.dst # BCAST
                              /\ a.src = n /\ a.seq = f.seq
                              /\ a.status # "FATAL"
                              /\ SendToStackline(n, a)
    BY PlcTells
  <2>2. CASE f.dst = BCAST /\ UNCHANGED <<alOut, slq>>
    BY <1>2, <2>2, SameConstants DEF D!Inbox, D!Confirmed
  <2>3. ASSUME NEW a \in AckMsgs, f.dst # BCAST, a.src = n, a.seq = f.seq,
               a.status # "FATAL", SendToStackline(n, a)
        PROVE  D!Confirmed(n, g)
    <3>1. D!SendToStackline(n, a)
      BY <2>3 DEF SendToStackline, D!SendToStackline, Bound, D!Bound, Refuse, D!Refuse
    <3>2. a \in D!AckMsgs /\ g.dst # D!BCAST
      BY <1>2, <2>3, SameConstants
    <3>3. a.seq = g.seq /\ ((a.status = "FATAL") <=> ~g.fits)
      BY <1>2, <2>3
    <3> HIDE DEF f, g
    <3> QED BY <1>1, <1>2, <1>5, <2>3, <3>1, <3>2, <3>3, SameAssumptions, D!AckTells
  <2> QED BY <2>1, <2>2, <2>3
<1> HIDE DEF f, g
<1> QED BY <1>4, <1>5, <1>6 DEF D!Finishes

\* The power line moves the packets of D.
LEMMA PlcMoves ==
    ASSUME TypeOK, Genuine, PlcIdsApart, phy = "plc", [IfNext]_ifVars,
           D!TypeOK, D!Genuine, D!InOrder
    PROVE  D!Moves
<1>1. ASSUME SharedStep PROVE D!Moves
  BY <1>1, FitShared, SameAssumptions, D!SharedSteps DEF D!Moves
<1>2. ASSUME NEW n \in Nodes, NEW r \in Nodes, PlcIndication(n, r)
      PROVE  D!Moves
  BY <1>2, PlcPasses, SameConstants DEF D!Moves
<1>3. ASSUME NEW n \in Nodes, PlcRetry(n) PROVE D!Moves
  <2>1. UNCHANGED <<stack, Sent, SlOut, Alq, Held, alOut, slq, got, reports>>
    BY <1>3, FitChanges DEF PlcRetry, stackVars, historyVars
  <2> QED BY <2>1, SameAssumptions, D!StillLessens DEF D!Moves
<1>4. ASSUME NEW n \in Nodes, PlcDone(n) PROVE D!Moves
  BY <1>4, PlcFinishes, SameConstants DEF D!Moves
<1> QED BY <1>1, <1>2, <1>3, <1>4, EitherSteps

-----------------------------------------------------------------------------
(* The service.                                                             *)

LEMMA SubmittedFits == TypeOK /\ phy = "plc" => Submitted = Sent
<1> SUFFICES ASSUME TypeOK, phy = "plc" PROVE Submitted = Sent
  OBVIOUS
<1>1. ASSUME NEW p
      PROVE  [p EXCEPT !.fits = @ \/ phy = "plc"] = Fit(p)
  <2>1. (p.fits \/ phy = "plc") = TRUE
    BY Zenon
  <2>2. \A v : v = TRUE => [p EXCEPT !.fits = v] = [p EXCEPT !.fits = TRUE]
    BY Zenon
  <2> QED BY <2>1, <2>2, Zenon DEF Fit
<1> QED BY <1>1, Zenon DEF Submitted, Sent, AllFit

LEMMA SubmittedIsSent == TypeOK /\ phy = "lowpan" => Submitted = sent
<1> SUFFICES ASSUME TypeOK, phy = "lowpan" PROVE Submitted = sent
  OBVIOUS
<1>1. ASSUME NEW p \in Packets
      PROVE  [p EXCEPT !.fits = @ \/ phy = "plc"] = p
  <2>1. p.fits \in BOOLEAN /\ [p EXCEPT !.fits = p.fits] = p
    BY DEF Packets
  <2>2. phy # "plc"
    OBVIOUS
  <2>3. (p.fits \/ phy = "plc") = p.fits
    BY <2>1, <2>2, Zenon
  <2>4. \A v : v = p.fits => [p EXCEPT !.fits = v] = [p EXCEPT !.fits = p.fits]
    BY Zenon
  <2> QED BY <2>1, <2>3, <2>4, Zenon
<1>2. ASSUME NEW s \in Stacks
      PROVE  [k \in DOMAIN sent[s] |->
                [sent[s][k] EXCEPT !.fits = @ \/ phy = "plc"]] = sent[s]
  <2>1. sent[s] \in Seq(Packets)
    BY DEF TypeOK
  <2>2. \A k \in DOMAIN sent[s] : sent[s][k] \in Packets
    BY <2>1
  <2>3. [k \in DOMAIN sent[s] |-> sent[s][k]] = sent[s]
    BY <2>1
  <2> QED BY <1>1, <2>2, <2>3, Zenon
<1>3. [s \in Stacks |-> sent[s]] = sent
  BY DEF TypeOK
<1> QED BY <1>2, <1>3, Zenon DEF Submitted

\* The service of the data plane, and of D, where what is submitted is the same.
LEMMA SentServes ==
    ASSUME Submitted = sent, Submitted' = sent', Service!SNext
    PROVE  Promise!SNext
<1>1. /\ Service!BCAST = Promise!BCAST
      /\ Service!CL_DSTID_MACHDR_PRESENT = Promise!CL_DSTID_MACHDR_PRESENT
  BY DEF Service!BCAST, Promise!BCAST, Service!CL_DSTID_MACHDR_PRESENT,
         Promise!CL_DSTID_MACHDR_PRESENT
<1>2. \A s, k : /\ Service!Accepted(s, k) <=> Promise!Accepted(s, k)
                /\ Service!Reportable(s, k) <=> Promise!Reportable(s, k)
                /\ Service!Reported(s, k) <=> Promise!Reported(s, k)
  BY <1>1 DEF Service!IN_RANGE, Promise!IN_RANGE, Service!Accepted, Promise!Accepted,
     Service!Reportable, Promise!Reportable, Service!Reported, Promise!Reported
<1>3. ASSUME NEW s \in Stacks
      PROVE  /\ Service!Start(s) => Promise!Start(s)
             /\ Service!Die(s) => Promise!Die(s)
             /\ Service!Submit(s) => Promise!Submit(s)
  BY DEF Service!Start, Promise!Start, Service!Die, Promise!Die,
         Service!Submit, Promise!Submit
<1>4. ASSUME NEW s \in Stacks, NEW r \in Stacks, NEW k \in DOMAIN sent[s],
             Service!Deliver(r, s, k)
      PROVE  Promise!Deliver(r, s, k)
  BY <1>1, <1>2, <1>4 DEF Service!Deliver, Promise!Deliver
<1>5. ASSUME NEW s \in Stacks, NEW k \in DOMAIN sent[s], NEW status,
             Service!Report(s, k, status)
      PROVE  Promise!Report(s, k, status)
  BY <1>2, <1>5, Zenon DEF Service!Report, Promise!Report
<1>6. PICK s \in Stacks :
         \/ Service!Start(s) \/ Service!Die(s) \/ Service!Submit(s)
         \/ \E r \in Stacks, k \in DOMAIN sent[s] : Service!Deliver(r, s, k)
         \/ \E k \in DOMAIN sent[s], status \in {"ACK_OK", "NO_ACK", "ERR", "FATAL"} :
               Service!Report(s, k, status)
  BY Zenon DEF Service!SNext
<1>7. CASE Service!Start(s) \/ Service!Die(s) \/ Service!Submit(s)
  <2>1. Promise!Start(s) \/ Promise!Die(s) \/ Promise!Submit(s)
    BY <1>3, <1>7, Zenon
  <2> QED BY <2>1, Zenon DEF Promise!SNext
<1>8. CASE \E r \in Stacks, k \in DOMAIN sent[s] : Service!Deliver(r, s, k)
  <2>1. \E r \in Stacks, k \in DOMAIN Submitted[s] : Promise!Deliver(r, s, k)
    BY <1>4, <1>8, Zenon
  <2> QED BY <2>1, Zenon DEF Promise!SNext
<1>9. CASE \E k \in DOMAIN sent[s], status \in {"ACK_OK", "NO_ACK", "ERR", "FATAL"} :
              Service!Report(s, k, status)
  <2>1. \E k \in DOMAIN Submitted[s], status \in {"ACK_OK", "NO_ACK", "ERR", "FATAL"} :
           Promise!Report(s, k, status)
    BY <1>5, <1>9, Zenon
  <2> QED BY <2>1, Zenon DEF Promise!SNext
<1> QED BY <1>6, <1>7, <1>8, <1>9, Zenon

LEMMA FitServes ==
    ASSUME Submitted = Sent, Submitted' = Sent', D!Service!SNext
    PROVE  Promise!SNext
<1>1. /\ D!Service!BCAST = Promise!BCAST
      /\ D!Service!CL_DSTID_MACHDR_PRESENT = Promise!CL_DSTID_MACHDR_PRESENT
  BY DEF D!Service!BCAST, Promise!BCAST, D!Service!CL_DSTID_MACHDR_PRESENT,
         Promise!CL_DSTID_MACHDR_PRESENT
<1>2. \A s, k : /\ D!Service!Accepted(s, k) <=> Promise!Accepted(s, k)
                /\ D!Service!Reportable(s, k) <=> Promise!Reportable(s, k)
                /\ D!Service!Reported(s, k) <=> Promise!Reported(s, k)
  BY <1>1 DEF D!Service!IN_RANGE, Promise!IN_RANGE, D!Service!Accepted, Promise!Accepted,
     D!Service!Reportable, Promise!Reportable, D!Service!Reported, Promise!Reported
<1>3. ASSUME NEW s \in Stacks
      PROVE  /\ D!Service!Start(s) => Promise!Start(s)
             /\ D!Service!Die(s) => Promise!Die(s)
             /\ D!Service!Submit(s) => Promise!Submit(s)
  BY DEF D!Service!Start, Promise!Start, D!Service!Die, Promise!Die,
         D!Service!Submit, Promise!Submit
<1>4. ASSUME NEW s \in Stacks, NEW r \in Stacks, NEW k \in DOMAIN Sent[s],
             D!Service!Deliver(r, s, k)
      PROVE  Promise!Deliver(r, s, k)
  BY <1>1, <1>2, <1>4 DEF D!Service!Deliver, Promise!Deliver
<1>5. ASSUME NEW s \in Stacks, NEW k \in DOMAIN Sent[s], NEW status,
             D!Service!Report(s, k, status)
      PROVE  Promise!Report(s, k, status)
  BY <1>2, <1>5, Zenon DEF D!Service!Report, Promise!Report
<1>6. PICK s \in Stacks :
         \/ D!Service!Start(s) \/ D!Service!Die(s) \/ D!Service!Submit(s)
         \/ \E r \in Stacks, k \in DOMAIN Sent[s] : D!Service!Deliver(r, s, k)
         \/ \E k \in DOMAIN Sent[s], status \in {"ACK_OK", "NO_ACK", "ERR", "FATAL"} :
               D!Service!Report(s, k, status)
  BY Zenon DEF D!Service!SNext
<1>7. CASE D!Service!Start(s) \/ D!Service!Die(s) \/ D!Service!Submit(s)
  <2>1. Promise!Start(s) \/ Promise!Die(s) \/ Promise!Submit(s)
    BY <1>3, <1>7, Zenon
  <2> QED BY <2>1, Zenon DEF Promise!SNext
<1>8. CASE \E r \in Stacks, k \in DOMAIN Sent[s] : D!Service!Deliver(r, s, k)
  <2>1. \E r \in Stacks, k \in DOMAIN Submitted[s] : Promise!Deliver(r, s, k)
    BY <1>4, <1>8, Zenon
  <2> QED BY <2>1, Zenon DEF Promise!SNext
<1>9. CASE \E k \in DOMAIN Sent[s], status \in {"ACK_OK", "NO_ACK", "ERR", "FATAL"} :
              D!Service!Report(s, k, status)
  <2>1. \E k \in DOMAIN Submitted[s], status \in {"ACK_OK", "NO_ACK", "ERR", "FATAL"} :
           Promise!Report(s, k, status)
    BY <1>5, <1>9, Zenon
  <2> QED BY <2>1, Zenon DEF Promise!SNext
<1> QED BY <1>6, <1>7, <1>8, <1>9, Zenon

LEMMA PlcServes ==
    ASSUME TypeOK, D!Sound, phy = "plc", [IfNext]_ifVars
    PROVE  D!Service!SNext \/ UNCHANGED <<stack, Sent, got, reports>>
<1>1. CASE SharedStep
  <2>1. D!SharedStep
    BY <1>1, FitShared
  <2> QED BY <2>1, SameAssumptions, D!SharedServes
<1>2. CASE UNCHANGED <<stack, sent, got, reports>>
  BY <1>2, FitChanges
<1>3. SharedStep \/ UNCHANGED <<stack, sent, got, reports>>
  BY EitherSteps DEF PlcIndication, PlcRetry, PlcDone, stackVars, historyVars
<1> QED BY <1>1, <1>2, <1>3

\* Each interface keeps the invariant of the data plane, the power line in the
\* state where every packet fits.
EitherSound ==
    /\ EitherHeard
    /\ phy = "lowpan" => Sound
    /\ phy = "plc" => D!Sound

LEMMA FitInit == Init => D!Init
<1> SUFFICES ASSUME Init PROVE D!Init
  OBVIOUS
<1>1. /\ Sent = [s \in Stacks |-> <<>>] /\ SlOut = [s \in Stacks |-> <<>>]
      /\ Alq = <<>> /\ Held = [n \in Nodes |-> <<>>]
  BY FitOne DEF Init, Sent, SlOut, Alq, Held
<1>2. D!NoStats = NoStats /\ D!Nodes = Nodes
  BY SameConstants DEF D!NoStats, NoStats, D!Attempts, Attempts
<1> QED BY <1>1, <1>2, Zenon DEF Init, D!Init

LEMMA EitherSoundFirst == IfInit => EitherSound /\ Promise!SInit
<1> SUFFICES ASSUME IfInit PROVE EitherSound /\ Promise!SInit
  OBVIOUS
<1>1. Init /\ phy \in {"lowpan", "plc"}
  BY DEF IfInit
<1>2. EitherHeard
  BY EitherHeardFirst
<1>3. Sound
  BY <1>1, InitTyped, InitOrder, InitCovers DEF Sound
<1>4. D!Init
  BY <1>1, FitInit
<1>5. D!Sound
  <2>1. D!TypeOK /\ D!Truthful /\ D!InOrder
    BY <1>4, SameAssumptions, D!InitTyped, D!InitOrder
  <2>2. D!OneHeld /\ D!Covered /\ D!DataInOrder
    BY <1>4, SameAssumptions, D!InitCovers
  <2> QED BY <2>1, <2>2 DEF D!Sound
<1>6. Submitted = [s \in Stacks |-> <<>>]
  <2>1. Submitted = sent \/ Submitted = Sent
    BY <1>1, <1>2, SubmittedFits, SubmittedIsSent DEF EitherHeard
  <2> QED BY <1>1, <1>4, <2>1 DEF Init, D!Init
<1>7. Promise!SInit
  BY <1>1, <1>6 DEF Init, Promise!SInit
<1> QED BY <1>2, <1>3, <1>5, <1>7 DEF EitherSound

LEMMA EitherSoundKept ==
    ASSUME EitherSound, PlcIdsApart, [IfNext]_ifVars
    PROVE  EitherSound'
<1>1. EitherHeard'
  BY EitherHeardKept DEF EitherSound
<1>2. phy \in {"lowpan", "plc"} /\ TypeOK /\ Genuine /\ TypeOK'
  BY <1>1 DEF EitherSound, EitherHeard
<1>3. phy' = phy /\ (phy = "lowpan" => [Next]_vars)
  BY <1>2, EitherSteps
<1>4. CASE phy = "lowpan"
  <2>1. Sound /\ [Next]_vars
    BY <1>3, <1>4 DEF EitherSound
  <2>2. Moves
    BY <2>1, NextMoves DEF Sound
  <2>3. Sound'
    BY <1>2, <2>1, <2>2, SoundKept
  <2> QED BY <1>1, <1>3, <1>4, <2>3 DEF EitherSound
<1>5. CASE phy = "plc"
  <2>1. D!Sound
    BY <1>5 DEF EitherSound
  <2>2. D!TypeOK /\ D!Genuine /\ D!InOrder
    BY <2>1 DEF D!Sound, D!Truthful
  <2>3. D!Moves
    BY <1>2, <1>5, <2>2, PlcMoves
  <2>4. (TypeOK => D!TypeOK)'
    BY FitTyped, PTL
  <2>5. D!TypeOK'
    BY <1>2, <2>4
  <2>6. D!Sound'
    BY <2>1, <2>3, <2>5, SameAssumptions, D!SoundKept
  <2> QED BY <1>1, <1>3, <1>5, <2>6 DEF EitherSound
<1> QED BY <1>2, <1>4, <1>5

LEMMA EitherServes ==
    ASSUME EitherSound, EitherSound', [IfNext]_ifVars
    PROVE  [Promise!SNext]_(Promise!serviceVars)
<1>1. /\ phy \in {"lowpan", "plc"} /\ TypeOK /\ TypeOK'
      /\ phy = "lowpan" => Sound
      /\ phy = "plc" => D!Sound
  BY DEF EitherSound, EitherHeard
<1>2. phy' = phy /\ (phy = "lowpan" => [Next]_vars)
  BY <1>1, EitherSteps
<1>3. CASE phy = "lowpan"
  <2>1. Service!SNext \/ UNCHANGED <<stack, sent, got, reports>>
    BY <1>1, <1>2, <1>3, NextServes
  <2>2. (TypeOK /\ phy = "lowpan" => Submitted = sent)'
    BY SubmittedIsSent, PTL
  <2>3. Submitted = sent /\ Submitted' = sent'
    BY <1>1, <1>2, <1>3, <2>2, SubmittedIsSent
  <2> QED BY <2>1, <2>3, SentServes DEF Promise!serviceVars
<1>4. CASE phy = "plc"
  <2>1. D!Service!SNext \/ UNCHANGED <<stack, Sent, got, reports>>
    BY <1>1, <1>4, PlcServes
  <2>2. (TypeOK /\ phy = "plc" => Submitted = Sent)'
    BY SubmittedFits, PTL
  <2>3. Submitted = Sent /\ Submitted' = Sent'
    BY <1>1, <1>2, <1>4, <2>2, SubmittedFits
  <2> QED BY <2>1, <2>3, FitServes DEF Promise!serviceVars
<1> QED BY <1>1, <1>3, <1>4

\* Whichever interface the configuration names, stacklines see what LinkService
\* promises: every step of the data plane (ifaceSendPacket and its callbacks;
\* plcHandleData, plcHandleAck and plcHandleTxFail in the power line's case) is
\* one of the service or leaves what stacklines see alone.
THEOREM EitherImplementsTheService ==
    ASSUME NumNodes <= 65280
    PROVE  IfSpec => EitherImplementsService
<1>1. EitherSound /\ [IfNext]_ifVars => EitherSound'
  BY EitherSoundKept DEF PlcIdsApart
<1>2. EitherSound /\ EitherSound' /\ [IfNext]_ifVars =>
         [Promise!SNext]_(Promise!serviceVars)
  BY EitherServes
<1> QED BY <1>1, <1>2, EitherSoundFirst, PTL
   DEF IfSpec, EitherImplementsService, Promise!ServiceSpec

=============================================================================
