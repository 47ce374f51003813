--------------------------- MODULE DataPlaneProofs --------------------------
(***************************************************************************)
(* Theorems about DataPlane, for every number of nodes, set of stacklines, *)
(* queue length, retry limit and number of packets.                        *)
(***************************************************************************)
EXTENDS DataPlane, SequenceTheorems, FiniteSetTheorems, WellFoundedInduction,
        TLAPS

\* Node ids fit the 16 bits of a message's src_id.
LEMMA NodesAreIds == Nodes \subseteq Ids /\ Nodes \subseteq Int
BY DataPlaneAssumption DEF Nodes, Ids

\* Counting a transmission, a report or a reception yields counters again
\* (Macstats::set_tx_stats, Macstats::set_rx_stats).
LEMMA StatsTyped ==
    ASSUME NEW st \in StatsType, NEW dst, NEW status, NEW retries \in Nat
    PROVE  /\ set_tx_stats(st, dst) \in StatsType
           /\ set_ack_stats(st, status, retries) \in StatsType
           /\ set_data_stats(st, dst) \in StatsType
<1>1. set_tx_stats(st, dst) \in StatsType
  BY DEF set_tx_stats, StatsType
<1>2. set_data_stats(st, dst) \in StatsType
  BY DEF set_data_stats, StatsType
<1>3. set_ack_stats(st, status, retries) \in StatsType
  <2>1. CASE status # "ACK_OK"
    BY <2>1 DEF set_ack_stats, StatsType
  <2>2. CASE status = "ACK_OK" /\ IN_RANGE(retries, 1, MAX_MAC_TX_RETRY_CNT)
    <3>1. retries \in Attempts
      BY <2>2, AttemptCapAssumption DEF IN_RANGE, Attempts
    <3>2. [st.rx_ack_ok EXCEPT ![retries] = @ + 1] \in [Attempts -> Nat]
      BY <3>1 DEF StatsType
    <3> QED BY <2>2, <3>2 DEF set_ack_stats, StatsType
  <2>3. CASE status = "ACK_OK" /\ ~IN_RANGE(retries, 1, MAX_MAC_TX_RETRY_CNT)
    BY <2>3 DEF set_ack_stats
  <2> QED BY <2>1, <2>2, <2>3
<1> QED BY <1>1, <1>2, <1>3

\* What a queue is made of: nothing, one message, one more at the end, all but
\* the first.
LEMMA SeqTyped ==
    ASSUME NEW S
    PROVE  /\ <<>> \in Seq(S)
           /\ \A x \in S : <<x>> \in Seq(S)
           /\ \A q \in Seq(S), x \in S : Append(q, x) \in Seq(S)
           /\ \A q \in Seq(S) : q # <<>> => Head(q) \in S /\ Tail(q) \in Seq(S)
OBVIOUS

\* Updates of one queue in a table of queues.
LEMMA QueuesTyped ==
    ASSUME NEW I, NEW S, NEW q \in [I -> Seq(S)], NEW i
    PROVE  /\ [q EXCEPT ![i] = <<>>] \in [I -> Seq(S)]
           /\ \A x \in S : [q EXCEPT ![i] = <<x>>] \in [I -> Seq(S)]
           /\ \A x \in S : [q EXCEPT ![i] = Append(@, x)] \in [I -> Seq(S)]
           /\ q[i] # <<>> => [q EXCEPT ![i] = Tail(@)] \in [I -> Seq(S)]
           /\ i \in I /\ q[i] # <<>> => Head(q[i]) \in S
<1>1. [q EXCEPT ![i] = <<>>] \in [I -> Seq(S)]
  BY <<>> \in Seq(S)
<1>2. ASSUME NEW x \in S PROVE [q EXCEPT ![i] = <<x>>] \in [I -> Seq(S)]
  BY <<x>> \in Seq(S)
<1>3. ASSUME NEW x \in S PROVE [q EXCEPT ![i] = Append(@, x)] \in [I -> Seq(S)]
  BY i \in I => Append(q[i], x) \in Seq(S)
<1>4. q[i] # <<>> => [q EXCEPT ![i] = Tail(@)] \in [I -> Seq(S)]
  BY i \in I /\ q[i] # <<>> => Tail(q[i]) \in Seq(S)
<1>5. i \in I /\ q[i] # <<>> => Head(q[i]) \in S
  OBVIOUS
<1> QED BY <1>1, <1>2, <1>3, <1>4, <1>5

\* Taking one element out of a sequence leaves a sequence over the same set.
LEMMA RemoveAtTyped ==
    ASSUME NEW S, NEW q \in Seq(S), NEW i \in DOMAIN q
    PROVE  RemoveAt(q, i) \in Seq(S)
BY DEF RemoveAt

\* Charging a node keeps the table of counters well typed, whichever node the
\* message names.
LEMMA ChargeTyped ==
    ASSUME stats \in [Nodes -> StatsType], NEW n, NEW st,
           n \in Nodes => st \in StatsType
    PROVE  [stats EXCEPT ![n] = st] \in [Nodes -> StatsType]
OBVIOUS

\* SendToStackline, in each of its outcomes, keeps the queues of ACK and data
\* messages, the blocked send and the record of refusals well typed.
LEMMA SendTyped ==
    ASSUME TypeOK, NEW to \in Nodes, NEW m \in ToStack, SendToStackline(to, m)
    PROVE  /\ alOut' \in Seq(OutMsgs)
           /\ slq' \in [Stacks -> Seq(ToStack)]
           /\ refused' \subseteq Ids \X Stacks \X Nat
<1> USE NodesAreIds DEF TypeOK
<1>1. CASE ~Bound(to) /\ Refuse(to, m) /\ UNCHANGED <<alOut, slq>>
  <2>1. refused' \subseteq Ids \X Stacks \X Nat
    <3>1. m.kind = "data" => m.src \in Stacks /\ m.seq \in Nat
      BY DEF ToStack, DataMsgs, AckMsgs
    <3> QED BY <1>1, <3>1 DEF Refuse
  <2> QED BY <1>1, <2>1
<1>2. CASE /\ Bound(to)
           /\ slq' = [slq EXCEPT ![to] = Append(@, m)]
           /\ UNCHANGED <<alOut, refused>>
  BY <1>2 DEF Bound
<1>3. CASE /\ Bound(to)
           /\ alOut' = <<[to |-> to, msg |-> m]>>
           /\ UNCHANGED <<slq, refused>>
  <2>1. [to |-> to, msg |-> m] \in OutMsgs
    BY DEF OutMsgs
  <2> QED BY <1>3, <2>1
<1> QED BY <1>1, <1>2, <1>3 DEF SendToStackline

\* DataConfirm keeps everything it writes well typed.
LEMMA ConfirmTyped ==
    ASSUME TypeOK, NEW n \in Nodes, NEW f \in Frames, NEW st \in MacStatuses,
           DataConfirm(n, f, st)
    PROVE  /\ stats' \in [Nodes -> StatsType]
           /\ alOut' \in Seq(OutMsgs)
           /\ slq' \in [Stacks -> Seq(ToStack)]
           /\ refused' \subseteq Ids \X Stacks \X Nat
<1> DEFINE status  == wf_ack_status(st)
           retries == IF status = "ACK_OK" THEN tries[n] + 1 ELSE 0
           ack     == [kind |-> "ack", src |-> n, dst |-> f.dst, seq |-> f.seq,
                       status |-> status, retries |-> retries]
<1>1. status \in Statuses
  BY DEF wf_ack_status, MacStatuses, Statuses
<1>2. retries \in Nat
  BY DataPlaneAssumption DEF TypeOK
<1>3. CASE f.dst = BCAST /\ UNCHANGED <<stats, alOut, slq, refused>>
  BY <1>3 DEF TypeOK
<1>4. CASE /\ stats' = [stats EXCEPT ![n] = set_ack_stats(@, status, retries)]
           /\ SendToStackline(n, ack)
  <2>1. ack \in ToStack
    BY <1>1, <1>2, DataPlaneAssumption DEF ToStack, AckMsgs, Frames
  <2>2. set_ack_stats(stats[n], status, retries) \in StatsType
    BY <1>2, StatsTyped DEF TypeOK
  <2>3. stats' \in [Nodes -> StatsType]
    BY <1>4, <2>2 DEF TypeOK
  <2> QED BY <1>4, <2>1, <2>3, SendTyped
<1> QED BY <1>3, <1>4 DEF DataConfirm, SendAckToStackline

LEMMA InitTyped == Init => TypeOK
<1> SUFFICES ASSUME Init PROVE TypeOK
  OBVIOUS
<1>1. NoStats \in StatsType
  BY DEF NoStats, StatsType
<1>2. 0 \in 0..MaxRetry
  BY DataPlaneAssumption
<1>3. /\ sent \in [Stacks -> Seq(Packets)]
      /\ slOut \in [Stacks -> Seq(Frames)]
      /\ mac \in [Nodes -> Seq(Frames)]
      /\ slq \in [Stacks -> Seq(ToStack)]
      /\ reports \in [Stacks -> Seq([seq : Nat, status : Statuses])]
  BY SeqTyped DEF Init
<1>4. alq \in Seq(Frames) /\ alOut \in Seq(OutMsgs)
  BY SeqTyped DEF Init
<1>5. /\ stack \in [Stacks -> {"new", "up", "dead"}]
      /\ reading \in BOOLEAN
      /\ tries \in [Nodes -> 0..MaxRetry]
      /\ heard \in [Nodes -> SUBSET Nodes]
      /\ stats \in [Nodes -> StatsType]
      /\ got \in [Stacks -> SUBSET (Stacks \X Nat)]
      /\ refused \subseteq Ids \X Stacks \X Nat
  BY <1>1, <1>2 DEF Init
<1> QED BY <1>3, <1>4, <1>5 DEF TypeOK

LEMMA StepTyped == TypeOK /\ [Next]_vars => TypeOK'
<1> SUFFICES ASSUME TypeOK, [Next]_vars PROVE TypeOK'
  OBVIOUS
<1> USE DEF TypeOK, stackVars, macVars, historyVars
<1>1. ASSUME NEW s \in Stacks, StackStart(s) PROVE TypeOK'
  BY <1>1 DEF StackStart
<1>2. ASSUME NEW s \in Stacks, StackDie(s) PROVE TypeOK'
  <2>1. /\ slOut' \in [Stacks -> Seq(Frames)]
        /\ slq' \in [Stacks -> Seq(ToStack)]
    BY <1>2, QueuesTyped DEF StackDie
  <2> QED BY <1>2, <2>1 DEF StackDie
<1>3. ASSUME NEW s \in Stacks, StackSend(s) PROVE TypeOK'
  <2>1. PICK dst \in Dsts \ {s}, fits \in Sizes :
          LET m == [src |-> s, dst |-> dst, fits |-> fits,
                    seq |-> Len(sent[s]) + 1]
          IN  /\ sent' = [sent EXCEPT ![s] =
                               Append(@, [dst |-> dst, fits |-> fits])]
              /\ \/ /\ alq' = Append(alq, m)
                    /\ UNCHANGED slOut
                 \/ /\ slOut' = [slOut EXCEPT ![s] = <<m>>]
                    /\ UNCHANGED alq
    BY <1>3 DEF StackSend
  <2> DEFINE m == [src |-> s, dst |-> dst, fits |-> fits,
                   seq |-> Len(sent[s]) + 1]
  <2>2. fits \in BOOLEAN
    BY DataPlaneAssumption
  <2>3. m \in Frames
    BY <2>2 DEF Frames
  <2>4. sent' \in [Stacks -> Seq(Packets)]
    <3>1. [dst |-> dst, fits |-> fits] \in Packets
      BY <2>2 DEF Packets
    <3> QED BY <2>1, <3>1, QueuesTyped
  <2>5. alq' \in Seq(Frames) /\ slOut' \in [Stacks -> Seq(Frames)]
    <3>1. CASE alq' = Append(alq, m) /\ UNCHANGED slOut
      BY <2>3, <3>1, SeqTyped
    <3>2. CASE slOut' = [slOut EXCEPT ![s] = <<m>>] /\ UNCHANGED alq
      BY <2>3, <3>2, QueuesTyped
    <3> QED BY <2>1, <3>1, <3>2
  <2> QED BY <1>3, <2>4, <2>5 DEF StackSend
<1>4. ASSUME NEW s \in Stacks, StackUnblock(s) PROVE TypeOK'
  <2>1. Head(slOut[s]) \in Frames
    BY <1>4, QueuesTyped DEF StackUnblock
  <2>2. alq' \in Seq(Frames)
    BY <1>4, <2>1, SeqTyped DEF StackUnblock
  <2>3. slOut' \in [Stacks -> Seq(Frames)]
    BY <1>4, QueuesTyped DEF StackUnblock
  <2> QED BY <1>4, <2>2, <2>3 DEF StackUnblock
<1>5. ASSUME NEW s \in Stacks, StackRecv(s) PROVE TypeOK'
  <2> DEFINE m == Head(slq[s])
  <2>1. m \in ToStack /\ slq' \in [Stacks -> Seq(ToStack)]
    BY <1>5 DEF StackRecv
  <2>2. m.kind = "data" => m.src \in Stacks /\ m.seq \in Nat
    BY <2>1 DEF ToStack, DataMsgs, AckMsgs
  <2>3. m.kind = "ack" => m.seq \in Nat /\ m.status \in Statuses
    BY <2>1 DEF ToStack, DataMsgs, AckMsgs
  <2>4. got' \in [Stacks -> SUBSET (Stacks \X Nat)]
    <3>1. CASE got' = [got EXCEPT ![s] = @ \cup {<<m.src, m.seq>>}] /\ m.kind = "data"
      <4>1. <<m.src, m.seq>> \in Stacks \X Nat
        BY <2>2, <3>1
      <4> HIDE DEF m
      <4> QED BY <3>1, <4>1
    <3>2. CASE UNCHANGED got
      BY <3>2
    <3> QED BY <1>5, <3>1, <3>2 DEF StackRecv
  <2>5. reports' \in [Stacks -> Seq([seq : Nat, status : Statuses])]
    <3> DEFINE R == [seq : Nat, status : Statuses]
    <3>1. CASE /\ m.kind = "ack"
               /\ reports' = [reports EXCEPT ![s] =
                      Append(@, [seq |-> m.seq, status |-> m.status])]
      <4>1. [seq |-> m.seq, status |-> m.status] \in R
        BY <2>3, <3>1
      <4> HIDE DEF R
      <4>2. reports \in [Stacks -> Seq(R)]
        BY DEF R
      <4>3. reports' \in [Stacks -> Seq(R)]
        BY <3>1, <4>1, <4>2, QueuesTyped
      <4> QED BY <4>3 DEF R
    <3>2. CASE UNCHANGED reports
      BY <3>2
    <3> QED BY <1>5, <3>1, <3>2 DEF StackRecv
  <2> QED BY <1>5, <2>1, <2>4, <2>5 DEF StackRecv
<1>6. CASE MsgReaderStart
  BY <1>6 DEF MsgReaderStart
<1>7. CASE MsgReaderStop
  BY <1>7 DEF MsgReaderStop
<1>8. CASE MsgReaderDrop
  <2>1. alq' \in Seq(Frames)
    BY <1>8, SeqTyped DEF MsgReaderDrop
  <2> QED BY <1>8, <2>1 DEF MsgReaderDrop
<1>9. CASE MsgReaderSend
  <2> DEFINE m == Head(alq)
  <2>1. m \in Frames /\ alq' \in Seq(Frames)
    BY <1>9 DEF MsgReaderSend
  <2>2. m.src \in Nodes => set_tx_stats(stats[m.src], m.dst) \in StatsType
    BY StatsTyped
  <2>3. stats' \in [Nodes -> StatsType]
    BY <1>9, <2>2, ChargeTyped DEF MsgReaderSend
  <2>4. mac' \in [Nodes -> Seq(Frames)]
    BY <1>9, <2>1, QueuesTyped DEF MsgReaderSend
  <2> QED BY <1>9, <2>1, <2>3, <2>4 DEF MsgReaderSend
<1>10. ASSUME NEW n \in Nodes, NEW r \in Nodes, DataIndication(n, r)
       PROVE  TypeOK'
  <2> DEFINE f == Head(mac[n])
             d == [kind |-> "data", src |-> f.src, dst |-> f.dst,
                   seq |-> f.seq]
  <2>1. f \in Frames
    BY <1>10 DEF DataIndication
  <2>2. d \in ToStack
    BY <2>1 DEF Frames, ToStack, DataMsgs
  <2>3. SendToStackline(r, d)
    BY <1>10 DEF DataIndication, SendPacketToStackline
  <2>4. f.src \in Nodes => set_data_stats(stats[f.src], f.dst) \in StatsType
    BY StatsTyped
  <2>5. stats' \in [Nodes -> StatsType]
    BY <1>10, <2>4, ChargeTyped DEF DataIndication, SendPacketToStackline
  <2>6. heard' \in [Nodes -> SUBSET Nodes]
    BY <1>10 DEF DataIndication
  <2> QED BY <1>10, <2>2, <2>3, <2>5, <2>6, SendTyped DEF DataIndication
<1>11. ASSUME NEW n \in Nodes, MacRetry(n) PROVE TypeOK'
  <2>1. tries' \in [Nodes -> 0..MaxRetry]
    BY <1>11, DataPlaneAssumption DEF MacRetry
  <2> QED BY <1>11, <2>1 DEF MacRetry
<1>12. ASSUME NEW n \in Nodes, NEW st \in MacStatuses, MacDone(n, st)
       PROVE  TypeOK'
  <2>1. Head(mac[n]) \in Frames /\ mac' \in [Nodes -> Seq(Frames)]
    BY <1>12 DEF MacDone
  <2>2. tries' \in [Nodes -> 0..MaxRetry]
    BY <1>12, DataPlaneAssumption DEF MacDone
  <2>3. heard' \in [Nodes -> SUBSET Nodes]
    BY <1>12 DEF MacDone
  <2>4. DataConfirm(n, Head(mac[n]), st)
    BY <1>12 DEF MacDone
  <2> QED BY <1>12, <2>1, <2>2, <2>3, <2>4, ConfirmTyped DEF MacDone
<1>13. ASSUME NEW n \in Nodes, NEW i \in DOMAIN mac[n], MacReject(n, i)
       PROVE  TypeOK'
  <2>1. mac[n][i] \in Frames
    OBVIOUS
  <2>2. RemoveAt(mac[n], i) \in Seq(Frames)
    BY RemoveAtTyped
  <2>3. mac' \in [Nodes -> Seq(Frames)]
    BY <1>13, <2>2 DEF MacReject
  <2>4. DataConfirm(n, mac[n][i], "FRAME_TOO_LONG")
    BY <1>13 DEF MacReject
  <2>5. "FRAME_TOO_LONG" \in MacStatuses
    BY DEF MacStatuses
  <2> QED BY <1>13, <2>1, <2>3, <2>4, <2>5, ConfirmTyped DEF MacReject
<1>14. CASE AirlineUnblock
  <2> DEFINE o == Head(alOut)
  <2>1. o \in OutMsgs
    BY <1>14 DEF AirlineUnblock
  <2>2. o.to \in Ids /\ o.msg \in ToStack
    BY <2>1 DEF OutMsgs
  <2>3. o.msg.kind = "data" => o.msg.src \in Stacks /\ o.msg.seq \in Nat
    BY <2>2 DEF ToStack, DataMsgs, AckMsgs
  <2>4. refused' \subseteq Ids \X Stacks \X Nat
    BY <1>14, <2>2, <2>3 DEF AirlineUnblock, Refuse
  <2>5. slq' \in [Stacks -> Seq(ToStack)]
    <3>1. CASE UNCHANGED slq
      BY <3>1
    <3>2. CASE slq' = [slq EXCEPT ![o.to] = Append(@, o.msg)]
      <4> HIDE DEF o
      <4> QED BY <2>2, <3>2, QueuesTyped
    <3> QED BY <1>14, <3>1, <3>2 DEF AirlineUnblock
  <2>6. alOut' \in Seq(OutMsgs)
    BY <1>14, SeqTyped DEF AirlineUnblock
  <2> QED BY <1>14, <2>4, <2>5, <2>6 DEF AirlineUnblock
<1>15. CASE UNCHANGED vars
  BY <1>15 DEF vars
<1> QED
  BY <1>1, <1>2, <1>3, <1>4, <1>5, <1>6, <1>7, <1>8, <1>9, <1>10, <1>11,
     <1>12, <1>13, <1>14, <1>15
  DEF Next, StackStep, MsgReader, MacStep

\* The state always has the shape TypeOK says: for the fixed-size arrays of
\* Airline (the MACs, the counters) it says that no message makes it index
\* outside them in a way that changes their shape.
THEOREM TypeCorrect == Spec => []TypeOK
BY InitTyped, StepTyped, PTL DEF Spec

-----------------------------------------------------------------------------
(* Queues, and the packets they are about.  A queue may hold items of       *)
(* several senders and kinds; S is the set of those that are meant.         *)

\* The packets that the items of q in S are about.
Keys(q, S) == {q[i].seq : i \in {j \in DOMAIN q : q[j] \in S}}

\* The items of q in S come in the order R.
Sorted(q, S, R) ==
    \A i, j \in DOMAIN q :
        i < j /\ q[i] \in S /\ q[j] \in S => <<q[i].seq, q[j].seq>> \in R

\* Of the items in S, p holds some of q's in the order of q.
Part(p, q, S) ==
    /\ Keys(p, S) \subseteq Keys(q, S)
    /\ \A R : Sorted(q, S, R) => Sorted(p, S, R)

\* What is left of a queue is a part of it: all of it, nothing, all but the
\* first.
LEMMA PartKept ==
    ASSUME NEW T, NEW q \in Seq(T), NEW S
    PROVE  /\ Part(q, q, S)
           /\ Part(<<>>, q, S)
           /\ q # <<>> => Part(Tail(q), q, S)
<1>1. Part(q, q, S) /\ Part(<<>>, q, S)
  BY DEF Part, Keys, Sorted
<1>2. ASSUME q # <<>> PROVE Part(Tail(q), q, S)
  <2>1. /\ DOMAIN Tail(q) = 1..(Len(q) - 1)
        /\ DOMAIN q = 1..Len(q)
        /\ Len(q) \in Nat
        /\ \A i \in 1..(Len(q) - 1) : Tail(q)[i] = q[i + 1]
    BY <1>2
  <2>2. Keys(Tail(q), S) \subseteq Keys(q, S)
    <3>1. SUFFICES ASSUME NEW i \in DOMAIN Tail(q), Tail(q)[i] \in S
                   PROVE  Tail(q)[i].seq \in Keys(q, S)
      BY DEF Keys
    <3>2. i + 1 \in DOMAIN q /\ Tail(q)[i] = q[i + 1]
      BY <2>1
    <3> QED BY <3>1, <3>2 DEF Keys
  <2>3. ASSUME NEW R, Sorted(q, S, R) PROVE Sorted(Tail(q), S, R)
    <3>1. SUFFICES ASSUME NEW i \in DOMAIN Tail(q), NEW j \in DOMAIN Tail(q),
                          i < j, Tail(q)[i] \in S, Tail(q)[j] \in S
                   PROVE  <<Tail(q)[i].seq, Tail(q)[j].seq>> \in R
      BY DEF Sorted
    <3>2. /\ i + 1 \in DOMAIN q /\ Tail(q)[i] = q[i + 1]
          /\ j + 1 \in DOMAIN q /\ Tail(q)[j] = q[j + 1]
          /\ i + 1 < j + 1
      BY <2>1, <3>1
    <3> QED BY <2>3, <3>1, <3>2 DEF Sorted
  <2> QED BY <2>2, <2>3 DEF Part
<1> QED BY <1>1, <1>2

\* What an added item does.
LEMMA AppendKeys ==
    ASSUME NEW T, NEW q \in Seq(T), NEW x \in T, NEW S
    PROVE  /\ Part(q, Append(q, x), S)
           /\ Part(<<x>>, Append(q, x), S)
           /\ x \notin S => Part(Append(q, x), q, S)
           /\ x \in S => Keys(Append(q, x), S) = Keys(q, S) \cup {x.seq}
           /\ Keys(Append(q, x), S) \subseteq Keys(q, S) \cup {x.seq}
           /\ \A R : (/\ Sorted(q, S, R)
                      /\ x \in S => Keys(q, S) \X {x.seq} \subseteq R)
                     => Sorted(Append(q, x), S, R)
<1> DEFINE a == Append(q, x)
           n == Len(q) + 1
<1>1. /\ DOMAIN a = DOMAIN q \cup {n}
      /\ DOMAIN q \subseteq Nat
      /\ n \in Nat
      /\ \A i \in DOMAIN q : a[i] = q[i] /\ i < n /\ i # n
      /\ a[n] = x
  OBVIOUS
<1>2. DOMAIN <<x>> = {1} /\ <<x>>[1] = x
  OBVIOUS
<1> HIDE DEF a, n
<1>3. /\ \A k \in Keys(q, S) : k \in Keys(a, S)
      /\ x \in S => x.seq \in Keys(a, S)
      /\ \A k \in Keys(a, S) : k \in Keys(q, S) \/ (x \in S /\ k = x.seq)
  BY <1>1 DEF Keys
<1>4. Part(q, a, S)
  BY <1>1, <1>3 DEF Part, Sorted
<1>5. Part(<<x>>, a, S)
  <2>1. Keys(<<x>>, S) \subseteq Keys(a, S)
    BY <1>2, <1>3 DEF Keys
  <2>2. \A R : Sorted(<<x>>, S, R)
    BY <1>2 DEF Sorted
  <2> QED BY <2>1, <2>2 DEF Part
<1>6. \A R : (/\ Sorted(q, S, R)
              /\ x \in S => Keys(q, S) \X {x.seq} \subseteq R)
             => Sorted(a, S, R)
  <2> TAKE R
  <2> HAVE /\ Sorted(q, S, R)
           /\ x \in S => Keys(q, S) \X {x.seq} \subseteq R
  <2>1. SUFFICES ASSUME NEW i \in DOMAIN a, NEW j \in DOMAIN a,
                        i < j, a[i] \in S, a[j] \in S
                 PROVE  <<a[i].seq, a[j].seq>> \in R
    BY DEF Sorted
  <2>2. i \in DOMAIN q
    BY <1>1, <2>1
  <2>3. CASE j \in DOMAIN q
    BY <1>1, <2>1, <2>2, <2>3 DEF Sorted
  <2>4. CASE j = n
    <3>1. a[i].seq \in Keys(q, S)
      BY <1>1, <2>1, <2>2 DEF Keys
    <3>2. a[j] = x
      BY <1>1, <2>4
    <3> QED BY <2>1, <3>1, <3>2
  <2> QED BY <1>1, <2>3, <2>4
<1>7. ASSUME x \notin S PROVE Part(a, q, S)
  <2>1. Keys(a, S) \subseteq Keys(q, S)
    BY <1>3, <1>7
  <2>2. \A R : Sorted(q, S, R) => Sorted(a, S, R)
    BY <1>6, <1>7
  <2> QED BY <2>1, <2>2 DEF Part
<1>8. /\ x \in S => Keys(a, S) = Keys(q, S) \cup {x.seq}
      /\ Keys(a, S) \subseteq Keys(q, S) \cup {x.seq}
  BY <1>3
<1> QED BY <1>4, <1>5, <1>7, <1>6, <1>8 DEF a

LEMMA AppendGrows ==
    ASSUME NEW T, NEW q \in Seq(T), NEW x \in T, NEW S
    PROVE  /\ Keys(q, S) \subseteq Keys(Append(q, x), S)
           /\ x \in S => x.seq \in Keys(Append(q, x), S)
<1>1. Part(q, Append(q, x), S)
  BY AppendKeys
<1>2. x \in S => Keys(Append(q, x), S) = Keys(q, S) \cup {x.seq}
  BY AppendKeys
<1> QED BY <1>1, <1>2 DEF Part

\* What the first item says of the others.
LEMMA HeadKeys ==
    ASSUME NEW T, NEW q \in Seq(T), q # <<>>, NEW S
    PROVE  /\ Head(q) \in S =>
                 /\ Head(q).seq \in Keys(q, S)
                 /\ \A R : Sorted(q, S, R) =>
                            {Head(q).seq} \X Keys(Tail(q), S) \subseteq R
           /\ \A k \in Keys(q, S) : \/ k \in Keys(Tail(q), S)
                                    \/ Head(q) \in S /\ k = Head(q).seq
<1>1. /\ DOMAIN Tail(q) = 1..(Len(q) - 1)
      /\ DOMAIN q = 1..Len(q)
      /\ Len(q) \in Nat /\ Len(q) > 0
      /\ \A i \in 1..(Len(q) - 1) : Tail(q)[i] = q[i + 1]
      /\ Head(q) = q[1]
  OBVIOUS
<1>2. Head(q) \in S => Head(q).seq \in Keys(q, S)
  BY <1>1 DEF Keys
<1>3. ASSUME Head(q) \in S, NEW R, Sorted(q, S, R), NEW k \in Keys(Tail(q), S)
      PROVE  <<Head(q).seq, k>> \in R
  <2>1. PICK i \in DOMAIN Tail(q) : Tail(q)[i] \in S /\ k = Tail(q)[i].seq
    BY DEF Keys
  <2>2. i + 1 \in DOMAIN q /\ Tail(q)[i] = q[i + 1] /\ 1 < i + 1 /\ 1 \in DOMAIN q
    BY <1>1, <2>1
  <2> QED BY <1>1, <1>3, <2>1, <2>2 DEF Sorted
<1>4. ASSUME NEW k \in Keys(q, S)
      PROVE  k \in Keys(Tail(q), S) \/ (Head(q) \in S /\ k = Head(q).seq)
  <2>1. PICK i \in DOMAIN q : q[i] \in S /\ k = q[i].seq
    BY DEF Keys
  <2>2. CASE i = 1
    BY <1>1, <2>1, <2>2
  <2>3. CASE i # 1
    <3>1. i - 1 \in DOMAIN Tail(q) /\ Tail(q)[i - 1] = q[i]
      BY <1>1, <2>1, <2>3
    <3> QED BY <2>1, <3>1 DEF Keys
  <2> QED BY <2>2, <2>3
<1> QED BY <1>2, <1>3, <1>4

\* What a sequence is with one element taken out.
LEMMA RemovedIs ==
    ASSUME NEW T, NEW q \in Seq(T), NEW i \in DOMAIN q
    PROVE  /\ DOMAIN RemoveAt(q, i) = 1..(Len(q) - 1)
           /\ Len(RemoveAt(q, i)) = Len(q) - 1
           /\ DOMAIN q = 1..Len(q)
           /\ Len(q) \in Nat /\ i \in 1..Len(q)
           /\ \A j \in 1..(Len(q) - 1) :
                 RemoveAt(q, i)[j] = q[IF j < i THEN j ELSE j + 1]
<1> DEFINE p == RemoveAt(q, i)
           At(j) == IF j < i THEN j ELSE j + 1
<1> DEFINE a == SubSeq(q, 1, i - 1)
           b == SubSeq(q, i + 1, Len(q))
<1>1. DOMAIN q = 1..Len(q) /\ Len(q) \in Nat /\ i \in 1..Len(q)
  OBVIOUS
<1>2. /\ a \in Seq(T) /\ Len(a) = i - 1
      /\ \A j \in 1..(i - 1) : a[j] = q[j]
  BY <1>1
<1>3. /\ b \in Seq(T) /\ Len(b) = Len(q) - i
      /\ \A j \in 1..(Len(q) - i) : b[j] = q[j + i]
  BY <1>1
<1>4. p = a \o b
  BY DEF RemoveAt
<1> HIDE DEF a, b, p
<1>5. /\ Len(p) = Len(q) - 1 /\ DOMAIN p = 1..(Len(q) - 1)
      /\ \A j \in 1..(Len(q) - 1) :
            p[j] = IF j < i THEN a[j] ELSE b[j - (i - 1)]
  <2>1. /\ Len(p) = Len(a) + Len(b) /\ DOMAIN p = 1..(Len(a) + Len(b))
        /\ \A j \in 1..(Len(a) + Len(b)) :
              p[j] = IF j <= Len(a) THEN a[j] ELSE b[j - Len(a)]
    <3>1. a \in Seq(T) /\ b \in Seq(T)
      BY <1>2, <1>3
    <3> QED BY <1>4, <3>1, ConcatProperties
  <2> QED BY <1>1, <1>2, <1>3, <2>1
<1>6. ASSUME NEW j \in 1..(Len(q) - 1) PROVE p[j] = q[At(j)]
  <2>1. CASE j < i
    BY <1>1, <1>2, <1>5, <2>1
  <2>2. CASE ~(j < i)
    <3>1. j - (i - 1) \in 1..(Len(q) - i) /\ j - (i - 1) + i = j + 1
      BY <1>1, <2>2
    <3> QED BY <1>3, <1>5, <2>2, <3>1
  <2> QED BY <2>1, <2>2
<1> QED BY <1>1, <1>5, <1>6 DEF p

\* Taking out an item from the middle leaves a part, and the item stays in
\* order, one way or the other, with each of the rest.
LEMMA RemoveKeys ==
    ASSUME NEW T, NEW q \in Seq(T), NEW i \in DOMAIN q, NEW S
    PROVE  /\ Part(RemoveAt(q, i), q, S)
           /\ q[i] \in S =>
                 /\ q[i].seq \in Keys(q, S)
                 /\ \A R : Sorted(q, S, R) =>
                        \A k \in Keys(RemoveAt(q, i), S) :
                            <<q[i].seq, k>> \in R \/ <<k, q[i].seq>> \in R
           /\ \A k \in Keys(q, S) : \/ k \in Keys(RemoveAt(q, i), S)
                                    \/ q[i] \in S /\ k = q[i].seq
<1> DEFINE p == RemoveAt(q, i)
           At(j) == IF j < i THEN j ELSE j + 1
<1>1. /\ DOMAIN p = 1..(Len(q) - 1)
      /\ DOMAIN q = 1..Len(q)
      /\ Len(q) \in Nat /\ i \in 1..Len(q)
      /\ \A j \in 1..(Len(q) - 1) : p[j] = q[At(j)]
  BY RemovedIs
<1> HIDE DEF p
<1>2. ASSUME NEW j \in DOMAIN p
      PROVE  At(j) \in DOMAIN q /\ p[j] = q[At(j)] /\ At(j) # i
  BY <1>1
<1>3. ASSUME NEW j \in DOMAIN q, j # i
      PROVE  \E h \in DOMAIN p : p[h] = q[j]
  <2>1. CASE j < i
    <3>1. j \in DOMAIN p /\ p[j] = q[j]
      BY <1>1, <2>1
    <3> QED BY <3>1
  <2>2. CASE i < j
    <3>1. j - 1 \in DOMAIN p /\ p[j - 1] = q[j]
      BY <1>1, <2>2
    <3> QED BY <3>1
  <2> QED BY <1>1, <1>3, <2>1, <2>2
<1>4. ASSUME NEW k \in Keys(p, S)
      PROVE  \E j \in DOMAIN q : j # i /\ q[j] \in S /\ q[j].seq = k
  <2>1. PICK h \in DOMAIN p : p[h] \in S /\ p[h].seq = k
    BY DEF Keys
  <2>2. At(h) \in DOMAIN q /\ p[h] = q[At(h)] /\ At(h) # i
    BY <1>2
  <2> HIDE DEF At
  <2> QED BY <2>1, <2>2
<1>5. ASSUME NEW R, Sorted(q, S, R) PROVE Sorted(p, S, R)
  <2>1. SUFFICES ASSUME NEW j \in DOMAIN p, NEW h \in DOMAIN p, j < h,
                        p[j] \in S, p[h] \in S
                 PROVE  <<p[j].seq, p[h].seq>> \in R
    BY DEF Sorted
  <2>2. At(j) < At(h)
    BY <1>1, <2>1
  <2>3. /\ At(j) \in DOMAIN q /\ p[j] = q[At(j)]
        /\ At(h) \in DOMAIN q /\ p[h] = q[At(h)]
    BY <1>2
  <2> HIDE DEF At
  <2> QED BY <1>5, <2>1, <2>2, <2>3 DEF Sorted
<1>6. Part(p, q, S)
  <2>1. Keys(p, S) \subseteq Keys(q, S)
    BY <1>4 DEF Keys
  <2> QED BY <1>5, <2>1 DEF Part
<1>7. q[i] \in S => q[i].seq \in Keys(q, S)
  BY DEF Keys
<1>8. ASSUME q[i] \in S, NEW R, Sorted(q, S, R), NEW k \in Keys(p, S)
      PROVE  <<q[i].seq, k>> \in R \/ <<k, q[i].seq>> \in R
  <2>1. PICK j \in DOMAIN q : j # i /\ q[j] \in S /\ q[j].seq = k
    BY <1>4
  <2>2. i < j \/ j < i
    BY <1>1, <2>1
  <2> QED BY <1>8, <2>1, <2>2 DEF Sorted
<1>9. ASSUME NEW k \in Keys(q, S)
      PROVE  k \in Keys(p, S) \/ (q[i] \in S /\ k = q[i].seq)
  <2>1. PICK j \in DOMAIN q : q[j] \in S /\ q[j].seq = k
    BY DEF Keys
  <2>2. CASE j = i
    BY <2>1, <2>2
  <2>3. CASE j # i
    <3>1. PICK h \in DOMAIN p : p[h] = q[j]
      BY <1>3, <2>3
    <3> QED BY <2>1, <3>1 DEF Keys
  <2> QED BY <2>2, <2>3
<1> QED BY <1>6, <1>7, <1>8, <1>9 DEF p

-----------------------------------------------------------------------------
(* The order of a stackline's packets.  A packet is in one of five places,  *)
(* one after the other: a frame that the stackline's blocked send holds, a  *)
(* frame in Airline's queue, a frame in the MAC of its node, a report on    *)
(* its way back, a report read.  What is farther on was submitted earlier,  *)
(* except that a frame the PHY cannot carry overtakes in the MAC.           *)

FramesOf(s) == [src : {s}, dst : Dsts, fits : BOOLEAN, seq : Nat]
DataOf(s)   == [kind : {"data"}, src : {s}, dst : Dsts, seq : Nat]
Reports     == [seq : Nat, status : Statuses]

Told(rep)        == Keys(rep, Reports)
Coming(inb)      == Keys(inb, AckMsgs)
InMac(mc, s)     == Keys(mc, FramesOf(s))
InQueue(al, s)   == Keys(al, FramesOf(s))
InSend(out, s)   == Keys(out, FramesOf(s))

\* Everywhere a packet of s can be.
OnTheWay(rep, inb, mc, al, out, s) ==
    Told(rep) \cup Coming(inb) \cup InMac(mc, s) \cup InQueue(al, s)
        \cup InSend(out, s)

\* R orders the packets of s along the five places.
Line(rep, inb, mc, al, out, s, R) ==
    /\ Sorted(rep, Reports, R)
    /\ Sorted(inb, AckMsgs, R)
    /\ Sorted(mc, FramesOf(s), R)
    /\ Sorted(al, FramesOf(s), R)
    /\ Told(rep) \X Coming(inb) \subseteq R
    /\ (Told(rep) \cup Coming(inb)) \X InMac(mc, s) \subseteq R
    /\ (Told(rep) \cup Coming(inb) \cup InMac(mc, s)) \X InQueue(al, s) \subseteq R
    /\ (Told(rep) \cup Coming(inb) \cup InMac(mc, s) \cup InQueue(al, s))
           \X InSend(out, s) \subseteq R

\* Queues that lose items, and later submissions, leave the rest in order.
LEMMA LineShrinks ==
    ASSUME NEW s, NEW R, NEW R2, R \subseteq R2,
           NEW rep, NEW inb, NEW mc, NEW al, NEW out,
           NEW rep2, NEW inb2, NEW mc2, NEW al2, NEW out2,
           Line(rep, inb, mc, al, out, s, R),
           Part(rep2, rep, Reports), Part(inb2, inb, AckMsgs),
           Part(mc2, mc, FramesOf(s)), Part(al2, al, FramesOf(s)),
           Part(out2, out, FramesOf(s))
    PROVE  Line(rep2, inb2, mc2, al2, out2, s, R2)
<1>1. ASSUME NEW p, NEW q, NEW S, Part(p, q, S), Sorted(q, S, R)
      PROVE  Sorted(p, S, R2)
  <2>1. Sorted(p, S, R)
    BY <1>1 DEF Part
  <2> QED BY <2>1 DEF Sorted
<1>2. /\ Sorted(rep2, Reports, R2)
      /\ Sorted(inb2, AckMsgs, R2)
      /\ Sorted(mc2, FramesOf(s), R2)
      /\ Sorted(al2, FramesOf(s), R2)
  BY <1>1 DEF Line
<1>3. /\ Told(rep2) \subseteq Told(rep)
      /\ Coming(inb2) \subseteq Coming(inb)
      /\ InMac(mc2, s) \subseteq InMac(mc, s)
      /\ InQueue(al2, s) \subseteq InQueue(al, s)
      /\ InSend(out2, s) \subseteq InSend(out, s)
  BY DEF Part, Told, Coming, InMac, InQueue, InSend
<1>4. Told(rep2) \X Coming(inb2) \subseteq R2
  BY <1>3 DEF Line
<1>5. (Told(rep2) \cup Coming(inb2)) \X InMac(mc2, s) \subseteq R2
  BY <1>3 DEF Line
<1>6. (Told(rep2) \cup Coming(inb2) \cup InMac(mc2, s)) \X InQueue(al2, s)
          \subseteq R2
  BY <1>3 DEF Line
<1>7. (Told(rep2) \cup Coming(inb2) \cup InMac(mc2, s) \cup InQueue(al2, s))
           \X InSend(out2, s) \subseteq R2
  BY <1>3 DEF Line
<1> QED BY <1>2, <1>4, <1>5, <1>6, <1>7 DEF Line

\* A frame submitted last goes to the end of Airline's queue.
LEMMA LineQueues ==
    ASSUME NEW s, NEW R, NEW R2, R \subseteq R2,
           NEW rep, NEW inb, NEW mc, NEW al \in Seq(Frames),
           Line(rep, inb, mc, al, <<>>, s, R),
           NEW x \in Frames, x \in FramesOf(s),
           OnTheWay(rep, inb, mc, al, <<>>, s) \X {x.seq} \subseteq R2
    PROVE  Line(rep, inb, mc, Append(al, x), <<>>, s, R2)
<1>1. Part(rep, rep, Reports) /\ Part(inb, inb, AckMsgs) /\ Part(mc, mc, FramesOf(s))
      /\ Part(<<>>, <<>>, FramesOf(s)) /\ Part(al, al, FramesOf(s))
  BY DEF Part
<1>2. Line(rep, inb, mc, al, <<>>, s, R2)
  BY <1>1, LineShrinks
<1>3. InQueue(Append(al, x), s) = InQueue(al, s) \cup {x.seq}
  BY AppendKeys DEF InQueue
<1>4. Sorted(Append(al, x), FramesOf(s), R2)
  <2>1. Keys(al, FramesOf(s)) \X {x.seq} \subseteq R2
    BY DEF OnTheWay, InQueue
  <2>2. Sorted(al, FramesOf(s), R2)
    BY <1>2 DEF Line
  <2> QED BY <2>1, <2>2, AppendKeys
<1>5. InSend(<<>>, s) = {}
  BY DEF InSend, Keys
<1>6. (Told(rep) \cup Coming(inb) \cup InMac(mc, s)) \X InQueue(Append(al, x), s)
          \subseteq R2
  BY <1>2, <1>3 DEF Line, OnTheWay
<1>7. (Told(rep) \cup Coming(inb) \cup InMac(mc, s) \cup InQueue(Append(al, x), s))
           \X InSend(<<>>, s) \subseteq R2
  BY <1>5
<1> QED BY <1>2, <1>4, <1>6, <1>7 DEF Line

\* ... or, when there is no room, into the send that waits.
LEMMA LineHolds ==
    ASSUME NEW s, NEW R, NEW R2, R \subseteq R2,
           NEW rep, NEW inb, NEW mc, NEW al,
           Line(rep, inb, mc, al, <<>>, s, R),
           NEW x, x \in FramesOf(s),
           OnTheWay(rep, inb, mc, al, <<>>, s) \X {x.seq} \subseteq R2
    PROVE  Line(rep, inb, mc, al, <<x>>, s, R2)
<1>1. Part(rep, rep, Reports) /\ Part(inb, inb, AckMsgs) /\ Part(mc, mc, FramesOf(s))
      /\ Part(<<>>, <<>>, FramesOf(s)) /\ Part(al, al, FramesOf(s))
  BY DEF Part
<1>2. Line(rep, inb, mc, al, <<>>, s, R2)
  BY <1>1, LineShrinks
<1>3. InSend(<<x>>, s) \subseteq {x.seq}
  BY DEF InSend, Keys
<1>4. (Told(rep) \cup Coming(inb) \cup InMac(mc, s) \cup InQueue(al, s))
           \X InSend(<<x>>, s) \subseteq R2
  BY <1>3 DEF OnTheWay
<1> QED BY <1>2, <1>4 DEF Line

\* The send that waited completes.
LEMMA LineUnblocks ==
    ASSUME NEW s, NEW R, NEW rep, NEW inb, NEW mc, NEW al \in Seq(Frames),
           NEW out \in Seq(Frames), out # <<>>, Head(out) \in FramesOf(s),
           Line(rep, inb, mc, al, out, s, R)
    PROVE  Line(rep, inb, mc, Append(al, Head(out)), <<>>, s, R)
<1>1. Part(rep, rep, Reports) /\ Part(inb, inb, AckMsgs) /\ Part(mc, mc, FramesOf(s))
      /\ Part(<<>>, out, FramesOf(s)) /\ Part(al, al, FramesOf(s))
  BY PartKept DEF Part
<1>2. Line(rep, inb, mc, al, <<>>, s, R)
  BY <1>1, LineShrinks
<1>3. Head(out).seq \in InSend(out, s)
  BY HeadKeys DEF InSend
<1>4. InSend(<<>>, s) = {}
  BY DEF InSend, Keys
<1>5. OnTheWay(rep, inb, mc, al, <<>>, s) \X {Head(out).seq} \subseteq R
  BY <1>3, <1>4 DEF OnTheWay, Line
<1> QED BY <1>2, <1>5, LineQueues

\* msgReader hands the first frame of Airline's queue to the MAC.
LEMMA LineTransmits ==
    ASSUME NEW s, NEW R, NEW rep, NEW inb, NEW mc \in Seq(Frames),
           NEW al \in Seq(Frames), NEW out, al # <<>>, Head(al) \in FramesOf(s),
           Line(rep, inb, mc, al, out, s, R)
    PROVE  Line(rep, inb, Append(mc, Head(al)), Tail(al), out, s, R)
<1> DEFINE k == Head(al).seq
<1>1. /\ k \in InQueue(al, s)
      /\ {k} \X InQueue(Tail(al), s) \subseteq R
  BY HeadKeys DEF InQueue, Line
<1>2. /\ InQueue(Tail(al), s) \subseteq InQueue(al, s)
      /\ Sorted(Tail(al), FramesOf(s), R)
  BY PartKept DEF Part, InQueue, Line
<1>3. Head(al) \in Frames
  OBVIOUS
<1>4. InMac(Append(mc, Head(al)), s) = InMac(mc, s) \cup {k}
  BY <1>3, AppendKeys DEF InMac
<1>5. Sorted(Append(mc, Head(al)), FramesOf(s), R)
  <2>1. Keys(mc, FramesOf(s)) \X {Head(al).seq} \subseteq R
    BY <1>1 DEF Line, InMac
  <2>2. Sorted(mc, FramesOf(s), R)
    BY DEF Line
  <2> QED BY <1>3, <2>1, <2>2, AppendKeys
<1> HIDE DEF k
<1>6. (Told(rep) \cup Coming(inb)) \X InMac(Append(mc, Head(al)), s) \subseteq R
  BY <1>1, <1>4 DEF Line
<1>7. (Told(rep) \cup Coming(inb) \cup InMac(Append(mc, Head(al)), s))
          \X InQueue(Tail(al), s) \subseteq R
  BY <1>1, <1>2, <1>4 DEF Line
<1>8. (Told(rep) \cup Coming(inb) \cup InMac(Append(mc, Head(al)), s)
           \cup InQueue(Tail(al), s)) \X InSend(out, s) \subseteq R
  BY <1>1, <1>2, <1>4 DEF Line
<1> QED BY <1>2, <1>5, <1>6, <1>7, <1>8 DEF Line

\* The MAC is done with a frame that precedes those it keeps: its report joins
\* the queue of the stackline.
LEMMA LineReports ==
    ASSUME NEW s, NEW R, NEW rep, NEW inb \in Seq(ToStack), NEW mc, NEW al,
           NEW out, NEW mc2, NEW a \in AckMsgs,
           Line(rep, inb, mc, al, out, s, R),
           Part(mc2, mc, FramesOf(s)),
           a.seq \in InMac(mc, s),
           {a.seq} \X InMac(mc2, s) \subseteq R
    PROVE  Line(rep, Append(inb, a), mc2, al, out, s, R)
<1>1. a \in ToStack
  BY DEF ToStack
<1>2. Coming(Append(inb, a)) = Coming(inb) \cup {a.seq}
  BY <1>1, AppendKeys DEF Coming
<1>3. Sorted(Append(inb, a), AckMsgs, R)
  <2>1. Keys(inb, AckMsgs) \X {a.seq} \subseteq R
    BY DEF Line, Coming
  <2> QED BY <1>1, <2>1, AppendKeys DEF Line
<1>4. InMac(mc2, s) \subseteq InMac(mc, s) /\ Sorted(mc2, FramesOf(s), R)
  BY DEF Part, InMac, Line
<1>5. Told(rep) \X Coming(Append(inb, a)) \subseteq R
  BY <1>2 DEF Line
<1>6. (Told(rep) \cup Coming(Append(inb, a))) \X InMac(mc2, s) \subseteq R
  BY <1>2, <1>4 DEF Line
<1>7. (Told(rep) \cup Coming(Append(inb, a)) \cup InMac(mc2, s)) \X InQueue(al, s)
          \subseteq R
  BY <1>2, <1>4 DEF Line
<1>8. (Told(rep) \cup Coming(Append(inb, a)) \cup InMac(mc2, s) \cup InQueue(al, s))
           \X InSend(out, s) \subseteq R
  BY <1>2, <1>4 DEF Line
<1> QED BY <1>3, <1>4, <1>5, <1>6, <1>7, <1>8 DEF Line

\* The stackline reads the first message of its queue, a report.
LEMMA LineReads ==
    ASSUME NEW s, NEW R, NEW rep \in Seq(Reports), NEW inb \in Seq(ToStack),
           NEW mc, NEW al, NEW out, NEW p \in Reports,
           inb # <<>>, Head(inb) \in AckMsgs, p.seq = Head(inb).seq,
           Line(rep, inb, mc, al, out, s, R)
    PROVE  Line(Append(rep, p), Tail(inb), mc, al, out, s, R)
<1>1. /\ p.seq \in Coming(inb)
      /\ {p.seq} \X Coming(Tail(inb)) \subseteq R
  BY HeadKeys DEF Coming, Line
<1>2. /\ Coming(Tail(inb)) \subseteq Coming(inb)
      /\ Sorted(Tail(inb), AckMsgs, R)
  BY PartKept DEF Part, Coming, Line
<1>3. Told(Append(rep, p)) = Told(rep) \cup {p.seq}
  BY AppendKeys DEF Told
<1>4. Sorted(Append(rep, p), Reports, R)
  <2>1. Keys(rep, Reports) \X {p.seq} \subseteq R
    BY <1>1 DEF Line, Told
  <2> QED BY <2>1, AppendKeys DEF Line
<1>5. Told(Append(rep, p)) \X Coming(Tail(inb)) \subseteq R
  BY <1>1, <1>2, <1>3 DEF Line
<1>6. (Told(Append(rep, p)) \cup Coming(Tail(inb))) \X InMac(mc, s) \subseteq R
  BY <1>1, <1>2, <1>3 DEF Line
<1>7. (Told(Append(rep, p)) \cup Coming(Tail(inb)) \cup InMac(mc, s))
          \X InQueue(al, s) \subseteq R
  BY <1>1, <1>2, <1>3 DEF Line
<1>8. (Told(Append(rep, p)) \cup Coming(Tail(inb)) \cup InMac(mc, s)
           \cup InQueue(al, s)) \X InSend(out, s) \subseteq R
  BY <1>1, <1>2, <1>3 DEF Line
<1> QED BY <1>2, <1>4, <1>5, <1>6, <1>7, <1>8 DEF Line

-----------------------------------------------------------------------------
(* The five places in the state of the system.                              *)

\* What is on its way to a stackline: what its socket holds, and the message
\* Airline waits to send to it.
Inbox == [r \in Stacks |->
             IF alOut # <<>> /\ Head(alOut).to = r
             THEN Append(slq[r], Head(alOut).msg) ELSE slq[r]]

\* A stackline that is no node has no MAC.
MacOf == [s \in Stacks |-> IF s \in Nodes THEN mac[s] ELSE <<>>]

\* Two packets of a stackline: different, and in order when both fit the PHY.
Earlier == [s \in Stacks |->
    {p \in (DOMAIN sent[s]) \X (DOMAIN sent[s]) :
        /\ p[1] # p[2]
        /\ sent[s][p[1]].fits /\ sent[s][p[2]].fits => p[1] < p[2]}]

\* Frames that say what was submitted, of anybody and of one stackline, and
\* those that msgReader accepts.
AsSent  == {f \in Frames : /\ f.seq \in DOMAIN sent[f.src]
                           /\ sent[f.src][f.seq] = [dst |-> f.dst, fits |-> f.fits]}
SentBy  == [s \in Stacks |-> {f \in AsSent : f.src = s}]
TakenBy == [n \in Nodes |-> {f \in AsSent : f.src = n /\ Acceptable(f)}]

\* The packets of a stackline that are to be reported.
ToReport == [s \in Stacks |-> {k \in DOMAIN sent[s] : Reportable(s, k)}]

\* Messages and reports that say what happened to a packet.
AckFor == [s \in Stacks |->
    {m \in AckMsgs : /\ m.src = s
                     /\ m.seq \in ToReport[s]
                     /\ (m.status = "FATAL") <=> ~sent[s][m.seq].fits}]

DataFor == [r \in Stacks |->
    {m \in DataMsgs : /\ m.src # r
                      /\ m.seq \in DOMAIN sent[m.src]
                      /\ sent[m.src][m.seq] = [dst |-> m.dst, fits |-> TRUE]
                      /\ Acceptable(m)
                      /\ Addressed(m, r)}]

ReportFor == [s \in Stacks |->
    {p \in Reports : /\ p.seq \in ToReport[s]
                     /\ (p.status = "FATAL") <=> ~sent[s][p.seq].fits}]

GotFor == {p \in Stacks \X Nat : p[2] \in DOMAIN sent[p[1]] /\ sent[p[1]][p[2]].fits}

\* Frames on the way are what stacklines submitted, and the MAC of a node has
\* only frames of its stackline.
Genuine ==
    /\ alq \in Seq(AsSent)
    /\ \A s \in Stacks : slOut[s] \in Seq(SentBy[s])
    /\ \A n \in Nodes : mac[n] \in Seq(TakenBy[n])

\* Nothing on the way is about a packet that was not submitted, or says
\* something of it that is not so; a stackline not started has sent nothing.
Truthful ==
    /\ Genuine
    /\ \A r \in Stacks : Inbox[r] \in Seq(AckFor[r] \cup DataFor[r])
    /\ \A s \in Stacks : reports[s] \in Seq(ReportFor[s])
    /\ \A r \in Stacks : got[r] \subseteq GotFor
    /\ \A s \in Stacks : stack[s] = "new" => sent[s] = <<>>

InOrder == \A s \in Stacks :
    Line(reports[s], Inbox[s], MacOf[s], alq, slOut[s], s, Earlier[s])

\* Submissions are only ever added.
Grows == \A s \in Stacks : /\ DOMAIN sent[s] \subseteq DOMAIN sent'[s]
                           /\ \A k \in DOMAIN sent[s] : sent'[s][k] = sent[s][k]

LEMMA SubmitGrows ==
    ASSUME TypeOK, NEW s \in Stacks, StackSend(s)
    PROVE  Grows
<1>1. PICK p : sent' = [sent EXCEPT ![s] = Append(@, p)]
  BY DEF StackSend
<1>2. sent[s] \in Seq(Packets)
  BY DEF TypeOK
<1>3. /\ DOMAIN sent[s] \subseteq DOMAIN Append(sent[s], p)
      /\ \A k \in DOMAIN sent[s] : Append(sent[s], p)[k] = sent[s][k]
  BY <1>2
<1>4. \A u \in Stacks : u # s => sent'[u] = sent[u]
  BY <1>1 DEF TypeOK
<1>5. sent'[s] = Append(sent[s], p)
  BY <1>1 DEF TypeOK
<1> QED BY <1>3, <1>4, <1>5 DEF Grows

LEMMA TruthStands ==
    ASSUME Grows
    PROVE  /\ \A s \in Stacks : Earlier[s] \subseteq Earlier'[s]
           /\ AsSent \subseteq AsSent'
           /\ \A s \in Stacks : SentBy[s] \subseteq SentBy'[s]
           /\ \A n \in Nodes : TakenBy[n] \subseteq TakenBy'[n]
           /\ \A s \in Stacks : ToReport[s] \subseteq ToReport'[s]
           /\ \A s \in Stacks : AckFor[s] \subseteq AckFor'[s]
           /\ \A s \in Stacks : DataFor[s] \subseteq DataFor'[s]
           /\ \A s \in Stacks : ReportFor[s] \subseteq ReportFor'[s]
           /\ GotFor \subseteq GotFor'
<1>1. \A s \in Stacks : Earlier[s] \subseteq Earlier'[s]
  BY DEF Grows, Earlier
<1>2. AsSent \subseteq AsSent'
  BY DEF Grows, AsSent, Frames
<1>3. \A s \in Stacks : SentBy[s] \subseteq SentBy'[s]
  BY <1>2 DEF SentBy
<1>4. \A n \in Nodes : TakenBy[n] \subseteq TakenBy'[n]
  BY <1>2 DEF TakenBy, Acceptable
<1>5. \A s \in Stacks : ToReport[s] \subseteq ToReport'[s]
  BY DEF Grows, ToReport, Reportable, Service!Reportable, Service!Accepted
<1>6. \A s \in Stacks : ToReport[s] \subseteq DOMAIN sent[s]
  BY DEF ToReport
<1>7. \A s \in Stacks : AckFor[s] \subseteq AckFor'[s]
  BY <1>5, <1>6 DEF AckFor, Grows
<1>8. \A s \in Stacks : DataFor[s] \subseteq DataFor'[s]
  BY DEF DataFor, Grows, DataMsgs, Acceptable, Addressed
<1>9. \A s \in Stacks : ReportFor[s] \subseteq ReportFor'[s]
  BY <1>5, <1>6 DEF ReportFor, Grows
<1>10. GotFor \subseteq GotFor'
  BY DEF GotFor, Grows
<1> QED BY <1>1, <1>2, <1>3, <1>4, <1>5, <1>7, <1>8, <1>9, <1>10

LEMMA OutIs ==
    ASSUME TypeOK, alOut # <<>>
    PROVE  Head(alOut).msg \in ToStack
<1>1. Head(alOut) \in OutMsgs
  BY DEF TypeOK
<1> QED BY <1>1 DEF OutMsgs

\* What a send of Airline does to the inboxes, and what its end does.
LEMMA InboxSends ==
    ASSUME TypeOK, alOut = <<>>, NEW to \in Nodes, NEW m \in ToStack,
           SendToStackline(to, m)
    PROVE  \/ Bound(to) /\ Inbox' = [Inbox EXCEPT ![to] = Append(@, m)]
           \/ ~Bound(to) /\ Inbox' = Inbox
<1>1. CASE ~Bound(to)
  BY <1>1 DEF SendToStackline, Inbox
<1>2. CASE Bound(to) /\ slq' = [slq EXCEPT ![to] = Append(@, m)] /\ alOut' = alOut
  BY <1>2 DEF Inbox, Bound, TypeOK
<1>3. CASE Bound(to) /\ alOut' = <<[to |-> to, msg |-> m]>> /\ slq' = slq
  <2>1. alOut' # <<>> /\ Head(alOut') = [to |-> to, msg |-> m]
    BY <1>3
  <2>2. to \in Stacks /\ Inbox = slq
    BY <1>3 DEF Inbox, Bound, TypeOK
  <2>3. \A r \in Stacks :
           Inbox'[r] = IF r = to THEN Append(slq[r], m) ELSE slq[r]
    BY <1>3, <2>1 DEF Inbox
  <2>4. Inbox' = [Inbox EXCEPT ![to] = Append(@, m)]
    BY <2>2, <2>3 DEF Inbox
  <2> QED BY <1>3, <2>4
<1> QED BY <1>1, <1>2, <1>3 DEF SendToStackline

LEMMA InboxWaits ==
    ASSUME TypeOK, AirlineUnblock
    PROVE  \/ Inbox' = Inbox
           \/ \E to \in Stacks, m \in ToStack :
                 /\ stack[to] # "up"
                 /\ Inbox[to] = Append(slq[to], m)
                 /\ Inbox' = [Inbox EXCEPT ![to] = slq[to]]
<1> DEFINE o == Head(alOut)
<1>1. alOut # <<>> /\ alOut' = <<>>
  BY DEF AirlineUnblock
<1>2. o.msg \in ToStack
  BY <1>1, OutIs
<1>3. CASE Bound(o.to) /\ slq' = [slq EXCEPT ![o.to] = Append(@, o.msg)]
  BY <1>1, <1>3 DEF Inbox, Bound, TypeOK
<1>4. CASE ~Bound(o.to) /\ slq' = slq
  <2>1. CASE o.to \in Stacks
    <3>1. /\ Inbox[o.to] = Append(slq[o.to], o.msg)
          /\ Inbox' = [Inbox EXCEPT ![o.to] = slq[o.to]]
      BY <1>1, <1>4, <2>1 DEF Inbox
    <3> QED BY <1>2, <1>4, <2>1, <3>1 DEF Bound
  <2>2. CASE o.to \notin Stacks
    BY <1>1, <1>4, <2>2 DEF Inbox
  <2> QED BY <2>1, <2>2
<1> QED BY <1>3, <1>4 DEF AirlineUnblock

LEMMA InboxRead ==
    ASSUME TypeOK, NEW s \in Stacks, StackRecv(s)
    PROVE  /\ Inbox[s] # <<>>
           /\ Head(Inbox[s]) = Head(slq[s])
           /\ Inbox' = [Inbox EXCEPT ![s] = Tail(@)]
<1> DEFINE o == Head(alOut)
<1>1. /\ slq[s] # <<>> /\ slq[s] \in Seq(ToStack)
      /\ slq' = [slq EXCEPT ![s] = Tail(@)]
      /\ alOut' = alOut
  BY DEF StackRecv, TypeOK
<1>2. ASSUME NEW m \in ToStack
      PROVE  /\ Append(slq[s], m) # <<>>
             /\ Head(Append(slq[s], m)) = Head(slq[s])
             /\ Tail(Append(slq[s], m)) = Append(Tail(slq[s]), m)
  BY <1>1
<1>3. alOut # <<>> => o.msg \in ToStack
  BY OutIs
<1>4. \A r \in Stacks : slq'[r] = IF r = s THEN Tail(slq[s]) ELSE slq[r]
  BY <1>1 DEF TypeOK
<1>5. Inbox[s] # <<>> /\ Head(Inbox[s]) = Head(slq[s])
  BY <1>1, <1>2, <1>3 DEF Inbox
<1>6. \A r \in Stacks : Inbox'[r] = IF r = s THEN Tail(Inbox[s]) ELSE Inbox[r]
  <2>1. \A r \in Stacks : Inbox'[r] =
            IF alOut # <<>> /\ o.to = r THEN Append(slq'[r], o.msg) ELSE slq'[r]
    BY <1>1 DEF Inbox
  <2>2. Tail(Inbox[s]) =
            IF alOut # <<>> /\ o.to = s THEN Append(Tail(slq[s]), o.msg)
                                        ELSE Tail(slq[s])
    BY <1>2, <1>3 DEF Inbox
  <2> QED BY <1>4, <2>1, <2>2 DEF Inbox
<1> QED BY <1>5, <1>6 DEF Inbox

LEMMA InboxDies ==
    ASSUME TypeOK, NEW s \in Stacks, StackDie(s)
    PROVE  /\ \A r \in Stacks \ {s} : Inbox'[r] = Inbox[r]
           /\ \/ Inbox'[s] = <<>>
              \/ \E m \in ToStack : /\ Inbox'[s] = <<m>>
                                    /\ Inbox[s] = Append(slq[s], m)
<1>1. /\ slq' = [slq EXCEPT ![s] = <<>>] /\ alOut' = alOut
  BY DEF StackDie
<1>2. alOut # <<>> => Head(alOut).msg \in ToStack
  BY OutIs
<1>3. slq'[s] = <<>> /\ \A r \in Stacks \ {s} : slq'[r] = slq[r]
  BY <1>1 DEF TypeOK
<1>4. \A r \in Stacks \ {s} : Inbox'[r] = Inbox[r]
  BY <1>1, <1>3 DEF Inbox
<1>5. CASE alOut # <<>> /\ Head(alOut).to = s
  <2>1. Inbox'[s] = Append(<<>>, Head(alOut).msg)
    BY <1>1, <1>3, <1>5 DEF Inbox
  <2>2. Append(<<>>, Head(alOut).msg) = <<Head(alOut).msg>>
    OBVIOUS
  <2>3. Inbox[s] = Append(slq[s], Head(alOut).msg)
    BY <1>5 DEF Inbox
  <2> QED BY <1>2, <1>4, <1>5, <2>1, <2>2, <2>3
<1>6. CASE ~(alOut # <<>> /\ Head(alOut).to = s)
  BY <1>1, <1>3, <1>4, <1>6 DEF Inbox
<1> QED BY <1>5, <1>6

\* The outcome of frame f of node n reaches the inbox of its stackline, or has
\* nobody to reach.
Confirmed(n, f) ==
    \/ f.dst = BCAST /\ Inbox' = Inbox
    \/ stack[n] # "up" /\ Inbox' = Inbox
    \/ \E a \in AckFor[n] : /\ a.seq = f.seq
                            /\ Inbox' = [Inbox EXCEPT ![n] = Append(@, a)]

\* The MAC of node n gives up frame f and keeps the frames mc, which come
\* after f or are out of order with it.
Leaves(n, f, mc) ==
    /\ mac' = [mac EXCEPT ![n] = mc]
    /\ Part(mc, mac[n], FramesOf(n))
    /\ f.seq \in InMac(mac[n], n)
    /\ {f.seq} \X InMac(mc, n) \subseteq Earlier[n]
    /\ \A k \in InMac(mac[n], n) : k \in InMac(mc, n) \/ k = f.seq

LEMMA TakenFrame ==
    ASSUME NEW n \in Nodes, NEW f \in TakenBy[n]
    PROVE  /\ n \in Stacks
           /\ f \in Frames
           /\ f.src = n
           /\ f \in FramesOf(n)
           /\ f.seq \in DOMAIN sent[n]
           /\ sent[n][f.seq].dst = f.dst
           /\ sent[n][f.seq].fits = f.fits
           /\ Service!Accepted(n, f.seq)
           /\ Acceptable(f)
<1>1. f \in AsSent /\ f.src = n /\ Acceptable(f)
  BY DEF TakenBy
<1>2. f \in Frames /\ f.src \in Stacks
  BY <1>1 DEF AsSent, Frames
<1>3. f \in FramesOf(n)
  BY <1>1, <1>2 DEF Frames, FramesOf
<1>4. /\ f.seq \in DOMAIN sent[n]
      /\ sent[n][f.seq].dst = f.dst
      /\ sent[n][f.seq].fits = f.fits
  BY <1>1 DEF AsSent
<1>5. Service!Accepted(n, f.seq)
  BY <1>1, <1>4 DEF Service!Accepted, Acceptable, IN_RANGE, Service!IN_RANGE,
     CL_DSTID_MACHDR_PRESENT, Service!CL_DSTID_MACHDR_PRESENT
<1> QED BY <1>1, <1>2, <1>3, <1>4, <1>5

\* An ACK message about a frame that was not broadcast, whatever its outcome
\* was, reaches the sender of the frame.
LEMMA AckTells ==
    ASSUME TypeOK, alOut = <<>>, NEW n \in Nodes, NEW f \in TakenBy[n],
           f.dst # BCAST, NEW a \in AckMsgs, a.src = n, a.seq = f.seq,
           (a.status = "FATAL") <=> ~f.fits, SendToStackline(n, a)
    PROVE  Confirmed(n, f)
<1>1. n \in Stacks /\ sent[n][f.seq].fits = f.fits
  BY TakenFrame
<1>2. f.seq \in ToReport[n]
  <2>1. sent[n][f.seq].dst # BCAST
    BY TakenFrame
  <2> QED
    BY <1>1, <2>1, TakenFrame
    DEF ToReport, Reportable, Service!Reportable, BCAST, Service!BCAST
<1>3. a \in AckFor[n]
  BY <1>1, <1>2 DEF AckFor
<1>4. \/ Bound(n) /\ Inbox' = [Inbox EXCEPT ![n] = Append(@, a)]
      \/ ~Bound(n) /\ Inbox' = Inbox
  BY InboxSends DEF ToStack
<1> QED BY <1>1, <1>3, <1>4 DEF Confirmed, Bound

LEMMA ConfirmTells ==
    ASSUME TypeOK, alOut = <<>>, NEW n \in Nodes, NEW f \in TakenBy[n],
           NEW st \in MacStatuses, (st = "FRAME_TOO_LONG") <=> ~f.fits,
           DataConfirm(n, f, st)
    PROVE  Confirmed(n, f)
<1> DEFINE status  == wf_ack_status(st)
           retries == IF status = "ACK_OK" THEN tries[n] + 1 ELSE 0
           ack     == [kind |-> "ack", src |-> n, dst |-> f.dst, seq |-> f.seq,
                       status |-> status, retries |-> retries]
<1>1. status \in Statuses /\ (status = "FATAL" <=> st = "FRAME_TOO_LONG")
  BY DEF wf_ack_status, MacStatuses, Statuses
<1>2. retries \in Nat
  BY DataPlaneAssumption DEF TypeOK
<1>3. CASE f.dst = BCAST /\ UNCHANGED <<stats, alOut, slq, refused>>
  BY <1>3 DEF Confirmed, Inbox
<1>4. CASE f.dst # BCAST /\ SendToStackline(n, ack)
  <2>1. f \in Frames
    BY TakenFrame
  <2>2. ack \in AckMsgs
    BY <1>1, <1>2, <2>1, DataPlaneAssumption DEF AckMsgs, Frames
  <2>3. ack.src = n /\ ack.seq = f.seq /\ ack.status = status
    OBVIOUS
  <2> HIDE DEF ack, status
  <2> QED BY <1>1, <1>4, <2>2, <2>3, AckTells
<1> QED BY <1>3, <1>4 DEF DataConfirm, SendAckToStackline

\* The first frame of a MAC's queue may leave it.
LosesHead(n) == mac[n] # <<>> /\ mac' = [mac EXCEPT ![n] = Tail(@)]

HeadGoes(n) ==
    /\ Head(mac[n]) \in TakenBy[n]
    /\ Tail(mac[n]) \in Seq(TakenBy[n])
    /\ Leaves(n, Head(mac[n]), Tail(mac[n]))

LEMMA HeadLeaves ==
    ASSUME TypeOK, Genuine, InOrder, NEW n \in Nodes, LosesHead(n)
    PROVE  HeadGoes(n)
<1> DEFINE f == Head(mac[n])
           mc == Tail(mac[n])
<1>1. mac[n] \in Seq(TakenBy[n]) /\ mac[n] # <<>>
  BY DEF Genuine, LosesHead
<1>2. f \in TakenBy[n] /\ mc \in Seq(TakenBy[n])
  BY <1>1, SeqTyped
<1>3. n \in Stacks /\ f \in FramesOf(n)
  BY <1>2, TakenFrame
<1>4. Sorted(mac[n], FramesOf(n), Earlier[n])
  BY <1>3 DEF InOrder, Line, MacOf
<1>5. Part(mc, mac[n], FramesOf(n))
  BY <1>1, PartKept
<1>6. /\ f.seq \in InMac(mac[n], n)
      /\ {f.seq} \X InMac(mc, n) \subseteq Earlier[n]
      /\ \A k \in InMac(mac[n], n) : k \in InMac(mc, n) \/ k = f.seq
  BY <1>1, <1>3, <1>4, HeadKeys DEF InMac
<1>7. Leaves(n, f, mc)
  BY <1>5, <1>6 DEF Leaves, LosesHead
<1> QED BY <1>2, <1>7 DEF HeadGoes

LEMMA DoneLeaves ==
    ASSUME TypeOK, Genuine, InOrder, NEW n \in Nodes,
           NEW st \in MacStatuses, MacDone(n, st)
    PROVE  \E f \in TakenBy[n], mc \in Seq(TakenBy[n]) :
              Leaves(n, f, mc) /\ Confirmed(n, f)
<1> DEFINE f == Head(mac[n])
           mc == Tail(mac[n])
<1>1. f \in TakenBy[n] /\ mc \in Seq(TakenBy[n]) /\ Leaves(n, f, mc)
  BY HeadLeaves DEF MacDone, LosesHead, HeadGoes
<1>2. (st = "FRAME_TOO_LONG") <=> ~f.fits
  BY DEF MacDone, Outcome
<1>3. Confirmed(n, f)
  BY <1>1, <1>2, ConfirmTells DEF MacDone, Idle
<1> QED BY <1>1, <1>3

LEMMA RejectLeaves ==
    ASSUME TypeOK, Genuine, InOrder, NEW n \in Nodes,
           NEW i \in DOMAIN mac[n], MacReject(n, i)
    PROVE  \E f \in TakenBy[n], mc \in Seq(TakenBy[n]) :
              Leaves(n, f, mc) /\ Confirmed(n, f)
<1> DEFINE f == mac[n][i]
           mc == RemoveAt(mac[n], i)
<1>1. mac[n] \in Seq(TakenBy[n])
  BY DEF Genuine
<1>2. f \in TakenBy[n] /\ mc \in Seq(TakenBy[n])
  BY <1>1, RemoveAtTyped
<1>3. n \in Stacks /\ f \in FramesOf(n) /\ sent[n][f.seq].fits = f.fits
  BY <1>2, TakenFrame
<1>4. Sorted(mac[n], FramesOf(n), Earlier[n])
  BY <1>3 DEF InOrder, Line, MacOf
<1>5. Part(mc, mac[n], FramesOf(n))
  BY <1>1, RemoveKeys
<1>6. /\ f.seq \in InMac(mac[n], n)
      /\ \A k \in InMac(mac[n], n) : k \in InMac(mc, n) \/ k = f.seq
  BY <1>1, <1>3, RemoveKeys DEF InMac
<1>7. ~f.fits
  BY DEF MacReject
<1>8. ASSUME NEW k \in InMac(mc, n)
      PROVE  <<f.seq, k>> \in Earlier[n]
  <2>1. <<f.seq, k>> \in Earlier[n] \/ <<k, f.seq>> \in Earlier[n]
    BY <1>1, <1>3, <1>4, RemoveKeys DEF InMac
  <2> HIDE DEF f
  <2> QED BY <1>3, <1>7, <2>1 DEF Earlier
<1>9. Leaves(n, f, mc)
  <2>1. {f.seq} \X InMac(mc, n) \subseteq Earlier[n]
    BY <1>8
  <2> QED BY <1>5, <1>6, <2>1 DEF Leaves, MacReject
<1>10. Confirmed(n, f)
  <2>1. "FRAME_TOO_LONG" \in MacStatuses
    BY DEF MacStatuses
  <2> QED BY <1>2, <1>7, <2>1, ConfirmTells DEF MacReject, Idle
<1> QED BY <1>2, <1>9, <1>10

\* The frame on the air of node n reaches the inbox of node r's stackline, if
\* there is one.
PassesUp(n, r) ==
    /\ n \in Stacks
    /\ mac[n] # <<>>
    /\ \/ Inbox' = Inbox
       \/ \E d \in DataMsgs :
             /\ r \in Stacks
             /\ d \in DataFor[r]
             /\ d.src = n
             /\ d.seq = Head(mac[n]).seq
             /\ Inbox' = [Inbox EXCEPT ![r] = Append(@, d)]
    /\ UNCHANGED <<stack, sent, slOut, alq, mac, got, reports>>

\* The MAC of node n is done with a frame, and its outcome is on the way.
Finishes(n) ==
    /\ \E f \in TakenBy[n], mc \in Seq(TakenBy[n]) :
          Leaves(n, f, mc) /\ Confirmed(n, f)
    /\ UNCHANGED <<stack, sent, slOut, alq, got, reports>>

\* A data message with a frame that another node hears reaches the stackline of
\* that node.
LEMMA DataTells ==
    ASSUME TypeOK, alOut = <<>>, NEW n \in Nodes, NEW r \in Nodes, r # n,
           NEW f \in TakenBy[n], f.fits, Addressed(f, r),
           NEW d \in DataMsgs, d.src = n, d.dst = f.dst, d.seq = f.seq,
           SendToStackline(r, d)
    PROVE  \/ Inbox' = Inbox
           \/ /\ r \in Stacks
              /\ d \in DataFor[r]
              /\ Inbox' = [Inbox EXCEPT ![r] = Append(@, d)]
<1>1. n \in Stacks /\ f \in Frames /\ f.src = n
  BY TakenFrame
<1>2. \/ Bound(r) /\ Inbox' = [Inbox EXCEPT ![r] = Append(@, d)]
      \/ ~Bound(r) /\ Inbox' = Inbox
  BY InboxSends DEF ToStack
<1>3. d.seq \in DOMAIN sent[n] /\ sent[n][d.seq] = [dst |-> d.dst, fits |-> TRUE]
  <2>1. f \in AsSent
    BY DEF TakenBy
  <2>2. f.seq \in DOMAIN sent[n] /\ sent[n][f.seq] = [dst |-> f.dst, fits |-> f.fits]
    BY <1>1, <2>1 DEF AsSent
  <2>3. f.fits = TRUE
    BY <1>1 DEF Frames
  <2> QED BY <2>2, <2>3
<1>4. Acceptable(d) /\ Addressed(d, r)
  BY TakenFrame DEF Acceptable, Addressed
<1>5. r \in Stacks => d \in DataFor[r]
  BY <1>3, <1>4 DEF DataFor
<1> QED BY <1>2, <1>5 DEF Bound

LEMMA IndicationTells ==
    ASSUME TypeOK, Genuine, NEW n \in Nodes, NEW r \in Nodes, DataIndication(n, r)
    PROVE  PassesUp(n, r)
<1> DEFINE f == Head(mac[n])
           d == [kind |-> "data", src |-> f.src, dst |-> f.dst, seq |-> f.seq]
<1>1. mac[n] \in Seq(TakenBy[n]) /\ mac[n] # <<>>
  BY DEF Genuine, DataIndication
<1>2. f \in TakenBy[n]
  BY <1>1
<1>3. /\ alOut = <<>> /\ f.fits /\ r # n /\ Addressed(f, r)
      /\ SendToStackline(r, d)
  BY DEF DataIndication, Idle, SendPacketToStackline
<1>4. n \in Stacks /\ f \in Frames /\ f.src = n
  BY <1>2, TakenFrame
<1>5. d \in DataMsgs /\ d.src = n /\ d.dst = f.dst /\ d.seq = f.seq
  BY <1>4 DEF DataMsgs, Frames
<1> HIDE DEF d, f
<1>6. \/ Inbox' = Inbox
      \/ /\ r \in Stacks /\ d \in DataFor[r]
         /\ Inbox' = [Inbox EXCEPT ![r] = Append(@, d)]
  BY <1>2, <1>3, <1>5, DataTells
<1>7. UNCHANGED <<stack, sent, slOut, alq, mac, got, reports>>
  BY DEF DataIndication, stackVars
<1> QED BY <1>1, <1>4, <1>5, <1>6, <1>7 DEF PassesUp, f

\* Steps that submit, pass on and report nothing: what is on the way stays
\* where it is or, with a process that dies or is dead, is lost.
Lessens ==
    /\ UNCHANGED <<sent, alq, mac, got, reports>>
    /\ \A s \in Stacks :
          /\ stack'[s] = "new" => stack[s] = "new"
          /\ stack'[s] = "up" => /\ stack[s] \in {"new", "up"}
                                 /\ slOut'[s] = slOut[s]
                                 /\ Inbox'[s] = Inbox[s]
          /\ slOut'[s] \in {slOut[s], <<>>}
          /\ \/ Inbox'[s] \in {Inbox[s], <<>>}
             \/ \E q \in Seq(ToStack), m \in ToStack :
                   /\ Inbox[s] = Append(q, m)
                   /\ Inbox'[s] \in {q, <<m>>}

\* The steps that do not depend on the interface.
SharedStep == \/ \E s \in Stacks : StackStep(s)
              \/ MsgReader
              \/ AirlineUnblock
              \/ UNCHANGED vars

LEMMA StillLessens ==
    ASSUME UNCHANGED <<stack, sent, slOut, alq, mac, alOut, slq, got, reports>>
    PROVE  Lessens
BY DEF Inbox, Lessens

LEMMA SharedSteps ==
    ASSUME TypeOK, SharedStep
    PROVE  \/ Lessens
           \/ \E s \in Stacks : \/ StackSend(s)
                                \/ StackUnblock(s)
                                \/ StackRecv(s)
           \/ MsgReaderDrop
           \/ MsgReaderSend
<1> USE DEF stackVars, macVars, historyVars
<1>1. ASSUME UNCHANGED <<sent, alq, mac, got, reports, slOut, alOut, slq>>,
             \A s \in Stacks : stack'[s] = stack[s] \/ (stack[s] = "new" /\ stack'[s] = "up")
      PROVE  Lessens
  <2>1. Inbox' = Inbox
    BY <1>1 DEF Inbox
  <2> QED BY <1>1, <2>1 DEF Lessens
<1>2. ASSUME NEW s \in Stacks, StackStart(s) PROVE Lessens
  <2>1. \A u \in Stacks : stack'[u] = stack[u] \/ (stack[u] = "new" /\ stack'[u] = "up")
    BY <1>2 DEF StackStart, TypeOK
  <2> QED BY <1>1, <1>2, <2>1 DEF StackStart
<1>3. ASSUME NEW s \in Stacks, StackDie(s) PROVE Lessens
  <2>1. /\ UNCHANGED <<sent, alq, mac, got, reports>>
        /\ stack'[s] = "dead" /\ slOut'[s] = <<>>
        /\ \A u \in Stacks \ {s} : stack'[u] = stack[u] /\ slOut'[u] = slOut[u]
    BY <1>3 DEF StackDie, TypeOK
  <2>2. slq[s] \in Seq(ToStack) /\ stack \in [Stacks -> {"new", "up", "dead"}]
    BY DEF TypeOK
  <2>3. /\ \A r \in Stacks \ {s} : Inbox'[r] = Inbox[r]
        /\ \/ Inbox'[s] = <<>>
           \/ \E m \in ToStack : /\ Inbox'[s] = <<m>>
                                 /\ Inbox[s] = Append(slq[s], m)
    BY <1>3, InboxDies
  <2> QED BY <2>1, <2>2, <2>3 DEF Lessens
<1>4. CASE AirlineUnblock
  <2>1. UNCHANGED <<sent, alq, mac, got, reports, slOut, stack>>
    BY <1>4 DEF AirlineUnblock
  <2>2. slq \in [Stacks -> Seq(ToStack)] /\ stack \in [Stacks -> {"new", "up", "dead"}]
    BY DEF TypeOK
  <2>3. CASE Inbox' = Inbox
    BY <2>1, <2>2, <2>3 DEF Lessens
  <2>4. ASSUME NEW to \in Stacks, NEW m \in ToStack, stack[to] # "up",
               Inbox[to] = Append(slq[to], m),
               Inbox' = [Inbox EXCEPT ![to] = slq[to]]
        PROVE  Lessens
    <3>1. /\ Inbox'[to] = slq[to]
          /\ \A s \in Stacks \ {to} : Inbox'[s] = Inbox[s]
      BY <2>4 DEF Inbox
    <3> QED BY <2>1, <2>2, <2>4, <3>1 DEF Lessens
  <2> QED BY <1>4, <2>3, <2>4, InboxWaits
<1>5. CASE MsgReaderStart \/ MsgReaderStop
  BY <1>5, StillLessens DEF MsgReaderStart, MsgReaderStop
<1>6. CASE UNCHANGED vars
  BY <1>6, StillLessens DEF vars
<1> QED BY <1>2, <1>3, <1>4, <1>5, <1>6 DEF SharedStep, StackStep, MsgReader

LEMMA LessensSteps ==
    ASSUME TypeOK, [Next]_vars
    PROVE  \/ Lessens
           \/ \E s \in Stacks : \/ StackSend(s)
                                \/ StackUnblock(s)
                                \/ StackRecv(s)
           \/ MsgReaderDrop
           \/ MsgReaderSend
           \/ \E n, r \in Nodes : DataIndication(n, r)
           \/ \E n \in Nodes : \E st \in MacStatuses : MacDone(n, st)
           \/ \E n \in Nodes : \E i \in DOMAIN mac[n] : MacReject(n, i)
<1>1. \A n \in Nodes : MacRetry(n) => Lessens
  BY StillLessens DEF MacRetry, stackVars, historyVars
<1> QED BY <1>1, SharedSteps DEF Next, MacStep, SharedStep

\* What the steps of the data plane do to a packet: whatever moves packets
\* this way keeps the promises of the data plane.
Moves ==
    \/ Lessens
    \/ \E s \in Stacks : \/ StackSend(s)
                         \/ StackUnblock(s)
                         \/ StackRecv(s)
    \/ MsgReaderDrop
    \/ MsgReaderSend
    \/ \E n, r \in Nodes : PassesUp(n, r)
    \/ \E n \in Nodes : Finishes(n)

LEMMA NextMoves ==
    ASSUME TypeOK, Truthful, InOrder, [Next]_vars
    PROVE  Moves
<1>1. \A n, r \in Nodes : DataIndication(n, r) => PassesUp(n, r)
  BY IndicationTells DEF Truthful
<1>2. \A n \in Nodes : \A st \in MacStatuses : MacDone(n, st) => Finishes(n)
  BY DoneLeaves DEF Truthful, Finishes, MacDone, stackVars
<1>3. \A n \in Nodes : \A i \in DOMAIN mac[n] : MacReject(n, i) => Finishes(n)
  BY RejectLeaves DEF Truthful, Finishes, MacReject, stackVars
<1> QED BY <1>1, <1>2, <1>3, LessensSteps DEF Moves

\* The frames on the way alone: what the steps of either interface do to them.
FrameMoves ==
    \/ /\ UNCHANGED <<sent, alq, mac>>
       /\ \A s \in Stacks : slOut'[s] \in {slOut[s], <<>>}
    \/ \E s \in Stacks : StackSend(s) \/ StackUnblock(s)
    \/ MsgReaderDrop
    \/ MsgReaderSend
    \/ /\ UNCHANGED <<sent, slOut, alq>>
       /\ \E n \in Nodes : \E mc \in Seq(TakenBy[n]) : mac' = [mac EXCEPT ![n] = mc]

LEMMA MovesFrames == Moves => FrameMoves
<1>1. Lessens => FrameMoves
  BY DEF Lessens, FrameMoves
<1>2. \A s \in Stacks : StackRecv(s) => FrameMoves
  BY DEF StackRecv, stackVars, macVars, FrameMoves
<1>3. \A n, r \in Nodes : PassesUp(n, r) => FrameMoves
  BY DEF PassesUp, FrameMoves
<1>4. \A n \in Nodes : Finishes(n) => FrameMoves
  BY DEF Finishes, Leaves, FrameMoves
<1> QED BY <1>1, <1>2, <1>3, <1>4 DEF Moves, FrameMoves

LEMMA FramesGrow ==
    ASSUME TypeOK, FrameMoves
    PROVE  Grows
<1>1. UNCHANGED sent => Grows
  BY DEF Grows
<1>2. (\E s \in Stacks : StackSend(s)) \/ UNCHANGED sent
  BY DEF FrameMoves, StackUnblock, MsgReaderDrop, MsgReaderSend, stackVars
<1> QED BY <1>1, <1>2, SubmitGrows

\* A stackline's inbox, as far as it is left, keeps its order.
LEMMA LessensParts ==
    ASSUME TypeOK, Lessens, NEW s \in Stacks, Inbox[s] \in Seq(ToStack), NEW S
    PROVE  /\ Part(Inbox'[s], Inbox[s], S)
           /\ \A X : Inbox[s] \in Seq(X) => Inbox'[s] \in Seq(X)
           /\ Part(slOut'[s], slOut[s], S)
           /\ \A X : slOut[s] \in Seq(X) => slOut'[s] \in Seq(X)
<1>1. slOut[s] \in Seq(Frames)
  BY DEF TypeOK
<1>2. slOut'[s] \in {slOut[s], <<>>}
  BY DEF Lessens
<1>3. Part(slOut'[s], slOut[s], S)
  BY <1>1, <1>2, PartKept
<1>4. \A X : slOut[s] \in Seq(X) => slOut'[s] \in Seq(X)
  <2> TAKE X
  <2>1. <<>> \in Seq(X)
    OBVIOUS
  <2> QED BY <1>2, <2>1
<1>5. ASSUME Inbox'[s] \in {Inbox[s], <<>>}
      PROVE  /\ Part(Inbox'[s], Inbox[s], S)
             /\ \A X : Inbox[s] \in Seq(X) => Inbox'[s] \in Seq(X)
  <2>1. Part(Inbox'[s], Inbox[s], S)
    BY <1>5, PartKept
  <2>2. ASSUME NEW X, Inbox[s] \in Seq(X) PROVE Inbox'[s] \in Seq(X)
    <3>1. <<>> \in Seq(X)
      OBVIOUS
    <3> QED BY <1>5, <2>2, <3>1
  <2> QED BY <2>1, <2>2
<1>6. ASSUME NEW q \in Seq(ToStack), NEW m \in ToStack, Inbox[s] = Append(q, m),
             Inbox'[s] \in {q, <<m>>}
      PROVE  /\ Part(Inbox'[s], Inbox[s], S)
             /\ \A X : Inbox[s] \in Seq(X) => Inbox'[s] \in Seq(X)
  <2>1. Part(Inbox'[s], Inbox[s], S)
    <3>1. Part(q, Append(q, m), S) /\ Part(<<m>>, Append(q, m), S)
      BY AppendKeys
    <3>2. Inbox'[s] = q \/ Inbox'[s] = <<m>>
      BY <1>6
    <3> QED BY <1>6, <3>1, <3>2
  <2>2. ASSUME NEW X, Append(q, m) \in Seq(X) PROVE q \in Seq(X) /\ <<m>> \in Seq(X)
    <3>1. Len(q) \in Nat /\ Len(Append(q, m)) = Len(q) + 1
      OBVIOUS
    <3>2. \A i \in 1..Len(q) : q[i] = Append(q, m)[i] /\ q[i] \in X
      BY <2>2
    <3>3. m = Append(q, m)[Len(q) + 1] /\ m \in X
      BY <2>2
    <3> QED BY <3>1, <3>2, <3>3
  <2>3. ASSUME NEW X, Inbox[s] \in Seq(X) PROVE Inbox'[s] \in Seq(X)
    BY <1>6, <2>2, <2>3
  <2> QED BY <2>1, <2>3
<1>7. \/ Inbox'[s] \in {Inbox[s], <<>>}
      \/ \E q \in Seq(ToStack), m \in ToStack :
            Inbox[s] = Append(q, m) /\ Inbox'[s] \in {q, <<m>>}
  BY DEF Lessens
<1>8. /\ Part(Inbox'[s], Inbox[s], S)
      /\ \A X : Inbox[s] \in Seq(X) => Inbox'[s] \in Seq(X)
  BY <1>5, <1>6, <1>7
<1> QED BY <1>3, <1>4, <1>8

LEMMA InboxTyped ==
    ASSUME TypeOK, NEW s \in Stacks
    PROVE  Inbox[s] \in Seq(ToStack)
<1>1. slq[s] \in Seq(ToStack)
  BY DEF TypeOK
<1>2. CASE alOut # <<>> /\ Head(alOut).to = s
  <2>1. Inbox[s] = Append(slq[s], Head(alOut).msg)
    BY <1>2 DEF Inbox
  <2> QED BY <1>1, <1>2, <2>1, OutIs
<1>3. CASE ~(alOut # <<>> /\ Head(alOut).to = s)
  BY <1>1, <1>3 DEF Inbox
<1> QED BY <1>2, <1>3

\* What a submission does.
LEMMA Submits ==
    ASSUME TypeOK, NEW s \in Stacks, StackSend(s)
    PROVE  \E x \in SentBy'[s] :
              /\ x \in FramesOf(s)
              /\ x.seq = Len(sent[s]) + 1
              /\ sent'[s] = Append(sent[s], [dst |-> x.dst, fits |-> x.fits])
              /\ sent[s] \in Seq(Packets)
              /\ \A u \in Stacks \ {s} : sent'[u] = sent[u]
              /\ slOut[s] = <<>>
              /\ \/ /\ alq' = Append(alq, x)
                    /\ slOut' = slOut
                 \/ /\ alq' = alq
                    /\ slOut' = [slOut EXCEPT ![s] = <<x>>]
              /\ stack[s] = "up"
              /\ UNCHANGED <<stack, mac, got, reports, Inbox>>
<1>1. PICK dst \in Dsts \ {s}, fits \in Sizes :
        LET m == [src |-> s, dst |-> dst, fits |-> fits,
                  seq |-> Len(sent[s]) + 1]
        IN  /\ sent' = [sent EXCEPT ![s] =
                             Append(@, [dst |-> dst, fits |-> fits])]
            /\ \/ /\ alq' = Append(alq, m)
                  /\ UNCHANGED slOut
               \/ /\ slOut' = [slOut EXCEPT ![s] = <<m>>]
                  /\ UNCHANGED alq
  BY DEF StackSend
<1> DEFINE x == [src |-> s, dst |-> dst, fits |-> fits, seq |-> Len(sent[s]) + 1]
           p == [dst |-> dst, fits |-> fits]
<1>2. fits \in BOOLEAN /\ sent[s] \in Seq(Packets)
  BY DataPlaneAssumption DEF TypeOK
<1>3. x \in Frames /\ x \in FramesOf(s)
  BY <1>2 DEF Frames, FramesOf
<1>4. p \in Packets
  BY <1>2 DEF Packets
<1>5. /\ sent'[s] = Append(sent[s], p)
      /\ \A u \in Stacks \ {s} : sent'[u] = sent[u]
  BY <1>1 DEF TypeOK
<1>6. x.seq \in DOMAIN sent'[s] /\ sent'[s][x.seq] = p
  <2>1. Len(sent[s]) + 1 \in DOMAIN Append(sent[s], p)
        /\ Append(sent[s], p)[Len(sent[s]) + 1] = p
    BY <1>2, <1>4
  <2> QED BY <1>5, <2>1
<1>7. x \in SentBy'[s]
  BY <1>3, <1>6 DEF SentBy, AsSent
<1>8. /\ UNCHANGED <<stack, mac, got, reports, alOut, slq>>
      /\ stack[s] = "up" /\ slOut[s] = <<>>
  BY DEF StackSend, macVars, historyVars
<1>9. UNCHANGED Inbox
  BY <1>8 DEF Inbox
<1> QED BY <1>1, <1>2, <1>3, <1>5, <1>7, <1>8, <1>9

\* Frames on the way stay what stacklines submitted.
LEMMA GenuineKept ==
    ASSUME TypeOK, Genuine, FrameMoves
    PROVE  Genuine'
<1>1. /\ \A s \in Stacks : SentBy'[s] \subseteq AsSent'
      /\ \A n \in Nodes : TakenBy'[n] \subseteq AsSent'
  BY DEF SentBy, TakenBy
<1>2. /\ alq \in Seq(AsSent')
      /\ \A s \in Stacks : slOut[s] \in Seq(SentBy'[s])
      /\ \A n \in Nodes : mac[n] \in Seq(TakenBy'[n])
  <2>1. Grows
    BY FramesGrow
  <2>2. \A A, B : A \subseteq B => Seq(A) \subseteq Seq(B)
    BY SeqMonotonic
  <2> QED BY <2>1, <2>2, TruthStands DEF Genuine
<1>3. CASE /\ UNCHANGED <<sent, alq, mac>>
           /\ \A s \in Stacks : slOut'[s] \in {slOut[s], <<>>}
  <2>1. \A S : <<>> \in Seq(S)
    BY SeqTyped
  <2> QED BY <1>2, <1>3, <2>1 DEF Genuine
<1>4. ASSUME NEW s \in Stacks, StackSend(s) PROVE Genuine'
  <2>1. PICK x \in SentBy'[s] :
              /\ \A u \in Stacks \ {s} : sent'[u] = sent[u]
              /\ \/ /\ alq' = Append(alq, x)
                    /\ slOut' = slOut
                 \/ /\ alq' = alq
                    /\ slOut' = [slOut EXCEPT ![s] = <<x>>]
              /\ UNCHANGED <<stack, mac, got, reports, Inbox>>
    BY <1>4, Submits
  <2>2. alq' \in Seq(AsSent')
    BY <1>1, <1>2, <2>1, SeqTyped
  <2>3. <<x>> \in Seq(SentBy'[s])
    BY SeqTyped
  <2>4. \A u \in Stacks : slOut'[u] \in Seq(SentBy'[u])
    BY <1>2, <2>1, <2>3 DEF TypeOK
  <2> QED BY <1>2, <2>1, <2>2, <2>4 DEF Genuine
<1>5. ASSUME NEW s \in Stacks, StackUnblock(s) PROVE Genuine'
  <2>1. /\ slOut[s] # <<>>
        /\ alq' = Append(alq, Head(slOut[s]))
        /\ slOut' = [slOut EXCEPT ![s] = <<>>]
        /\ UNCHANGED mac
    BY <1>5 DEF StackUnblock, macVars
  <2>2. Head(slOut[s]) \in SentBy'[s] /\ <<>> \in Seq(SentBy'[s])
    BY <1>2, <2>1, SeqTyped
  <2>3. alq' \in Seq(AsSent')
    BY <1>1, <1>2, <2>1, <2>2, SeqTyped
  <2>4. \A u \in Stacks : slOut'[u] \in Seq(SentBy'[u])
    BY <1>2, <2>1, <2>2 DEF TypeOK
  <2> QED BY <1>2, <2>1, <2>3, <2>4 DEF Genuine
<1>6. CASE MsgReaderDrop
  <2>1. UNCHANGED <<slOut, mac>> /\ alq # <<>> /\ alq' = Tail(alq)
    BY <1>6 DEF MsgReaderDrop, stackVars, macVars
  <2>2. alq' \in Seq(AsSent')
    BY <1>2, <2>1, SeqTyped
  <2> QED BY <1>2, <2>1, <2>2 DEF Genuine
<1>7. CASE MsgReaderSend
  <2> DEFINE m == Head(alq)
  <2>1. UNCHANGED slOut
        /\ alq # <<>> /\ alq' = Tail(alq)
        /\ Acceptable(m) /\ mac' = [mac EXCEPT ![m.src] = Append(@, m)]
    BY <1>7 DEF MsgReaderSend, stackVars
  <2>2. alq' \in Seq(AsSent') /\ m \in AsSent'
    BY <1>2, <2>1, SeqTyped
  <2>3. m.src \in Nodes => m \in TakenBy'[m.src]
    BY <2>1, <2>2 DEF TakenBy, Acceptable
  <2> HIDE DEF m
  <2>4. \A n \in Nodes : mac'[n] \in Seq(TakenBy'[n])
    BY <1>2, <2>1, <2>3, SeqTyped DEF TypeOK
  <2> QED BY <1>2, <2>1, <2>2, <2>4 DEF Genuine
<1>8. ASSUME NEW n \in Nodes, NEW mc \in Seq(TakenBy[n]),
             mac' = [mac EXCEPT ![n] = mc], UNCHANGED <<sent, slOut, alq>>
      PROVE  Genuine'
  <2>1. TakenBy'[n] = TakenBy[n]
    BY <1>8 DEF TakenBy, AsSent, Acceptable
  <2>2. \A u \in Nodes : mac'[u] \in Seq(TakenBy'[u])
    BY <1>2, <1>8, <2>1 DEF TypeOK
  <2> QED BY <1>2, <1>8, <2>2 DEF Genuine
<1> QED BY <1>3, <1>4, <1>5, <1>6, <1>7, <1>8 DEF FrameMoves

\* What the messages, the reports and the histories say stays so.
LEMMA TruthKept ==
    ASSUME TypeOK, Truthful, Moves
    PROVE  Truthful'
<1> DEFINE News(r) == AckFor'[r] \cup DataFor'[r]
<1>1. Grows /\ Genuine'
  BY MovesFrames, FramesGrow, GenuineKept DEF Truthful
<1>2. /\ \A r \in Stacks : Inbox[r] \in Seq(News(r))
      /\ \A s \in Stacks : reports[s] \in Seq(ReportFor'[s])
      /\ \A r \in Stacks : got[r] \subseteq GotFor'
  <2>1. \A A, B : A \subseteq B => Seq(A) \subseteq Seq(B)
    BY SeqMonotonic
  <2>2. ASSUME NEW r \in Stacks PROVE Inbox[r] \in Seq(News(r))
    <3>1. AckFor[r] \cup DataFor[r] \subseteq News(r)
      BY <1>1, TruthStands
    <3>2. Inbox[r] \in Seq(AckFor[r] \cup DataFor[r])
      BY DEF Truthful
    <3> HIDE DEF News
    <3> QED BY <2>1, <3>1, <3>2
  <2>3. ASSUME NEW s \in Stacks PROVE reports[s] \in Seq(ReportFor'[s])
    BY <1>1, <2>1, TruthStands DEF Truthful
  <2>4. ASSUME NEW r \in Stacks PROVE got[r] \subseteq GotFor'
    BY <1>1, TruthStands DEF Truthful
  <2> QED BY <2>2, <2>3, <2>4
<1>3. \A s \in Stacks : stack[s] = "new" => sent[s] = <<>>
  BY DEF Truthful
<1> HIDE DEF News
<1>4. CASE Lessens
  <2>1. \A s \in Stacks : Inbox'[s] \in Seq(News(s))
    BY <1>2, <1>4, LessensParts, InboxTyped
  <2>2. \A s \in Stacks : stack'[s] = "new" => sent'[s] = <<>>
    BY <1>3, <1>4 DEF Lessens
  <2> QED BY <1>1, <1>2, <1>4, <2>1, <2>2 DEF Truthful, Lessens, News
<1>5. ASSUME NEW s \in Stacks, StackSend(s) PROVE Truthful'
  <2>1. /\ \A u \in Stacks \ {s} : sent'[u] = sent[u]
        /\ stack[s] = "up"
        /\ UNCHANGED <<stack, got, reports, Inbox>>
    BY <1>5, Submits
  <2>2. \A u \in Stacks : stack'[u] = "new" => sent'[u] = <<>>
    BY <1>3, <2>1
  <2> QED BY <1>1, <1>2, <2>1, <2>2 DEF Truthful, News
<1>6. ASSUME UNCHANGED <<stack, sent>> PROVE \A s \in Stacks : stack'[s] = "new" => sent'[s] = <<>>
  BY <1>3, <1>6
<1>7. ASSUME UNCHANGED <<stack, sent, got, reports>>,
             \A r \in Stacks : Inbox'[r] \in Seq(News(r))
      PROVE  Truthful'
  BY <1>1, <1>2, <1>6, <1>7 DEF Truthful, News
<1>9. ASSUME UNCHANGED <<stack, sent, got, reports, alOut, slq>>
      PROVE  Truthful'
  <2>1. UNCHANGED Inbox
    BY <1>9 DEF Inbox
  <2> QED BY <1>2, <1>7, <1>9, <2>1
<1>10. CASE \/ \E s \in Stacks : StackUnblock(s)
            \/ MsgReaderDrop
            \/ MsgReaderSend
  BY <1>9, <1>10
  DEF StackUnblock, MsgReaderDrop, MsgReaderSend, stackVars, macVars, historyVars
<1>8. ASSUME NEW s \in Stacks, StackRecv(s) PROVE Truthful'
  <2>1. /\ Inbox[s] # <<>>
        /\ Head(Inbox[s]) = Head(slq[s])
        /\ Inbox' = [Inbox EXCEPT ![s] = Tail(@)]
    BY <1>8, InboxRead
  <2>2. UNCHANGED <<stack, sent>>
    BY <1>8 DEF StackRecv, stackVars
  <2> DEFINE m == Head(slq[s])
  <2>3. m \in News(s) /\ Tail(Inbox[s]) \in Seq(News(s))
    BY <1>2, <2>1, SeqTyped
  <2>4. \A r \in Stacks : Inbox'[r] \in Seq(News(r))
    BY <1>2, <2>1, <2>3 DEF Inbox
  <2>5. m.kind = "data" => <<m.src, m.seq>> \in GotFor'
    <3>1. m.kind = "data" => m \in DataFor'[s]
      BY <2>3 DEF News, AckFor, AckMsgs
    <3> HIDE DEF m
    <3> QED BY <3>1 DEF DataFor, DataMsgs, GotFor
  <2>6. m.kind = "ack" => [seq |-> m.seq, status |-> m.status] \in ReportFor'[s]
    <3>1. m.kind = "ack" => m \in AckFor'[s]
      BY <2>3 DEF News, DataFor, DataMsgs
    <3> HIDE DEF m
    <3> QED BY <3>1 DEF AckFor, AckMsgs, ReportFor, Reports
  <2>7. \/ /\ m.kind = "data"
           /\ got' = [got EXCEPT ![s] = @ \cup {<<m.src, m.seq>>}]
           /\ UNCHANGED reports
        \/ /\ m.kind = "ack"
           /\ reports' = [reports EXCEPT ![s] =
                             Append(@, [seq |-> m.seq, status |-> m.status])]
           /\ UNCHANGED got
    BY <1>8 DEF StackRecv
  <2> HIDE DEF m
  <2>8. \A r \in Stacks : got'[r] \subseteq GotFor'
    <3>1. CASE m.kind = "data" /\ got' = [got EXCEPT ![s] = @ \cup {<<m.src, m.seq>>}]
      <4>1. \A r \in Stacks :
               got'[r] = IF r = s THEN got[s] \cup {<<m.src, m.seq>>} ELSE got[r]
        BY <3>1 DEF TypeOK
      <4> QED BY <1>2, <2>5, <3>1, <4>1
    <3>2. CASE UNCHANGED got
      BY <1>2, <3>2
    <3> QED BY <2>7, <3>1, <3>2
  <2>9. \A r \in Stacks : reports'[r] \in Seq(ReportFor'[r])
    <3> DEFINE p == [seq |-> m.seq, status |-> m.status]
    <3>1. CASE m.kind = "ack" /\ reports' = [reports EXCEPT ![s] = Append(@, p)]
      <4>1. \A r \in Stacks :
               reports'[r] = IF r = s THEN Append(reports[s], p) ELSE reports[r]
        BY <3>1 DEF TypeOK
      <4>2. p \in ReportFor'[s]
        BY <2>6, <3>1
      <4>3. Append(reports[s], p) \in Seq(ReportFor'[s])
        BY <1>2, <4>2, SeqTyped
      <4> QED BY <1>2, <4>1, <4>3
    <3>2. CASE UNCHANGED reports
      BY <1>2, <3>2
    <3> QED BY <2>7, <3>1, <3>2
  <2> QED BY <1>1, <1>6, <2>2, <2>4, <2>8, <2>9 DEF Truthful, News
<1>11. ASSUME NEW r, NEW d \in News(r), NEW u \in Stacks,
              Inbox' = [Inbox EXCEPT ![r] = Append(@, d)]
       PROVE  Inbox'[u] \in Seq(News(u))
  <2>1. Inbox'[u] = IF u = r THEN Append(Inbox[r], d) ELSE Inbox[u]
    BY <1>11 DEF Inbox
  <2> QED BY <1>2, <2>1, SeqTyped
<1>12. ASSUME NEW n \in Nodes, NEW r \in Nodes, PassesUp(n, r)
       PROVE  Truthful'
  <2>1. \A u \in Stacks : DataFor[u] \subseteq News(u)
    BY <1>1, TruthStands DEF News
  <2>2. \A u \in Stacks : Inbox'[u] \in Seq(News(u))
    BY <1>2, <1>11, <1>12, <2>1 DEF PassesUp
  <2> QED BY <1>7, <1>12, <2>2 DEF PassesUp
<1>13. ASSUME NEW n \in Nodes, Finishes(n) PROVE Truthful'
  <2>1. PICK f \in TakenBy[n] : Confirmed(n, f)
    BY <1>13 DEF Finishes
  <2>2. \A u \in Stacks : AckFor[u] \subseteq News(u)
    BY <1>1, TruthStands DEF News
  <2>3. \A u \in Stacks : Inbox'[u] \in Seq(News(u))
    BY <1>2, <1>11, <2>1, <2>2, TakenFrame DEF Confirmed
  <2> QED BY <1>7, <1>13, <2>3 DEF Finishes
<1> QED BY <1>4, <1>5, <1>8, <1>10, <1>12, <1>13 DEF Moves

LEMMA KeysIn ==
    ASSUME NEW X, NEW q \in Seq(X), NEW S, NEW D,
           \A m \in X : m \in S => m.seq \in D
    PROVE  Keys(q, S) \subseteq D
<1>1. \A i \in DOMAIN q : q[i] \in X
  OBVIOUS
<1> QED BY <1>1 DEF Keys

\* What is on the way was submitted.
LEMMA AllSubmitted ==
    ASSUME Truthful, NEW s \in Stacks
    PROVE  OnTheWay(reports[s], Inbox[s], MacOf[s], alq, slOut[s], s)
               \subseteq DOMAIN sent[s]
<1>1. Told(reports[s]) \subseteq DOMAIN sent[s]
  <2>1. \A p \in ReportFor[s] : p.seq \in DOMAIN sent[s]
    BY DEF ReportFor, ToReport
  <2> QED BY <2>1, KeysIn DEF Told, Truthful, Genuine
<1>2. Coming(Inbox[s]) \subseteq DOMAIN sent[s]
  <2>1. \A m \in AckFor[s] \cup DataFor[s] : m \in AckMsgs => m.seq \in DOMAIN sent[s]
    <3>1. \A m \in AckFor[s] : m.seq \in DOMAIN sent[s]
      BY DEF AckFor, ToReport
    <3>2. \A m \in DataFor[s] : m \notin AckMsgs
      BY DEF DataFor, DataMsgs, AckMsgs
    <3> QED BY <3>1, <3>2
  <2>2. Inbox[s] \in Seq(AckFor[s] \cup DataFor[s])
    BY DEF Truthful, Genuine
  <2>3. Keys(Inbox[s], AckMsgs) \subseteq DOMAIN sent[s]
    BY <2>1, <2>2, KeysIn
  <2> QED BY <2>3 DEF Coming
<1>3. InMac(MacOf[s], s) \subseteq DOMAIN sent[s]
  <2>1. CASE s \in Nodes
    <3>1. \A f \in TakenBy[s] : f.seq \in DOMAIN sent[s]
      BY <2>1, TakenFrame
    <3> QED BY <2>1, <3>1, KeysIn DEF InMac, MacOf, Truthful, Genuine
  <2>2. CASE s \notin Nodes
    BY <2>2 DEF InMac, MacOf, Keys
  <2> QED BY <2>1, <2>2
<1>4. InQueue(alq, s) \subseteq DOMAIN sent[s]
  <2>1. \A f \in AsSent : f \in FramesOf(s) => f.seq \in DOMAIN sent[s]
    BY DEF AsSent, FramesOf
  <2> QED BY <2>1, KeysIn DEF InQueue, Truthful, Genuine
<1>5. InSend(slOut[s], s) \subseteq DOMAIN sent[s]
  <2>1. \A f \in SentBy[s] : f.seq \in DOMAIN sent[s]
    BY DEF SentBy, AsSent
  <2> QED BY <2>1, KeysIn DEF InSend, Truthful, Genuine
<1> QED BY <1>1, <1>2, <1>3, <1>4, <1>5 DEF OnTheWay

LEMMA FramesDiffer ==
    ASSUME NEW s, NEW u, u # s, NEW x \in FramesOf(s)
    PROVE  x \notin FramesOf(u)
BY DEF FramesOf

\* Each step keeps the packets of every stackline in order.
LEMMA OrderKept ==
    ASSUME TypeOK, Truthful, InOrder, Moves
    PROVE  InOrder'
<1>1. \A u \in Stacks : Earlier[u] \subseteq Earlier'[u]
  BY MovesFrames, FramesGrow, TruthStands
<1>2. ASSUME NEW u \in Stacks
      PROVE  /\ reports[u] \in Seq(Reports)
             /\ Inbox[u] \in Seq(ToStack)
             /\ MacOf[u] \in Seq(Frames)
             /\ alq \in Seq(Frames)
             /\ slOut[u] \in Seq(Frames)
  <2>1. /\ reports[u] \in Seq(Reports)
        /\ alq \in Seq(Frames)
        /\ slOut[u] \in Seq(Frames)
        /\ u \in Nodes => mac[u] \in Seq(Frames)
    BY DEF TypeOK, Reports
  <2>2. MacOf[u] \in Seq(Frames)
    BY <2>1, SeqTyped DEF MacOf
  <2> QED BY <2>1, <2>2, InboxTyped
<1>3. ASSUME NEW u \in Stacks
      PROVE  /\ Part(reports[u], reports[u], Reports)
             /\ Part(Inbox[u], Inbox[u], AckMsgs)
             /\ Part(MacOf[u], MacOf[u], FramesOf(u))
             /\ Part(alq, alq, FramesOf(u))
             /\ Part(slOut[u], slOut[u], FramesOf(u))
  BY DEF Part
<1>4. \A u \in Stacks :
         Line(reports[u], Inbox[u], MacOf[u], alq, slOut[u], u, Earlier[u])
  BY DEF InOrder
<1>5. ASSUME NEW u \in Stacks,
             Part(reports'[u], reports[u], Reports),
             Part(Inbox'[u], Inbox[u], AckMsgs),
             Part(MacOf'[u], MacOf[u], FramesOf(u)),
             Part(alq', alq, FramesOf(u)),
             Part(slOut'[u], slOut[u], FramesOf(u))
      PROVE  Line(reports'[u], Inbox'[u], MacOf'[u], alq', slOut'[u], u, Earlier'[u])
  BY <1>1, <1>4, <1>5, LineShrinks
<1>6. SUFFICES ASSUME NEW u \in Stacks
               PROVE  Line(reports'[u], Inbox'[u], MacOf'[u], alq', slOut'[u], u,
                           Earlier'[u])
  BY DEF InOrder
<1>7. CASE Lessens
  <2>1. UNCHANGED <<alq, MacOf, reports>>
    BY <1>7 DEF Lessens, MacOf
  <2>2. Part(Inbox'[u], Inbox[u], AckMsgs) /\ Part(slOut'[u], slOut[u], FramesOf(u))
    BY <1>7, LessensParts, InboxTyped
  <2> QED BY <1>3, <1>5, <2>1, <2>2
<1>8. ASSUME NEW s \in Stacks, StackSend(s)
      PROVE  Line(reports'[u], Inbox'[u], MacOf'[u], alq', slOut'[u], u, Earlier'[u])
  <2>1. PICK x \in SentBy'[s] :
              /\ x \in FramesOf(s)
              /\ x.seq = Len(sent[s]) + 1
              /\ sent'[s] = Append(sent[s], [dst |-> x.dst, fits |-> x.fits])
              /\ sent[s] \in Seq(Packets)
              /\ slOut[s] = <<>>
              /\ \/ /\ alq' = Append(alq, x)
                    /\ slOut' = slOut
                 \/ /\ alq' = alq
                    /\ slOut' = [slOut EXCEPT ![s] = <<x>>]
              /\ UNCHANGED <<stack, mac, got, reports, Inbox>>
    BY <1>8, Submits
  <2>2. x \in Frames /\ UNCHANGED MacOf
    BY <2>1 DEF SentBy, AsSent, MacOf
  <2>3. CASE u = s
    <3>1. OnTheWay(reports[s], Inbox[s], MacOf[s], alq, <<>>, s) \X {x.seq}
              \subseteq Earlier'[s]
      <4>1. SUFFICES ASSUME NEW k \in DOMAIN sent[s]
                     PROVE  <<k, x.seq>> \in Earlier'[s]
        BY <2>1, AllSubmitted
      <4>2. /\ k \in DOMAIN sent'[s] /\ x.seq \in DOMAIN sent'[s]
            /\ k < x.seq
        BY <2>1
      <4>3. k # x.seq
        BY <2>1
      <4> QED BY <4>2, <4>3 DEF Earlier
    <3>2. Line(reports[s], Inbox[s], MacOf[s], alq, <<>>, s, Earlier[s])
      BY <1>4, <2>1
    <3>3. Earlier[s] \subseteq Earlier'[s] /\ alq \in Seq(Frames)
      BY <1>1, <1>2
    <3>4. CASE alq' = Append(alq, x) /\ slOut' = slOut
      <4>1. Line(reports[s], Inbox[s], MacOf[s], Append(alq, x), <<>>, s, Earlier'[s])
        BY <2>1, <2>2, <3>1, <3>2, <3>3, LineQueues
      <4> QED BY <2>1, <2>2, <2>3, <3>4, <4>1
    <3>5. CASE alq' = alq /\ slOut' = [slOut EXCEPT ![s] = <<x>>]
      <4>1. Line(reports[s], Inbox[s], MacOf[s], alq, <<x>>, s, Earlier'[s])
        BY <2>1, <3>1, <3>2, <3>3, LineHolds
      <4>2. slOut'[s] = <<x>>
        BY <3>5 DEF TypeOK
      <4> QED BY <2>1, <2>2, <2>3, <3>5, <4>1, <4>2
    <3> QED BY <2>1, <3>4, <3>5
  <2>4. CASE u # s
    <3>1. x \notin FramesOf(u)
      BY <2>1, <2>4, FramesDiffer
    <3>2. Part(alq', alq, FramesOf(u))
      <4>1. Part(Append(alq, x), alq, FramesOf(u))
        BY <1>2, <2>2, <3>1, AppendKeys
      <4> QED BY <1>3, <2>1, <4>1
    <3>3. slOut'[u] = slOut[u]
      BY <2>1, <2>4 DEF TypeOK
    <3> QED BY <1>3, <1>5, <2>1, <2>2, <3>2, <3>3
  <2> QED BY <2>3, <2>4
<1>9. ASSUME NEW s \in Stacks, StackUnblock(s)
      PROVE  Line(reports'[u], Inbox'[u], MacOf'[u], alq', slOut'[u], u, Earlier'[u])
  <2>1. /\ slOut[s] # <<>>
        /\ alq' = Append(alq, Head(slOut[s]))
        /\ slOut' = [slOut EXCEPT ![s] = <<>>]
        /\ UNCHANGED <<sent, mac, reports, alOut, slq>>
    BY <1>9 DEF StackUnblock, macVars, historyVars
  <2>2. UNCHANGED <<Inbox, MacOf, Earlier, reports>>
    BY <2>1 DEF Inbox, MacOf, Earlier
  <2>3. Head(slOut[s]) \in SentBy[s]
    BY <2>1, SeqTyped DEF Truthful, Genuine
  <2>4. Head(slOut[s]) \in Frames /\ Head(slOut[s]) \in FramesOf(s)
    BY <2>3 DEF SentBy, AsSent, Frames, FramesOf
  <2>5. CASE u = s
    <3>1. Line(reports[s], Inbox[s], MacOf[s], Append(alq, Head(slOut[s])), <<>>, s,
               Earlier[s])
      BY <1>2, <1>4, <2>1, <2>4, LineUnblocks
    <3>2. slOut'[s] = <<>>
      BY <2>1 DEF TypeOK
    <3> QED BY <2>1, <2>2, <2>5, <3>1, <3>2
  <2>6. CASE u # s
    <3>1. Head(slOut[s]) \notin FramesOf(u)
      BY <2>4, <2>6, FramesDiffer
    <3>2. Part(alq', alq, FramesOf(u))
      BY <1>2, <2>1, <2>4, <3>1, AppendKeys
    <3>3. slOut'[u] = slOut[u]
      BY <2>1, <2>6 DEF TypeOK
    <3> QED BY <1>3, <1>5, <2>2, <3>2, <3>3
  <2> QED BY <2>5, <2>6
<1>10. ASSUME NEW s \in Stacks, StackRecv(s)
       PROVE  Line(reports'[u], Inbox'[u], MacOf'[u], alq', slOut'[u], u, Earlier'[u])
  <2> DEFINE m == Head(slq[s])
             p == [seq |-> m.seq, status |-> m.status]
  <2>1. /\ Inbox[s] # <<>>
        /\ Head(Inbox[s]) = m
        /\ Inbox' = [Inbox EXCEPT ![s] = Tail(@)]
    BY <1>10, InboxRead
  <2>2. UNCHANGED <<sent, slOut, alq, mac>>
    BY <1>10 DEF StackRecv, stackVars, macVars
  <2>3. UNCHANGED <<MacOf, Earlier>>
    BY <2>2 DEF MacOf, Earlier
  <2>4. \A r \in Stacks : Inbox'[r] = IF r = s THEN Tail(Inbox[s]) ELSE Inbox[r]
    BY <2>1 DEF Inbox
  <2>5. Part(Tail(Inbox[s]), Inbox[s], AckMsgs)
    BY <1>2, <2>1, PartKept
  <2>6. CASE UNCHANGED reports
    <3>1. Part(Inbox'[u], Inbox[u], AckMsgs)
      BY <1>3, <2>4, <2>5
    <3> QED BY <1>3, <1>5, <2>2, <2>3, <2>6, <3>1
  <2>7. CASE m.kind = "ack" /\ reports' = [reports EXCEPT ![s] = Append(@, p)]
    <3>1. m \in ToStack
      BY <1>2, <2>1, SeqTyped
    <3>2. m \in AckMsgs
      BY <2>7, <3>1 DEF ToStack, DataMsgs
    <3>3. p \in Reports /\ p.seq = m.seq
      BY <3>2 DEF AckMsgs, Reports
    <3> HIDE DEF p, m
    <3>4. CASE u = s
      <4>1. Line(Append(reports[s], p), Tail(Inbox[s]), MacOf[s], alq, slOut[s], s,
                 Earlier[s])
        BY <1>2, <1>4, <2>1, <3>2, <3>3, LineReads
      <4>2. reports'[s] = Append(reports[s], p)
        BY <2>7 DEF TypeOK
      <4> QED BY <2>2, <2>3, <2>4, <3>4, <4>1, <4>2
    <3>5. CASE u # s
      <4>1. reports'[u] = reports[u] /\ Inbox'[u] = Inbox[u]
        BY <2>4, <2>7, <3>5 DEF TypeOK
      <4> QED BY <1>3, <1>5, <2>2, <2>3, <4>1
    <3> QED BY <3>4, <3>5
  <2> QED BY <1>10, <2>6, <2>7 DEF StackRecv
<1>11. CASE MsgReaderDrop
  <2>1. UNCHANGED <<sent, slOut, mac, reports, alOut, slq>>
        /\ alq # <<>> /\ alq' = Tail(alq)
    BY <1>11 DEF MsgReaderDrop, stackVars, macVars, historyVars
  <2>2. UNCHANGED <<Inbox, MacOf, slOut, reports>>
    BY <2>1 DEF Inbox, MacOf
  <2>3. Part(alq', alq, FramesOf(u))
    BY <1>2, <2>1, PartKept
  <2> QED BY <1>3, <1>5, <2>2, <2>3
<1>12. CASE MsgReaderSend
  <2> DEFINE m == Head(alq)
  <2>1. UNCHANGED <<sent, slOut, reports, alOut, slq>>
        /\ alq # <<>> /\ alq' = Tail(alq)
        /\ Acceptable(m) /\ mac' = [mac EXCEPT ![m.src] = Append(@, m)]
    BY <1>12 DEF MsgReaderSend, stackVars, historyVars
  <2>2. UNCHANGED <<Inbox, slOut, reports, Earlier>>
    BY <2>1 DEF Inbox, Earlier
  <2>3. m \in Frames
    BY <1>2, <2>1, SeqTyped
  <2>4. m.src \in Stacks /\ m \in FramesOf(m.src)
    BY <2>3 DEF Frames, FramesOf
  <2>5. m.src \in Nodes
    <3>1. \A i \in Stacks : i >= 0 /\ i < NumNodes => i \in Nodes
      BY DataPlaneAssumption DEF Ids, Nodes
    <3>2. m.src >= 0 /\ m.src < NumNodes
      BY <2>1 DEF Acceptable, IN_RANGE
    <3> QED BY <2>4, <3>1, <3>2
  <2> HIDE DEF m
  <2>6. CASE u = m.src
    <3>1. MacOf'[u] = Append(MacOf[u], m)
      BY <2>1, <2>5, <2>6 DEF MacOf, TypeOK
    <3>2. Line(reports[u], Inbox[u], Append(MacOf[u], m), Tail(alq), slOut[u], u,
               Earlier[u])
      BY <1>2, <1>4, <2>1, <2>4, <2>6, LineTransmits DEF m
    <3> QED BY <2>1, <2>2, <3>1, <3>2
  <2>7. CASE u # m.src
    <3>1. MacOf'[u] = MacOf[u]
      BY <2>1, <2>7 DEF MacOf, TypeOK
    <3>2. Part(alq', alq, FramesOf(u))
      BY <1>2, <2>1, PartKept
    <3> QED BY <1>3, <1>5, <2>2, <3>1, <3>2
  <2> QED BY <2>6, <2>7
<1>13. ASSUME NEW n \in Nodes, NEW r \in Nodes, PassesUp(n, r)
       PROVE  Line(reports'[u], Inbox'[u], MacOf'[u], alq', slOut'[u], u, Earlier'[u])
  <2>1. UNCHANGED <<sent, slOut, alq, mac, reports>>
    BY <1>13 DEF PassesUp
  <2>2. UNCHANGED MacOf
    BY <2>1 DEF MacOf
  <2>3. \/ Inbox' = Inbox
        \/ \E d \in DataMsgs : Inbox' = [Inbox EXCEPT ![r] = Append(@, d)]
    BY <1>13 DEF PassesUp
  <2>4. ASSUME NEW d \in DataMsgs, Inbox' = [Inbox EXCEPT ![r] = Append(@, d)]
        PROVE  Part(Inbox'[u], Inbox[u], AckMsgs)
    <3>1. d \in ToStack /\ d \notin AckMsgs
      BY DEF ToStack, DataMsgs, AckMsgs
    <3>2. Inbox'[u] = IF u = r THEN Append(Inbox[u], d) ELSE Inbox[u]
      BY <2>4 DEF Inbox
    <3>3. Part(Append(Inbox[u], d), Inbox[u], AckMsgs)
      BY <1>2, <3>1, AppendKeys
    <3> QED BY <1>3, <3>2, <3>3
  <2>5. Part(Inbox'[u], Inbox[u], AckMsgs)
    BY <1>3, <2>3, <2>4
  <2> QED BY <1>3, <1>5, <2>1, <2>2, <2>5
<1>14. ASSUME NEW n \in Nodes, NEW f \in TakenBy[n], NEW mc \in Seq(TakenBy[n]),
              Leaves(n, f, mc), Confirmed(n, f),
              UNCHANGED <<stack, sent, slOut, alq, got, reports>>
       PROVE  Line(reports'[u], Inbox'[u], MacOf'[u], alq', slOut'[u], u, Earlier'[u])
  <2>1. n \in Stacks
    BY TakenFrame
  <2>2. \A r \in Stacks : MacOf'[r] = IF r = n THEN mc ELSE MacOf[r]
    BY <1>14, <2>1 DEF Leaves, MacOf, TypeOK
  <2>3. UNCHANGED Earlier /\ MacOf[n] = mac[n]
    BY <1>14, <2>1 DEF Earlier, MacOf
  <2>4. Part(MacOf'[u], MacOf[u], FramesOf(u))
    BY <1>3, <1>14, <2>2, <2>3 DEF Leaves
  <2>5. CASE Inbox'[u] = Inbox[u]
    BY <1>3, <1>5, <1>14, <2>4, <2>5
  <2>6. ASSUME NEW a \in AckFor[n], a.seq = f.seq,
               Inbox' = [Inbox EXCEPT ![n] = Append(@, a)], u = n
        PROVE  Line(reports'[u], Inbox'[u], MacOf'[u], alq', slOut'[u], u, Earlier'[u])
    <3>1. a \in AckMsgs
      BY <2>1 DEF AckFor
    <3>2. Line(reports[n], Append(Inbox[n], a), mc, alq, slOut[n], n, Earlier[n])
      BY <1>2, <1>4, <1>14, <2>1, <2>3, <2>6, <3>1, LineReports DEF Leaves
    <3>3. Inbox'[n] = Append(Inbox[n], a)
      BY <2>1, <2>6 DEF Inbox
    <3> QED BY <1>14, <2>2, <2>3, <2>6, <3>2, <3>3
  <2>7. \A a : Inbox' = [Inbox EXCEPT ![n] = Append(@, a)] /\ u # n => Inbox'[u] = Inbox[u]
    BY DEF Inbox
  <2> QED BY <1>14, <2>5, <2>6, <2>7 DEF Confirmed
<1>15. ASSUME NEW n \in Nodes, Finishes(n)
       PROVE  Line(reports'[u], Inbox'[u], MacOf'[u], alq', slOut'[u], u, Earlier'[u])
  BY <1>14, <1>15 DEF Finishes
<1> QED
  BY <1>7, <1>8, <1>9, <1>10, <1>11, <1>12, <1>13, <1>15 DEF Moves

LEMMA InitOrder == Init => Truthful /\ InOrder
<1> SUFFICES ASSUME Init PROVE Truthful /\ InOrder
  OBVIOUS
<1>1. /\ alq = <<>> /\ alOut = <<>>
      /\ \A s \in Stacks : slOut[s] = <<>> /\ slq[s] = <<>> /\ reports[s] = <<>>
                           /\ got[s] = {} /\ sent[s] = <<>>
      /\ \A n \in Nodes : mac[n] = <<>>
  BY DEF Init
<1>2. \A s \in Stacks : Inbox[s] = <<>> /\ MacOf[s] = <<>>
  BY <1>1 DEF Inbox, MacOf
<1>3. \A S : <<>> \in Seq(S)
  BY SeqTyped
<1>4. Truthful
  BY <1>1, <1>2, <1>3 DEF Truthful, Genuine
<1>5. \A S : Keys(<<>>, S) = {}
  BY DEF Keys
<1>6. \A S, R : Sorted(<<>>, S, R)
  BY DEF Sorted
<1>7. ASSUME NEW s, NEW R PROVE Line(<<>>, <<>>, <<>>, <<>>, <<>>, s, R)
  BY <1>5, <1>6 DEF Line, Told, Coming, InMac, InQueue, InSend
<1>8. InOrder
  BY <1>1, <1>2, <1>7 DEF InOrder
<1> QED BY <1>4, <1>8

LEMMA OrderHolds == Spec => [](TypeOK /\ Truthful /\ InOrder)
<1>1. TypeOK /\ Truthful /\ InOrder /\ [Next]_vars => (Truthful /\ InOrder)'
  BY NextMoves, TruthKept, OrderKept
<1> QED BY InitOrder, <1>1, TypeCorrect, PTL DEF Spec

\* A stackline never gets two ACK messages for one packet, and those of the
\* frames the PHY can carry come in the order of submission
\* (SendAckToStackline, DataConfirm).
THEOREM ReportsComeInOrder == Spec => []ReportsFifo
<1>1. TypeOK /\ Truthful /\ InOrder => ReportsFifo
  <2> SUFFICES ASSUME TypeOK, InOrder, NEW s \in Stacks,
                      NEW i \in DOMAIN reports[s], NEW j \in DOMAIN reports[s], i < j
               PROVE  LET p == reports[s][i].seq
                          q == reports[s][j].seq
                      IN  /\ p # q
                          /\ sent[s][p].fits /\ sent[s][q].fits => p < q
    BY DEF ReportsFifo
  <2>1. reports[s] \in Seq(Reports)
    BY DEF TypeOK, Reports
  <2>2. reports[s][i] \in Reports /\ reports[s][j] \in Reports
    BY <2>1
  <2>3. <<reports[s][i].seq, reports[s][j].seq>> \in Earlier[s]
    BY <2>2 DEF InOrder, Line, Sorted
  <2> QED BY <2>3 DEF Earlier
<1> QED BY <1>1, OrderHolds, PTL

-----------------------------------------------------------------------------
(* No report is lost, and what a stackline receives of another comes in the *)
(* order of submission.                                                     *)

\* Every packet of a living stackline that is to be reported is on its way.
Covered == \A s \in Stacks :
    stack[s] = "up" =>
        ToReport[s] \subseteq OnTheWay(reports[s], Inbox[s], MacOf[s], alq, slOut[s], s)

\* The packets of a stackline that Airline still has as frames, or will get.
Pending == [s \in Stacks |->
    InMac(MacOf[s], s) \cup InQueue(alq, s) \cup InSend(slOut[s], s)]

\* Two packets of a stackline, in order or the same when both fit the PHY.
NotLater == [s \in Stacks |->
    {p \in (DOMAIN sent[s]) \X (DOMAIN sent[s]) :
        sent[s][p[1]].fits /\ sent[s][p[2]].fits => p[1] <= p[2]}]

GotFrom(g, s) == {p[2] : p \in {x \in g : x[1] = s}}

\* Q orders what was received of s, what is coming of s, and the frames of s.
DataLine(g, inb, F, s, Q) ==
    /\ Sorted(inb, DataOf(s), Q)
    /\ GotFrom(g, s) \X Keys(inb, DataOf(s)) \subseteq Q
    /\ (GotFrom(g, s) \cup Keys(inb, DataOf(s))) \X F \subseteq Q

DataInOrder == \A r, s \in Stacks :
    DataLine(got[r], Inbox[r], Pending[s], s, NotLater[s])

\* How the frames of a stackline go from place to place: only a submission
\* adds one, and one that leaves the last place is reported.
LEMMA PendingMoves ==
    ASSUME TypeOK, Genuine, Moves,
           \A s \in Stacks : ~StackSend(s), NEW u \in Stacks
    PROVE  Pending'[u] \subseteq Pending[u]
<1>1. /\ MacOf[u] \in Seq(Frames)
      /\ alq \in Seq(Frames)
      /\ slOut[u] \in Seq(Frames)
  BY SeqTyped DEF TypeOK, MacOf
<1>2. CASE Lessens
  <2>1. UNCHANGED <<alq, MacOf>> /\ slOut'[u] \in {slOut[u], <<>>}
    BY <1>2 DEF Lessens, MacOf
  <2>2. InSend(slOut'[u], u) \subseteq InSend(slOut[u], u)
    BY <2>1 DEF InSend, Keys
  <2> QED BY <2>1, <2>2 DEF Pending
<1>3. ASSUME NEW s \in Stacks, StackUnblock(s) PROVE Pending'[u] \subseteq Pending[u]
  <2>1. /\ slOut[s] # <<>>
        /\ alq' = Append(alq, Head(slOut[s]))
        /\ slOut' = [slOut EXCEPT ![s] = <<>>]
        /\ UNCHANGED MacOf
    BY <1>3 DEF StackUnblock, macVars, MacOf
  <2>2. slOut[s] \in Seq(Frames) /\ Head(slOut[s]) \in SentBy[s]
    BY <2>1, SeqTyped DEF TypeOK, Genuine
  <2>3. Head(slOut[s]) \in Frames /\ Head(slOut[s]) \in FramesOf(s)
    BY <2>2 DEF SentBy, AsSent, Frames, FramesOf
  <2>4. InSend(<<>>, u) = {}
    BY DEF InSend, Keys
  <2>5. slOut'[u] = IF u = s THEN <<>> ELSE slOut[u]
    BY <2>1 DEF TypeOK
  <2>6. CASE u = s
    <3>1. Head(slOut[s]).seq \in InSend(slOut[s], s)
      BY <2>1, <2>2, <2>3, HeadKeys DEF InSend
    <3>2. InQueue(alq', s) \subseteq InQueue(alq, s) \cup {Head(slOut[s]).seq}
      BY <1>1, <2>1, <2>3, AppendKeys DEF InQueue
    <3> QED BY <2>1, <2>4, <2>5, <2>6, <3>1, <3>2 DEF Pending
  <2>7. CASE u # s
    <3>1. Head(slOut[s]) \notin FramesOf(u)
      BY <2>3, <2>7, FramesDiffer
    <3>2. InQueue(alq', u) \subseteq InQueue(alq, u)
      BY <1>1, <2>1, <2>3, <3>1, AppendKeys DEF InQueue, Part
    <3> QED BY <2>1, <2>5, <2>7, <3>2 DEF Pending
  <2> QED BY <2>6, <2>7
<1>4. CASE MsgReaderDrop
  <2>1. alq # <<>> /\ alq' = Tail(alq) /\ UNCHANGED <<slOut, MacOf>>
    BY <1>4 DEF MsgReaderDrop, stackVars, macVars, MacOf
  <2>2. InQueue(alq', u) \subseteq InQueue(alq, u)
    BY <1>1, <2>1, PartKept DEF InQueue, Part
  <2> QED BY <2>1, <2>2 DEF Pending
<1>5. CASE MsgReaderSend
  <2> DEFINE m == Head(alq)
  <2>1. /\ alq # <<>> /\ alq' = Tail(alq) /\ UNCHANGED slOut
        /\ mac' = [mac EXCEPT ![m.src] = Append(@, m)]
    BY <1>5 DEF MsgReaderSend, stackVars
  <2>2. m \in Frames
    BY <1>1, <2>1, SeqTyped
  <2>3. InQueue(alq', u) \subseteq InQueue(alq, u)
    BY <1>1, <2>1, PartKept DEF InQueue, Part
  <2>4. m \in FramesOf(u) => m.seq \in InQueue(alq, u)
    BY <1>1, <2>1, HeadKeys DEF InQueue
  <2> HIDE DEF m
  <2>5. CASE u = m.src /\ u \in Nodes
    <3>1. MacOf'[u] = Append(MacOf[u], m)
      BY <2>1, <2>5 DEF MacOf, TypeOK
    <3>2. m \in FramesOf(u)
      BY <2>2, <2>5 DEF Frames, FramesOf
    <3>3. InMac(MacOf'[u], u) \subseteq InMac(MacOf[u], u) \cup {m.seq}
      BY <1>1, <2>2, <3>1, AppendKeys DEF InMac
    <3> QED BY <2>1, <2>3, <2>4, <3>2, <3>3 DEF Pending
  <2>6. CASE ~(u = m.src /\ u \in Nodes)
    <3>1. MacOf'[u] = MacOf[u]
      BY <2>1, <2>6 DEF MacOf, TypeOK
    <3> QED BY <2>1, <2>3, <3>1 DEF Pending
  <2> QED BY <2>5, <2>6
<1>6. ASSUME UNCHANGED <<mac, alq, slOut>> PROVE Pending'[u] \subseteq Pending[u]
  BY <1>6 DEF Pending, MacOf
<1>7. ASSUME NEW s \in Stacks, StackRecv(s) PROVE Pending'[u] \subseteq Pending[u]
  BY <1>6, <1>7 DEF StackRecv, stackVars, macVars
<1>8. ASSUME NEW n \in Nodes, NEW r \in Nodes, PassesUp(n, r)
      PROVE  Pending'[u] \subseteq Pending[u]
  BY <1>6, <1>8 DEF PassesUp
<1>9. ASSUME NEW n \in Nodes, NEW f \in TakenBy[n], NEW mc \in Seq(TakenBy[n]),
             Leaves(n, f, mc), UNCHANGED <<alq, slOut>>
      PROVE  Pending'[u] \subseteq Pending[u]
  <2>1. n \in Stacks
    BY TakenFrame
  <2>2. \A r \in Stacks : MacOf'[r] = IF r = n THEN mc ELSE MacOf[r]
    BY <1>9, <2>1 DEF Leaves, MacOf, TypeOK
  <2>3. MacOf[n] = mac[n]
    BY <2>1 DEF MacOf
  <2>4. InMac(MacOf'[u], u) \subseteq InMac(MacOf[u], u)
    BY <1>9, <2>2, <2>3 DEF Leaves, InMac, Part
  <2> QED BY <1>9, <2>4 DEF Pending
<1>10. ASSUME NEW n \in Nodes, Finishes(n) PROVE Pending'[u] \subseteq Pending[u]
  BY <1>9, <1>10 DEF Finishes
<1> QED
  BY <1>2, <1>3, <1>4, <1>5, <1>7, <1>8, <1>10 DEF Moves

LEMMA NotLaterGrows ==
    ASSUME Grows, NEW s \in Stacks
    PROVE  NotLater[s] \subseteq NotLater'[s]
BY DEF Grows, NotLater

LEMMA DataLineShrinks ==
    ASSUME NEW s, NEW g, NEW inb, NEW inb2, NEW F, NEW F2, NEW Q, NEW Q2,
           DataLine(g, inb, F, s, Q), Q \subseteq Q2, F2 \subseteq F,
           Part(inb2, inb, DataOf(s))
    PROVE  DataLine(g, inb2, F2, s, Q2)
<1>1. Keys(inb2, DataOf(s)) \subseteq Keys(inb, DataOf(s))
  BY DEF Part
<1>2. Sorted(inb2, DataOf(s), Q2)
  <2>1. Sorted(inb2, DataOf(s), Q)
    BY DEF Part, DataLine
  <2> QED BY <2>1 DEF Sorted
<1>3. GotFrom(g, s) \X Keys(inb2, DataOf(s)) \subseteq Q2
  BY <1>1 DEF DataLine
<1>4. (GotFrom(g, s) \cup Keys(inb2, DataOf(s))) \X F2 \subseteq Q2
  BY <1>1 DEF DataLine
<1> QED BY <1>2, <1>3, <1>4 DEF DataLine

\* A stackline reads a packet.
LEMMA DataLineReads ==
    ASSUME NEW s, NEW g, NEW inb \in Seq(ToStack), NEW F, NEW Q,
           inb # <<>>, Head(inb) \in DataOf(s), DataLine(g, inb, F, s, Q)
    PROVE  DataLine(g \cup {<<s, Head(inb).seq>>}, Tail(inb), F, s, Q)
<1> DEFINE k == Head(inb).seq
           g2 == g \cup {<<s, k>>}
<1>1. /\ k \in Keys(inb, DataOf(s))
      /\ {k} \X Keys(Tail(inb), DataOf(s)) \subseteq Q
  BY HeadKeys DEF DataLine
<1>2. /\ Keys(Tail(inb), DataOf(s)) \subseteq Keys(inb, DataOf(s))
      /\ Sorted(Tail(inb), DataOf(s), Q)
  BY PartKept DEF Part, DataLine
<1> HIDE DEF k
<1>3. GotFrom(g2, s) \subseteq GotFrom(g, s) \cup {k}
  BY DEF GotFrom
<1> HIDE DEF g2
<1>4. GotFrom(g2, s) \X Keys(Tail(inb), DataOf(s)) \subseteq Q
  BY <1>1, <1>2, <1>3 DEF DataLine
<1>5. (GotFrom(g2, s) \cup Keys(Tail(inb), DataOf(s))) \X F \subseteq Q
  BY <1>1, <1>2, <1>3 DEF DataLine
<1>6. DataLine(g2, Tail(inb), F, s, Q)
  BY <1>2, <1>4, <1>5 DEF DataLine
<1> QED BY <1>6 DEF g2, k

\* A node passes on the frame that precedes all others of its sender.
LEMMA DataLineAdds ==
    ASSUME NEW s, NEW g, NEW inb \in Seq(ToStack), NEW F, NEW Q,
           NEW d \in DataOf(s), d \in ToStack, DataLine(g, inb, F, s, Q),
           d.seq \in F, {d.seq} \X F \subseteq Q
    PROVE  DataLine(g, Append(inb, d), F, s, Q)
<1>1. Keys(Append(inb, d), DataOf(s)) = Keys(inb, DataOf(s)) \cup {d.seq}
  BY AppendKeys
<1>2. Sorted(Append(inb, d), DataOf(s), Q)
  <2>1. Sorted(inb, DataOf(s), Q) /\ Keys(inb, DataOf(s)) \X {d.seq} \subseteq Q
    BY DEF DataLine
  <2> QED BY <2>1, AppendKeys
<1>3. GotFrom(g, s) \X Keys(Append(inb, d), DataOf(s)) \subseteq Q
  BY <1>1 DEF DataLine
<1>4. (GotFrom(g, s) \cup Keys(Append(inb, d), DataOf(s))) \X F \subseteq Q
  BY <1>1 DEF DataLine
<1> QED BY <1>2, <1>3, <1>4 DEF DataLine

\* The frame on the air precedes all others of its sender.
LEMMA HeadFirst ==
    ASSUME TypeOK, Truthful, InOrder, NEW n \in Nodes, mac[n] # <<>>
    PROVE  /\ n \in Stacks
           /\ Head(mac[n]).seq \in Pending[n]
           /\ {Head(mac[n]).seq} \X Pending[n] \subseteq NotLater[n]
<1> DEFINE f == Head(mac[n])
<1>1. mac[n] \in Seq(TakenBy[n]) /\ f \in TakenBy[n]
  BY SeqTyped DEF Truthful, Genuine
<1>2. n \in Stacks /\ f \in FramesOf(n) /\ f.seq \in DOMAIN sent[n] /\ MacOf[n] = mac[n]
  BY <1>1, TakenFrame DEF MacOf
<1>3. Line(reports[n], Inbox[n], mac[n], alq, slOut[n], n, Earlier[n])
  BY <1>2 DEF InOrder
<1>4. /\ f.seq \in InMac(mac[n], n)
      /\ {f.seq} \X InMac(Tail(mac[n]), n) \subseteq Earlier[n]
      /\ \A k \in InMac(mac[n], n) : k \in InMac(Tail(mac[n]), n) \/ k = f.seq
  BY <1>1, <1>2, <1>3, HeadKeys DEF InMac, Line
<1>5. <<f.seq, f.seq>> \in NotLater[n]
  <2>1. f.seq <= f.seq
    BY <1>2 DEF FramesOf
  <2> QED BY <1>2, <2>1 DEF NotLater
<1>6. Earlier[n] \subseteq NotLater[n]
  <2>1. ASSUME NEW p \in Earlier[n] PROVE p \in NotLater[n]
    <3>1. /\ p \in (DOMAIN sent[n]) \X (DOMAIN sent[n])
          /\ sent[n][p[1]].fits /\ sent[n][p[2]].fits => p[1] < p[2]
      BY <1>2 DEF Earlier
    <3>2. sent[n] \in Seq(Packets)
      BY <1>2 DEF TypeOK
    <3>3. p[1] < p[2] => p[1] <= p[2]
      BY <3>1, <3>2
    <3> QED BY <1>2, <3>1, <3>3 DEF NotLater
  <2> QED BY <2>1
<1> HIDE DEF f
<1>7. Pending[n] = InMac(mac[n], n) \cup InQueue(alq, n) \cup InSend(slOut[n], n)
  BY <1>2 DEF Pending
<1>8. {f.seq} \X (InQueue(alq, n) \cup InSend(slOut[n], n)) \subseteq Earlier[n]
  BY <1>3, <1>4 DEF Line
<1>9. ASSUME NEW k \in Pending[n] PROVE <<f.seq, k>> \in NotLater[n]
  BY <1>4, <1>5, <1>6, <1>7, <1>8, <1>9
<1> QED BY <1>2, <1>4, <1>7, <1>9 DEF f

LEMMA DataKept ==
    ASSUME TypeOK, Truthful, InOrder, DataInOrder, Moves
    PROVE  DataInOrder'
<1>1. \A s \in Stacks : NotLater[s] \subseteq NotLater'[s]
  BY MovesFrames, FramesGrow, NotLaterGrows
<1>2. \A r, s \in Stacks : DataLine(got[r], Inbox[r], Pending[s], s, NotLater[s])
  BY DEF DataInOrder
<1>3. \A r \in Stacks : Inbox[r] \in Seq(ToStack)
  BY InboxTyped
<1>4. SUFFICES ASSUME NEW r \in Stacks, NEW s \in Stacks
               PROVE  DataLine(got'[r], Inbox'[r], Pending'[s], s, NotLater'[s])
  BY DEF DataInOrder
<1>5. ASSUME got'[r] = got[r], Part(Inbox'[r], Inbox[r], DataOf(s)),
             Pending'[s] \subseteq Pending[s]
      PROVE  DataLine(got'[r], Inbox'[r], Pending'[s], s, NotLater'[s])
  BY <1>1, <1>2, <1>5, DataLineShrinks
<1>6. Part(Inbox[r], Inbox[r], DataOf(s))
  BY DEF Part
<1>7. ASSUME NEW u \in Stacks, StackSend(u)
      PROVE  DataLine(got'[r], Inbox'[r], Pending'[s], s, NotLater'[s])
  <2>1. PICK x \in SentBy'[u] :
              /\ x \in FramesOf(u)
              /\ x.seq = Len(sent[u]) + 1
              /\ sent'[u] = Append(sent[u], [dst |-> x.dst, fits |-> x.fits])
              /\ sent[u] \in Seq(Packets)
              /\ slOut[u] = <<>>
              /\ \/ /\ alq' = Append(alq, x)
                    /\ slOut' = slOut
                 \/ /\ alq' = alq
                    /\ slOut' = [slOut EXCEPT ![u] = <<x>>]
              /\ UNCHANGED <<stack, mac, got, reports, Inbox>>
    BY <1>7, Submits
  <2>2. x \in Frames /\ UNCHANGED MacOf /\ alq \in Seq(Frames)
    BY <2>1 DEF SentBy, AsSent, MacOf, TypeOK
  <2>3. InQueue(Append(alq, x), s) \subseteq
            InQueue(alq, s) \cup (IF s = u THEN {x.seq} ELSE {})
    <3>1. CASE s = u
      BY <2>2, <3>1, AppendKeys DEF InQueue
    <3>2. CASE s # u
      <4>1. x \notin FramesOf(s)
        BY <2>1, <3>2, FramesDiffer
      <4> QED BY <2>2, <3>2, <4>1, AppendKeys DEF InQueue, Part
    <3> QED BY <3>1, <3>2
  <2>4. InSend(slOut'[s], s) \subseteq
            InSend(slOut[s], s) \cup (IF s = u THEN {x.seq} ELSE {})
    <3>1. InSend(<<x>>, s) \subseteq {x.seq}
      BY DEF InSend, Keys
    <3>2. slOut'[s] = slOut[s] \/ (s = u /\ slOut'[s] = <<x>>)
      BY <2>1 DEF TypeOK
    <3> QED BY <3>1, <3>2
  <2>5. Pending'[s] \subseteq Pending[s] \cup (IF s = u THEN {x.seq} ELSE {})
    BY <2>1, <2>2, <2>3, <2>4 DEF Pending
  <2>6. CASE s # u
    BY <1>5, <1>6, <2>1, <2>5, <2>6
  <2>7. CASE s = u
    <3>1. DataLine(got[r], Inbox[r], Pending[s], s, NotLater'[s])
      BY <1>1, <1>2, <1>6, DataLineShrinks
    <3>2. ASSUME NEW k \in DOMAIN sent[s] PROVE <<k, x.seq>> \in NotLater'[s]
      <4>1. k \in DOMAIN sent'[s] /\ x.seq \in DOMAIN sent'[s] /\ k <= x.seq
        BY <2>1, <2>7
      <4> QED BY <4>1 DEF NotLater
    <3>3. GotFrom(got[r], s) \subseteq DOMAIN sent[s]
      BY DEF GotFrom, Truthful, GotFor
    <3>4. Keys(Inbox[r], DataOf(s)) \subseteq DOMAIN sent[s]
      <4>1. \A m \in AckFor[r] : m \notin DataOf(s)
        BY DEF AckFor, AckMsgs, DataOf
      <4>2. \A m \in DataFor[r] : m \in DataOf(s) => m.seq \in DOMAIN sent[s]
        BY DEF DataFor, DataOf
      <4>3. Inbox[r] \in Seq(AckFor[r] \cup DataFor[r])
        BY DEF Truthful
      <4>4. \A m \in AckFor[r] \cup DataFor[r] :
               m \in DataOf(s) => m.seq \in DOMAIN sent[s]
        BY <4>1, <4>2
      <4> QED BY <4>3, <4>4, KeysIn
    <3>5. (GotFrom(got[r], s) \cup Keys(Inbox[r], DataOf(s))) \X Pending'[s]
              \subseteq NotLater'[s]
      <4>1. SUFFICES ASSUME NEW k \in GotFrom(got[r], s) \cup Keys(Inbox[r], DataOf(s)),
                            NEW j \in Pending'[s]
                     PROVE  <<k, j>> \in NotLater'[s]
        OBVIOUS
      <4>2. CASE j \in Pending[s]
        BY <3>1, <4>1, <4>2 DEF DataLine
      <4>3. CASE j = x.seq
        BY <3>2, <3>3, <3>4, <4>1, <4>3
      <4> QED BY <2>5, <2>7, <4>2, <4>3
    <3> QED BY <2>1, <3>1, <3>5 DEF DataLine
  <2> QED BY <2>6, <2>7
<1>8. (\A u \in Stacks : ~StackSend(u)) => Pending'[s] \subseteq Pending[s]
  BY PendingMoves DEF Truthful
<1>9. ASSUME Lessens, Pending'[s] \subseteq Pending[s]
      PROVE  DataLine(got'[r], Inbox'[r], Pending'[s], s, NotLater'[s])
  <2>1. got'[r] = got[r] /\ Part(Inbox'[r], Inbox[r], DataOf(s))
    BY <1>3, <1>9, LessensParts DEF Lessens
  <2> QED BY <1>5, <1>9, <2>1
<1>10. ASSUME UNCHANGED <<got, alOut, slq>>, Pending'[s] \subseteq Pending[s]
       PROVE  DataLine(got'[r], Inbox'[r], Pending'[s], s, NotLater'[s])
  BY <1>5, <1>6, <1>10 DEF Inbox
<1>11. ASSUME NEW u \in Stacks, StackUnblock(u), Pending'[s] \subseteq Pending[s]
       PROVE  DataLine(got'[r], Inbox'[r], Pending'[s], s, NotLater'[s])
  BY <1>10, <1>11 DEF StackUnblock, historyVars
<1>12. ASSUME MsgReaderDrop \/ MsgReaderSend, Pending'[s] \subseteq Pending[s]
       PROVE  DataLine(got'[r], Inbox'[r], Pending'[s], s, NotLater'[s])
  BY <1>10, <1>12 DEF MsgReaderDrop, MsgReaderSend, historyVars
<1>13. ASSUME NEW u \in Stacks, StackRecv(u), Pending'[s] \subseteq Pending[s]
       PROVE  DataLine(got'[r], Inbox'[r], Pending'[s], s, NotLater'[s])
  <2> DEFINE m == Head(slq[u])
  <2>1. /\ Inbox[u] # <<>>
        /\ Head(Inbox[u]) = m
        /\ Inbox' = [Inbox EXCEPT ![u] = Tail(@)]
    BY <1>13, InboxRead
  <2>2. Inbox'[r] = IF r = u THEN Tail(Inbox[u]) ELSE Inbox[r]
    BY <2>1 DEF Inbox
  <2>3. Part(Inbox'[r], Inbox[r], DataOf(s))
    BY <1>3, <1>6, <2>1, <2>2, PartKept
  <2>4. CASE UNCHANGED got
    BY <1>5, <1>13, <2>3, <2>4
  <2>5. CASE m.kind = "data" /\ got' = [got EXCEPT ![u] = @ \cup {<<m.src, m.seq>>}]
    <3>1. got'[r] = IF r = u THEN got[r] \cup {<<m.src, m.seq>>} ELSE got[r]
      BY <2>5 DEF TypeOK
    <3>2. m \in ToStack
      BY <1>3, <2>1, SeqTyped
    <3>3. m \in DataOf(m.src)
      BY <2>5, <3>2 DEF ToStack, DataMsgs, AckMsgs, DataOf
    <3> HIDE DEF m
    <3>4. CASE r = u /\ m.src = s
      <4>1. DataLine(got[r] \cup {<<s, m.seq>>}, Tail(Inbox[r]), Pending[s], s, NotLater[s])
        BY <1>2, <1>3, <2>1, <3>3, <3>4, DataLineReads
      <4>2. Part(Tail(Inbox[r]), Tail(Inbox[r]), DataOf(s))
        BY DEF Part
      <4> QED BY <1>1, <1>13, <2>2, <3>1, <3>4, <4>1, <4>2, DataLineShrinks
    <3>5. CASE r = u /\ m.src # s
      <4>1. GotFrom(got'[r], s) = GotFrom(got[r], s)
        BY <3>1, <3>5 DEF GotFrom
      <4>2. DataLine(got[r], Inbox'[r], Pending'[s], s, NotLater'[s])
        BY <1>1, <1>2, <1>13, <2>3, DataLineShrinks
      <4> QED BY <4>1, <4>2 DEF DataLine
    <3>6. CASE r # u
      BY <1>5, <1>13, <2>3, <3>1, <3>6
    <3> QED BY <3>4, <3>5, <3>6
  <2> QED BY <1>13, <2>4, <2>5 DEF StackRecv
<1>14. ASSUME NEW n \in Nodes, NEW v \in Nodes, PassesUp(n, v),
              Pending'[s] \subseteq Pending[s]
       PROVE  DataLine(got'[r], Inbox'[r], Pending'[s], s, NotLater'[s])
  <2>1. got' = got
    BY <1>14 DEF PassesUp
  <2>2. CASE Inbox' = Inbox
    BY <1>5, <1>6, <1>14, <2>1, <2>2
  <2>3. ASSUME NEW d \in DataMsgs, d.src = n, d.seq = Head(mac[n]).seq,
               Inbox' = [Inbox EXCEPT ![v] = Append(@, d)]
        PROVE  DataLine(got'[r], Inbox'[r], Pending'[s], s, NotLater'[s])
    <3>1. d \in ToStack /\ d \in DataOf(n)
      BY <2>3 DEF ToStack, DataMsgs, DataOf
    <3>2. Inbox'[r] = IF r = v THEN Append(Inbox[r], d) ELSE Inbox[r]
      BY <2>3 DEF Inbox
    <3>3. CASE s = n /\ r = v
      <4>1. d.seq \in Pending[s] /\ {d.seq} \X Pending[s] \subseteq NotLater[s]
        BY <1>14, <2>3, <3>3, HeadFirst DEF PassesUp
      <4>2. DataLine(got[r], Append(Inbox[r], d), Pending[s], s, NotLater[s])
        BY <1>2, <1>3, <3>1, <3>3, <4>1, DataLineAdds
      <4>3. Part(Append(Inbox[r], d), Append(Inbox[r], d), DataOf(s))
        BY DEF Part
      <4> QED BY <1>1, <1>14, <2>1, <3>2, <3>3, <4>2, <4>3, DataLineShrinks
    <3>4. CASE s # n
      <4>1. d \notin DataOf(s)
        BY <3>1, <3>4 DEF DataOf
      <4>2. Part(Append(Inbox[r], d), Inbox[r], DataOf(s))
        BY <1>3, <3>1, <4>1, AppendKeys
      <4> QED BY <1>5, <1>6, <1>14, <2>1, <3>2, <4>2
    <3>5. CASE r # v
      BY <1>5, <1>6, <1>14, <2>1, <3>2, <3>5
    <3> QED BY <3>3, <3>4, <3>5
  <2> QED BY <1>14, <2>2, <2>3 DEF PassesUp
<1>15. ASSUME NEW n \in Nodes, NEW f \in TakenBy[n], Confirmed(n, f),
              UNCHANGED got, Pending'[s] \subseteq Pending[s]
       PROVE  DataLine(got'[r], Inbox'[r], Pending'[s], s, NotLater'[s])
  <2>1. n \in Stacks
    BY TakenFrame
  <2>2. CASE Inbox' = Inbox
    BY <1>5, <1>6, <1>15, <2>2
  <2>3. ASSUME NEW a \in AckFor[n], Inbox' = [Inbox EXCEPT ![n] = Append(@, a)]
        PROVE  Part(Inbox'[r], Inbox[r], DataOf(s))
    <3>1. a \in ToStack /\ a \notin DataOf(s)
      BY <2>1 DEF AckFor, ToStack, AckMsgs, DataOf
    <3>2. Inbox'[r] = IF r = n THEN Append(Inbox[r], a) ELSE Inbox[r]
      BY <2>3 DEF Inbox
    <3>3. Part(Append(Inbox[r], a), Inbox[r], DataOf(s))
      BY <1>3, <3>1, AppendKeys
    <3> QED BY <1>6, <3>2, <3>3
  <2> QED BY <1>5, <1>15, <2>2, <2>3 DEF Confirmed
<1>16. ASSUME NEW n \in Nodes, Finishes(n), Pending'[s] \subseteq Pending[s]
       PROVE  DataLine(got'[r], Inbox'[r], Pending'[s], s, NotLater'[s])
  BY <1>15, <1>16 DEF Finishes
<1> QED
  BY <1>7, <1>8, <1>9, <1>11, <1>12, <1>13, <1>14, <1>16 DEF Moves

\* What is to be reported of a stackline, but for what it has just submitted.
LEMMA ToReportSame ==
    ASSUME NEW s \in Stacks, sent'[s] = sent[s]
    PROVE  ToReport'[s] = ToReport[s]
BY DEF ToReport, Reportable, Service!Reportable, Service!Accepted

\* The blocked send of a stackline is one send.
OneHeld == \A s \in Stacks : Len(slOut[s]) <= 1

LEMMA OneHeldKept ==
    ASSUME TypeOK, OneHeld, Moves
    PROVE  OneHeld'
<1>1. ASSUME NEW s \in Stacks, slOut'[s] = slOut[s] \/ Len(slOut'[s]) <= 1
      PROVE  Len(slOut'[s]) <= 1
  BY <1>1 DEF OneHeld
<1>2. Len(<<>>) <= 1 /\ \A x : Len(<<x>>) <= 1
  OBVIOUS
<1>3. ASSUME NEW s \in Stacks PROVE slOut'[s] = slOut[s] \/ Len(slOut'[s]) <= 1
  <2>1. CASE Lessens
    BY <1>2, <2>1 DEF Lessens
  <2>2. CASE ~Lessens
    <3>1. \/ UNCHANGED slOut
          \/ \E u \in Stacks : \/ slOut' = [slOut EXCEPT ![u] = <<>>]
                               \/ \E x : slOut' = [slOut EXCEPT ![u] = <<x>>]
      BY <2>2 DEF Moves, StackSend, StackUnblock, StackRecv, MsgReaderDrop,
         MsgReaderSend, PassesUp, Finishes, stackVars
    <3> QED BY <1>2, <3>1 DEF TypeOK
  <2> QED BY <2>1, <2>2
<1> QED BY <1>1, <1>3 DEF OneHeld

LEMMA CoverKept ==
    ASSUME TypeOK, Truthful, InOrder, OneHeld, Covered, Moves
    PROVE  Covered'
<1> SUFFICES ASSUME NEW u \in Stacks, stack'[u] = "up", NEW k \in ToReport'[u]
             PROVE  k \in OnTheWay(reports'[u], Inbox'[u], MacOf'[u], alq', slOut'[u], u)
  BY DEF Covered
<1>1. /\ reports[u] \in Seq(Reports)
      /\ Inbox[u] \in Seq(ToStack)
      /\ MacOf[u] \in Seq(Frames)
      /\ alq \in Seq(Frames)
      /\ slOut[u] \in Seq(Frames)
  BY InboxTyped, SeqTyped DEF TypeOK, MacOf, Reports
<1>2. ASSUME stack[u] = "up", sent'[u] = sent[u]
      PROVE  k \in OnTheWay(reports[u], Inbox[u], MacOf[u], alq, slOut[u], u)
  BY <1>2, ToReportSame DEF Covered
<1>3. CASE Lessens
  <2>1. /\ UNCHANGED <<sent, alq, MacOf, reports>>
        /\ stack[u] \in {"new", "up"} /\ slOut'[u] = slOut[u] /\ Inbox'[u] = Inbox[u]
    BY <1>3 DEF Lessens, MacOf
  <2>2. CASE stack[u] = "up"
    BY <1>2, <2>1, <2>2
  <2>3. CASE stack[u] = "new"
    <3>1. sent'[u] = <<>>
      BY <2>1, <2>3 DEF Truthful, Genuine
    <3> QED BY <3>1 DEF ToReport
  <2> QED BY <2>1, <2>2, <2>3
<1>4. ASSUME NEW s \in Stacks, StackSend(s)
      PROVE  k \in OnTheWay(reports'[u], Inbox'[u], MacOf'[u], alq', slOut'[u], u)
  <2>1. PICK x \in SentBy'[s] :
              /\ x \in FramesOf(s)
              /\ x.seq = Len(sent[s]) + 1
              /\ sent'[s] = Append(sent[s], [dst |-> x.dst, fits |-> x.fits])
              /\ sent[s] \in Seq(Packets)
              /\ \A v \in Stacks \ {s} : sent'[v] = sent[v]
              /\ slOut[s] = <<>>
              /\ \/ /\ alq' = Append(alq, x)
                    /\ slOut' = slOut
                 \/ /\ alq' = alq
                    /\ slOut' = [slOut EXCEPT ![s] = <<x>>]
              /\ UNCHANGED <<stack, mac, got, reports, Inbox>>
    BY <1>4, Submits
  <2>2. x \in Frames /\ UNCHANGED <<reports, Inbox, MacOf>> /\ stack[u] = "up"
    BY <2>1 DEF SentBy, AsSent, MacOf
  <2>3. InQueue(alq, u) \subseteq InQueue(Append(alq, x), u)
    BY <1>1, <2>2, AppendGrows DEF InQueue
  <2>4. InSend(slOut[u], u) \subseteq InSend(slOut'[u], u)
    <3>1. slOut'[u] = slOut[u] \/ (u = s /\ slOut[u] = <<>>)
      BY <2>1 DEF TypeOK
    <3>2. InSend(<<>>, u) = {}
      BY DEF InSend, Keys
    <3> QED BY <3>1, <3>2
  <2>5. OnTheWay(reports[u], Inbox[u], MacOf[u], alq, slOut[u], u) \subseteq
            OnTheWay(reports'[u], Inbox'[u], MacOf'[u], alq', slOut'[u], u)
    BY <2>1, <2>2, <2>3, <2>4 DEF OnTheWay
  <2>6. CASE u # s
    BY <1>2, <2>1, <2>2, <2>5, <2>6
  <2>7. CASE u = s
    <3>1. CASE k = x.seq
      <4>1. CASE alq' = Append(alq, x)
        <5>1. x.seq \in InQueue(alq', s)
          BY <1>1, <2>1, <2>2, <4>1, AppendGrows DEF InQueue
        <5> QED BY <2>7, <3>1, <5>1 DEF OnTheWay
      <4>2. CASE slOut' = [slOut EXCEPT ![s] = <<x>>]
        <5>1. slOut'[s] = <<x>>
          BY <4>2 DEF TypeOK
        <5>2. x.seq \in InSend(<<x>>, s)
          <6>1. 1 \in DOMAIN <<x>> /\ <<x>>[1] = x
            OBVIOUS
          <6> QED BY <2>1, <6>1 DEF InSend, Keys
        <5> QED BY <2>7, <3>1, <5>1, <5>2 DEF OnTheWay
      <4> QED BY <2>1, <4>1, <4>2
    <3>2. CASE k # x.seq
      <4> DEFINE p == [dst |-> x.dst, fits |-> x.fits]
      <4>1. k \in DOMAIN Append(sent[s], p)
        BY <2>1, <2>7 DEF ToReport
      <4>2. k \in DOMAIN sent[s] /\ sent'[s][k] = sent[s][k]
        BY <2>1, <3>2, <4>1
      <4>3. k \in ToReport[s]
        BY <2>7, <4>2 DEF ToReport, Reportable, Service!Reportable, Service!Accepted
      <4> QED BY <2>2, <2>5, <2>7, <4>3 DEF Covered
    <3> QED BY <3>1, <3>2
  <2> QED BY <2>6, <2>7
<1>5. ASSUME NEW s \in Stacks, StackUnblock(s)
      PROVE  k \in OnTheWay(reports'[u], Inbox'[u], MacOf'[u], alq', slOut'[u], u)
  <2>1. /\ slOut[s] # <<>>
        /\ alq' = Append(alq, Head(slOut[s]))
        /\ slOut' = [slOut EXCEPT ![s] = <<>>]
        /\ UNCHANGED <<stack, sent, mac, reports, alOut, slq>>
    BY <1>5 DEF StackUnblock, macVars, historyVars
  <2>2. UNCHANGED <<Inbox, MacOf, reports>>
    BY <2>1 DEF Inbox, MacOf
  <2>3. k \in OnTheWay(reports[u], Inbox[u], MacOf[u], alq, slOut[u], u)
    BY <1>2, <2>1
  <2>4. slOut[s] \in Seq(Frames) /\ slOut[s] \in Seq(SentBy[s])
        /\ Head(slOut[s]) \in Frames /\ Head(slOut[s]) \in FramesOf(s)
    <3>1. slOut[s] \in Seq(Frames) /\ slOut[s] \in Seq(SentBy[s])
      BY DEF TypeOK, Truthful, Genuine
    <3>2. Head(slOut[s]) \in SentBy[s]
      BY <2>1, <3>1, SeqTyped
    <3> QED BY <3>1, <3>2 DEF SentBy, AsSent, Frames, FramesOf
  <2>5. InQueue(alq, u) \subseteq InQueue(alq', u)
    BY <1>1, <2>1, <2>4, AppendGrows DEF InQueue
  <2>6. CASE u # s
    <3>1. slOut'[u] = slOut[u]
      BY <2>1, <2>6 DEF TypeOK
    <3> QED BY <2>2, <2>3, <2>5, <3>1 DEF OnTheWay
  <2>7. CASE u = s
    <3>1. InSend(slOut[s], s) \subseteq InQueue(alq', s)
      <4>1. Tail(slOut[s]) = <<>>
        BY <2>1, <2>4 DEF OneHeld
      <4>2. Keys(Tail(slOut[s]), FramesOf(s)) = {}
        BY <4>1 DEF Keys
      <4>3. Head(slOut[s]).seq \in InQueue(alq', s)
        BY <1>1, <2>1, <2>4, AppendGrows DEF InQueue
      <4> QED BY <2>1, <2>4, <4>2, <4>3, HeadKeys DEF InSend
    <3> QED BY <2>2, <2>3, <2>5, <2>7, <3>1 DEF OnTheWay
  <2> QED BY <2>6, <2>7
<1>6. ASSUME NEW s \in Stacks, StackRecv(s)
      PROVE  k \in OnTheWay(reports'[u], Inbox'[u], MacOf'[u], alq', slOut'[u], u)
  <2> DEFINE m == Head(slq[s])
             p == [seq |-> m.seq, status |-> m.status]
  <2>1. /\ Inbox[s] # <<>>
        /\ Head(Inbox[s]) = m
        /\ Inbox' = [Inbox EXCEPT ![s] = Tail(@)]
    BY <1>6, InboxRead
  <2>2. UNCHANGED <<stack, sent, slOut, alq, MacOf>>
    BY <1>6 DEF StackRecv, stackVars, macVars, MacOf
  <2>3. Inbox'[u] = IF u = s THEN Tail(Inbox[u]) ELSE Inbox[u]
    BY <2>1 DEF Inbox
  <2>4. k \in OnTheWay(reports[u], Inbox[u], MacOf[u], alq, slOut[u], u)
    BY <1>2, <2>2
  <2>5. m \in ToStack
    BY <1>1, <2>1, InboxTyped, SeqTyped
  <2>6. Told(reports[u]) \subseteq Told(reports'[u])
    <3>1. CASE UNCHANGED reports
      BY <3>1
    <3>2. CASE m.kind = "ack" /\ reports' = [reports EXCEPT ![s] = Append(@, p)]
      <4>1. p \in Reports
        BY <2>5, <3>2 DEF ToStack, DataMsgs, AckMsgs, Reports
      <4>2. reports'[u] = reports[u] \/ reports'[u] = Append(reports[u], p)
        BY <3>2 DEF TypeOK
      <4> HIDE DEF p
      <4> QED BY <1>1, <4>1, <4>2, AppendGrows DEF Told
    <3> QED BY <1>6, <3>1, <3>2 DEF StackRecv
  <2>7. CASE k \in Coming(Inbox[u])
    <3>1. CASE k \in Coming(Inbox'[u])
      BY <3>1 DEF OnTheWay
    <3>2. CASE k \notin Coming(Inbox'[u])
      <4>1. u = s /\ m \in AckMsgs /\ k = m.seq
        BY <1>1, <2>1, <2>3, <2>7, <3>2, HeadKeys DEF Coming
      <4>2. reports'[u] = Append(reports[u], p)
        BY <1>6, <4>1 DEF StackRecv, AckMsgs, TypeOK
      <4>3. p \in Reports /\ p.seq = k
        BY <4>1 DEF AckMsgs, Reports
      <4> HIDE DEF p
      <4>4. k \in Told(reports'[u])
        BY <1>1, <4>2, <4>3, AppendGrows DEF Told
      <4> QED BY <4>4 DEF OnTheWay
    <3> QED BY <3>1, <3>2
  <2>8. CASE k \notin Coming(Inbox[u])
    BY <2>2, <2>4, <2>6, <2>8 DEF OnTheWay
  <2> QED BY <2>7, <2>8
<1>7. CASE MsgReaderDrop
  <2>1. UNCHANGED <<stack, sent, slOut, mac, reports, alOut, slq>>
        /\ alq # <<>> /\ alq' = Tail(alq) /\ ~Acceptable(Head(alq))
    BY <1>7 DEF MsgReaderDrop, stackVars, macVars, historyVars
  <2>2. UNCHANGED <<Inbox, MacOf>>
    BY <2>1 DEF Inbox, MacOf
  <2>3. k \in OnTheWay(reports[u], Inbox[u], MacOf[u], alq, slOut[u], u)
    BY <1>2, <2>1
  <2>4. CASE k \in InQueue(alq, u) /\ k \notin InQueue(alq', u)
    <3>1. Head(alq) \in FramesOf(u) /\ k = Head(alq).seq
      BY <1>1, <2>1, <2>4, HeadKeys DEF InQueue
    <3>2. Head(alq) \in AsSent
      BY <2>1, SeqTyped DEF Truthful, Genuine
    <3>3. Head(alq).src = u /\ sent[u][k].dst = Head(alq).dst
      BY <3>1, <3>2 DEF FramesOf, AsSent
    <3>4. Service!Accepted(u, k)
      BY <2>1, ToReportSame DEF ToReport, Reportable, Service!Reportable
    <3>5. Acceptable(Head(alq))
      BY <3>3, <3>4 DEF Service!Accepted, Acceptable, IN_RANGE, Service!IN_RANGE,
         CL_DSTID_MACHDR_PRESENT, Service!CL_DSTID_MACHDR_PRESENT
    <3> QED BY <2>1, <3>5
  <2>5. CASE ~(k \in InQueue(alq, u) /\ k \notin InQueue(alq', u))
    BY <2>1, <2>2, <2>3, <2>5 DEF OnTheWay
  <2> QED BY <2>4, <2>5
<1>8. CASE MsgReaderSend
  <2> DEFINE m == Head(alq)
  <2>1. UNCHANGED <<stack, sent, slOut, reports, alOut, slq>>
        /\ alq # <<>> /\ alq' = Tail(alq) /\ Acceptable(m)
        /\ mac' = [mac EXCEPT ![m.src] = Append(@, m)]
    BY <1>8 DEF MsgReaderSend, stackVars, historyVars
  <2>2. UNCHANGED Inbox
    BY <2>1 DEF Inbox
  <2>3. k \in OnTheWay(reports[u], Inbox[u], MacOf[u], alq, slOut[u], u)
    BY <1>2, <2>1
  <2>4. m \in Frames
    BY <1>1, <2>1, SeqTyped
  <2>5. m.src \in Nodes
    <3>1. \A i \in Stacks : i >= 0 /\ i < NumNodes => i \in Nodes
      BY DataPlaneAssumption DEF Ids, Nodes
    <3>2. m.src \in Stacks
      BY <2>4 DEF Frames
    <3>3. m.src >= 0 /\ m.src < NumNodes
      BY <2>1 DEF Acceptable, IN_RANGE
    <3> QED BY <3>1, <3>2, <3>3
  <2>6. k \in InQueue(alq, u) => \/ k \in InQueue(alq', u)
                                 \/ m \in FramesOf(u) /\ k = m.seq
    BY <1>1, <2>1, HeadKeys DEF InQueue
  <2> HIDE DEF m
  <2>7. MacOf'[u] = IF u = m.src THEN Append(MacOf[u], m) ELSE MacOf[u]
    BY <2>1, <2>5 DEF MacOf, TypeOK
  <2>8. InMac(MacOf[u], u) \subseteq InMac(MacOf'[u], u)
    BY <1>1, <2>4, <2>7, AppendGrows DEF InMac
  <2>9. m \in FramesOf(u) => m.seq \in InMac(MacOf'[u], u)
    <3>1. m \in FramesOf(u) => m.src = u
      BY DEF FramesOf
    <3> QED BY <1>1, <2>4, <2>7, <3>1, AppendGrows DEF InMac
  <2> QED BY <2>1, <2>2, <2>3, <2>6, <2>8, <2>9 DEF OnTheWay
<1>9. ASSUME NEW n \in Nodes, NEW r \in Nodes, PassesUp(n, r)
      PROVE  k \in OnTheWay(reports'[u], Inbox'[u], MacOf'[u], alq', slOut'[u], u)
  <2>1. UNCHANGED <<stack, sent, slOut, alq, MacOf, reports>>
    BY <1>9 DEF PassesUp, MacOf
  <2>2. k \in OnTheWay(reports[u], Inbox[u], MacOf[u], alq, slOut[u], u)
    BY <1>2, <2>1
  <2>3. ASSUME NEW d \in DataMsgs, Inbox' = [Inbox EXCEPT ![r] = Append(@, d)]
        PROVE  Coming(Inbox[u]) \subseteq Coming(Inbox'[u])
    <3>1. d \in ToStack
      BY DEF ToStack
    <3>2. Inbox'[u] = IF u = r THEN Append(Inbox[u], d) ELSE Inbox[u]
      BY <2>3 DEF Inbox
    <3> QED BY <1>1, <3>1, <3>2, AppendGrows DEF Coming
  <2>4. Coming(Inbox[u]) \subseteq Coming(Inbox'[u])
    BY <1>9, <2>3 DEF PassesUp
  <2> QED BY <2>1, <2>2, <2>4 DEF OnTheWay
<1>10. ASSUME NEW n \in Nodes, NEW f \in TakenBy[n], NEW mc \in Seq(TakenBy[n]),
              Leaves(n, f, mc), Confirmed(n, f),
              UNCHANGED <<stack, sent, slOut, alq, got, reports>>
       PROVE  k \in OnTheWay(reports'[u], Inbox'[u], MacOf'[u], alq', slOut'[u], u)
  <2>1. n \in Stacks /\ sent[n][f.seq].dst = f.dst
    BY TakenFrame
  <2>2. MacOf'[u] = IF u = n THEN mc ELSE MacOf[u]
    BY <1>10, <2>1 DEF Leaves, MacOf, TypeOK
  <2>3. MacOf[n] = mac[n]
    BY <2>1 DEF MacOf
  <2>4. k \in OnTheWay(reports[u], Inbox[u], MacOf[u], alq, slOut[u], u)
    BY <1>2, <1>10
  <2>5. ASSUME NEW a \in AckFor[n], a.seq = f.seq,
               Inbox' = [Inbox EXCEPT ![n] = Append(@, a)]
        PROVE  /\ Coming(Inbox[u]) \subseteq Coming(Inbox'[u])
               /\ u = n => f.seq \in Coming(Inbox'[u])
    <3>1. a \in AckMsgs /\ a \in ToStack
      BY <2>1 DEF AckFor, ToStack
    <3>2. Inbox'[u] = IF u = n THEN Append(Inbox[u], a) ELSE Inbox[u]
      BY <2>5 DEF Inbox
    <3> QED BY <1>1, <2>5, <3>1, <3>2, AppendGrows DEF Coming
  <2>6. Coming(Inbox[u]) \subseteq Coming(Inbox'[u])
    BY <1>10, <2>5 DEF Confirmed
  <2>7. CASE k \notin InMac(MacOf[u], u) \/ k \in InMac(MacOf'[u], u)
    BY <1>10, <2>4, <2>6, <2>7 DEF OnTheWay
  <2>8. CASE k \in InMac(MacOf[u], u) /\ k \notin InMac(MacOf'[u], u)
    <3>1. u = n /\ k = f.seq
      BY <1>10, <2>2, <2>3, <2>8 DEF Leaves
    <3>2. f.dst # BCAST
      BY <1>10, <2>1, <3>1
      DEF ToReport, Reportable, Service!Reportable, BCAST, Service!BCAST
    <3>3. stack[n] = "up"
      BY <1>10, <3>1
    <3>4. f.seq \in Coming(Inbox'[u])
      BY <1>10, <2>5, <3>1, <3>2, <3>3 DEF Confirmed
    <3> QED BY <3>1, <3>4 DEF OnTheWay
  <2> QED BY <2>7, <2>8
<1>11. ASSUME NEW n \in Nodes, Finishes(n)
       PROVE  k \in OnTheWay(reports'[u], Inbox'[u], MacOf'[u], alq', slOut'[u], u)
  BY <1>10, <1>11 DEF Finishes
<1> QED
  BY <1>3, <1>4, <1>5, <1>6, <1>7, <1>8, <1>9, <1>11 DEF Moves

LEMMA InitCovers == Init => OneHeld /\ Covered /\ DataInOrder
<1> SUFFICES ASSUME Init PROVE OneHeld /\ Covered /\ DataInOrder
  OBVIOUS
<1>1. /\ alq = <<>> /\ alOut = <<>>
      /\ \A s \in Stacks : slOut[s] = <<>> /\ slq[s] = <<>> /\ got[s] = {}
                           /\ stack[s] = "new"
      /\ \A n \in Nodes : mac[n] = <<>>
  BY DEF Init
<1>2. \A s \in Stacks : Inbox[s] = <<>> /\ MacOf[s] = <<>>
  BY <1>1 DEF Inbox, MacOf
<1>3. \A S : Keys(<<>>, S) = {}
  BY DEF Keys
<1>4. \A s \in Stacks : Pending[s] = {}
  BY <1>1, <1>2, <1>3 DEF Pending, InMac, InQueue, InSend
<1>5. DataInOrder
  <2>1. ASSUME NEW s, NEW Q PROVE DataLine({}, <<>>, {}, s, Q)
    BY <1>3 DEF DataLine, GotFrom, Sorted
  <2> QED BY <1>1, <1>2, <1>4, <2>1 DEF DataInOrder
<1>6. OneHeld
  BY <1>1 DEF OneHeld
<1>7. Covered
  BY <1>1 DEF Covered
<1> QED BY <1>5, <1>6, <1>7

\* What holds in every state of the data plane.
Sound == TypeOK /\ Truthful /\ InOrder /\ OneHeld /\ Covered /\ DataInOrder

\* Moving packets keeps it.
LEMMA SoundKept ==
    ASSUME Sound, Moves, TypeOK'
    PROVE  Sound'
<1> USE DEF Sound
<1>1. Truthful' /\ InOrder' /\ OneHeld'
  BY TruthKept, OrderKept, OneHeldKept
<1>2. Covered' /\ DataInOrder'
  BY CoverKept, DataKept
<1> QED BY <1>1, <1>2

LEMMA SoundHolds == Spec => []Sound
<1>1. Init => Sound
  BY InitTyped, InitOrder, InitCovers DEF Sound
<1>2. Sound /\ [Next]_vars => Sound'
  BY StepTyped, NextMoves, SoundKept DEF Sound
<1> QED BY <1>1, <1>2, PTL DEF Spec

-----------------------------------------------------------------------------
(* The data plane does what LinkService promises: step by step.             *)

\* A packet that a stackline reads is delivered in order.
LEMMA Delivers ==
    ASSUME Sound, NEW r \in Stacks, StackRecv(r), Head(slq[r]).kind = "data"
    PROVE  \E s \in Stacks : \E k \in DOMAIN sent[s] : Service!Deliver(r, s, k)
<1> DEFINE m == Head(slq[r])
<1>1. /\ stack[r] = "up"
      /\ got' = [got EXCEPT ![r] = @ \cup {<<m.src, m.seq>>}]
      /\ UNCHANGED <<stack, sent, reports>>
  BY DEF StackRecv, stackVars
<1>2. /\ Inbox[r] # <<>> /\ Head(Inbox[r]) = m
      /\ Inbox[r] \in Seq(AckFor[r] \cup DataFor[r])
      /\ Inbox[r] \in Seq(ToStack)
  BY InboxRead, InboxTyped DEF Sound, Truthful
<1>3. m \in DataFor[r]
  <2>1. m \in AckFor[r] \cup DataFor[r]
    BY <1>2, SeqTyped
  <2> QED BY <2>1 DEF AckFor, AckMsgs
<1>4. /\ m \in DataMsgs /\ m.src # r /\ m.src \in Stacks
      /\ m.seq \in DOMAIN sent[m.src]
      /\ sent[m.src][m.seq] = [dst |-> m.dst, fits |-> TRUE]
      /\ Acceptable(m) /\ Addressed(m, r)
  BY <1>3 DEF DataFor, DataMsgs
<1>5. m \in DataOf(m.src) /\ m \in ToStack
  BY <1>4 DEF DataMsgs, DataOf, ToStack
<1>6. m.seq \in Keys(Inbox[r], DataOf(m.src))
  BY <1>2, <1>5, HeadKeys
<1> HIDE DEF m
<1>7. ASSUME NEW j \in DOMAIN sent[m.src], <<m.src, j>> \in got[r]
      PROVE  j <= m.seq
  <2>1. j \in GotFrom(got[r], m.src)
    BY <1>7 DEF GotFrom
  <2>2. <<j, m.seq>> \in NotLater[m.src]
    BY <1>4, <1>6, <2>1 DEF Sound, DataInOrder, DataLine
  <2>3. <<m.src, j>> \in GotFor
    BY <1>7 DEF Sound, Truthful
  <2>4. sent[m.src][j].fits
    BY <2>3 DEF GotFor
  <2>5. sent[m.src][m.seq].fits
    BY <1>4
  <2>6. \A p \in NotLater[m.src] :
            sent[m.src][p[1]].fits /\ sent[m.src][p[2]].fits => p[1] <= p[2]
    BY <1>4 DEF NotLater
  <2> QED BY <2>2, <2>4, <2>5, <2>6
<1>8. Service!Accepted(m.src, m.seq)
  BY <1>4 DEF Service!Accepted, Acceptable, IN_RANGE, Service!IN_RANGE,
     CL_DSTID_MACHDR_PRESENT, Service!CL_DSTID_MACHDR_PRESENT
<1>9. \/ sent[m.src][m.seq].dst \in {Service!BCAST, Service!CL_DSTID_MACHDR_PRESENT, r}
      \/ r \in Promisc
  BY <1>4 DEF Addressed, BCAST, Service!BCAST, CL_DSTID_MACHDR_PRESENT,
     Service!CL_DSTID_MACHDR_PRESENT
<1>10. Service!Deliver(r, m.src, m.seq)
  BY <1>1, <1>4, <1>7, <1>8, <1>9 DEF Service!Deliver
<1> QED BY <1>4, <1>10

\* An ACK message that a stackline reads is the one report of the next packet.
LEMMA Tells ==
    ASSUME Sound, NEW s \in Stacks, StackRecv(s), Head(slq[s]).kind = "ack"
    PROVE  \E k \in DOMAIN sent[s], status \in {"ACK_OK", "NO_ACK", "ERR", "FATAL"} :
              Service!Report(s, k, status)
<1> DEFINE m == Head(slq[s])
<1>1. /\ stack[s] = "up"
      /\ reports' = [reports EXCEPT ![s] =
                        Append(@, [seq |-> m.seq, status |-> m.status])]
      /\ UNCHANGED <<stack, sent, got>>
  BY DEF StackRecv, stackVars
<1>2. /\ Inbox[s] # <<>> /\ Head(Inbox[s]) = m
      /\ Inbox[s] \in Seq(AckFor[s] \cup DataFor[s])
      /\ Inbox[s] \in Seq(ToStack)
  BY InboxRead, InboxTyped DEF Sound, Truthful
<1>3. m \in AckFor[s]
  <2>1. m \in AckFor[s] \cup DataFor[s]
    BY <1>2, SeqTyped
  <2> QED BY <2>1 DEF DataFor, DataMsgs
<1>4. /\ m \in AckMsgs
      /\ m.seq \in ToReport[s]
      /\ (m.status = "FATAL") <=> ~sent[s][m.seq].fits
  BY <1>3 DEF AckFor
<1>5. m.seq \in DOMAIN sent[s] /\ Service!Reportable(s, m.seq)
      /\ m.status \in {"ACK_OK", "NO_ACK", "ERR", "FATAL"}
  BY <1>4 DEF ToReport, Reportable, AckMsgs, Statuses
<1>6. Line(reports[s], Inbox[s], MacOf[s], alq, slOut[s], s, Earlier[s])
  BY DEF Sound, InOrder
<1>7. /\ m.seq \in Coming(Inbox[s])
      /\ {m.seq} \X Coming(Tail(Inbox[s])) \subseteq Earlier[s]
      /\ \A k \in Coming(Inbox[s]) : k \in Coming(Tail(Inbox[s])) \/ k = m.seq
  BY <1>2, <1>4, <1>6, HeadKeys DEF Coming, Line
<1>8. ~Service!Reported(s, m.seq)
  <2> SUFFICES ASSUME NEW i \in DOMAIN reports[s], reports[s][i].seq = m.seq
               PROVE  FALSE
    BY DEF Service!Reported
  <2>1. reports[s] \in Seq(Reports)
    BY DEF Sound, TypeOK, Reports
  <2>2. m.seq \in Told(reports[s])
    BY <2>1 DEF Told, Keys
  <2>3. <<m.seq, m.seq>> \in Earlier[s]
    BY <1>6, <1>7, <2>2 DEF Line
  <2> QED BY <2>3 DEF Earlier
<1>9. ASSUME sent[s][m.seq].fits, NEW j \in 1..(m.seq - 1),
             Service!Reportable(s, j), sent[s][j].fits
      PROVE  Service!Reported(s, j)
  <2>1. j \in DOMAIN sent[s] /\ j < m.seq
    <3>1. sent[s] \in Seq(Packets)
      BY DEF Sound, TypeOK
    <3> QED BY <1>5, <3>1
  <2>2. <<m.seq, j>> \notin Earlier[s]
    <3>1. m.seq \in Nat /\ ~(m.seq < j)
      BY <1>4, <2>1 DEF AckMsgs
    <3> QED BY <1>9, <3>1 DEF Earlier
  <2>3. j \in ToReport[s]
    BY <1>9, <2>1 DEF ToReport, Reportable
  <2>4. j \in OnTheWay(reports[s], Inbox[s], MacOf[s], alq, slOut[s], s)
    BY <1>1, <2>3 DEF Sound, Covered
  <2>5. j \notin Coming(Inbox[s])
    <3>1. j # m.seq
      BY <1>4, <2>1 DEF AckMsgs
    <3> QED BY <1>7, <2>2, <3>1
  <2>6. /\ j \notin InMac(MacOf[s], s)
        /\ j \notin InQueue(alq, s)
        /\ j \notin InSend(slOut[s], s)
    BY <1>6, <1>7, <2>2 DEF Line
  <2>7. j \in Told(reports[s])
    BY <2>4, <2>5, <2>6 DEF OnTheWay
  <2> QED BY <2>7 DEF Told, Keys, Service!Reported
<1> HIDE DEF m
<1>10. Service!Report(s, m.seq, m.status)
  BY <1>1, <1>4, <1>5, <1>8, <1>9 DEF Service!Report
<1> QED BY <1>5, <1>10

\* What the steps that do not depend on the interface do to the service.
LEMMA SharedServes ==
    ASSUME Sound, SharedStep
    PROVE  Service!SNext \/ UNCHANGED <<stack, sent, got, reports>>
<1>1. ASSUME NEW s \in Stacks, StackStart(s)
      PROVE  Service!SNext
  <2>1. Service!Start(s)
    BY <1>1 DEF StackStart, historyVars, Service!Start
  <2> QED BY <2>1 DEF Service!SNext
<1>2. ASSUME NEW s \in Stacks, StackDie(s)
      PROVE  Service!SNext
  <2>1. Service!Die(s)
    BY <1>2 DEF StackDie, historyVars, Service!Die
  <2> QED BY <2>1 DEF Service!SNext
<1>3. ASSUME NEW s \in Stacks, StackSend(s)
      PROVE  Service!SNext
  <2>1. Service!Submit(s)
    BY <1>3 DEF StackSend, historyVars, Service!Submit
  <2> QED BY <2>1 DEF Service!SNext
<1>4. ASSUME NEW s \in Stacks, StackRecv(s)
      PROVE  Service!SNext
  <2>1. CASE Head(slq[s]).kind = "data"
    BY <1>4, <2>1, Delivers DEF Service!SNext
  <2>2. CASE Head(slq[s]).kind = "ack"
    BY <1>4, <2>2, Tells DEF Service!SNext
  <2> QED BY <1>4, <2>1, <2>2 DEF StackRecv
<1>5. \/ UNCHANGED <<stack, sent, got, reports>>
      \/ \E s \in Stacks : StackStart(s) \/ StackDie(s) \/ StackSend(s) \/ StackRecv(s)
  BY DEF SharedStep, StackStep, MsgReader, StackUnblock, MsgReaderStart,
     MsgReaderStop, MsgReaderDrop, MsgReaderSend, AirlineUnblock, stackVars,
     historyVars, vars
<1> QED BY <1>1, <1>2, <1>3, <1>4, <1>5

LEMMA NextServes ==
    ASSUME Sound, [Next]_vars
    PROVE  Service!SNext \/ UNCHANGED <<stack, sent, got, reports>>
<1>1. SharedStep \/ UNCHANGED <<stack, sent, got, reports>>
  BY DEF Next, SharedStep, MacStep, DataIndication, MacRetry, MacDone, MacReject,
     stackVars, historyVars
<1> QED BY <1>1, SharedServes

\* The data plane implements the service its stacklines rely on: packets of
\* one sender arrive in the order they were sent, every unicast is reported
\* once at most, and no packet the PHY can carry is reported before an earlier
\* one (msgrecvCallback, DataIndication, DataConfirm and the queues between).
THEOREM DataPlaneImplementsService == Spec => ImplementsService
<1>1. Init => Service!SInit
  BY DEF Init, Service!SInit
<1>2. Sound /\ [Next]_vars => [Service!SNext]_(Service!serviceVars)
  <2> SUFFICES ASSUME Sound, [Next]_vars
               PROVE  Service!SNext \/ UNCHANGED <<stack, sent, got, reports>>
    BY DEF Service!serviceVars
  <2> QED BY NextServes
<1> QED BY <1>1, <1>2, SoundHolds, PTL DEF Spec, ImplementsService, Service!ServiceSpec

-----------------------------------------------------------------------------
(* What ACK_OK says of the receiver.                                        *)

\* Packets that the receiver p[1] has in its socket or has read, or that were
\* refused, because nobody was there to receive them; p[2] is the sender.
PassedOn == {p \in Stacks \X Stacks \X Nat :
    \/ p[3] \in Keys(slq[p[1]], DataOf(p[2]))
    \/ <<p[2], p[3]>> \in got[p[1]]
    \/ p \in refused
    \/ stack[p[1]] = "dead"}

\* The packet that Airline's blocked send holds.
Waiting == {p \in Stacks \X Stacks \X Nat :
    /\ alOut # <<>>
    /\ Head(alOut).to = p[1]
    /\ Head(alOut).msg \in DataOf(p[2])
    /\ Head(alOut).msg.seq = p[3]}

LEMMA SendAdds ==
    ASSUME TypeOK, NEW to, NEW m, SendToStackline(to, m)
    PROVE  /\ slq' = slq \/ slq' = [slq EXCEPT ![to] = Append(@, m)]
           /\ refused \subseteq refused'
BY DEF SendToStackline, Refuse

LEMMA QueueGrows ==
    ASSUME NEW T, NEW q \in Seq(T), NEW m, NEW S
    PROVE  Keys(q, S) \subseteq Keys(Append(q, m), S)
<1>1. q \in Seq(T \cup {m})
  OBVIOUS
<1> QED BY <1>1, AppendGrows

\* What the steps do to messages: the radio of node r hands up the frame on the
\* air of node n, the MAC repeats it, is done with it, or refuses a frame.
HandsUp(n, r) ==
    /\ Idle
    /\ mac[n] # <<>>
    /\ \/ /\ ~Head(mac[n]).fits
          /\ UNCHANGED <<alOut, slq, refused>>
       \/ SendToStackline(r, [kind |-> "data", src |-> n, dst |-> Head(mac[n]).dst,
                              seq |-> Head(mac[n]).seq])
    /\ heard' = [heard EXCEPT ![n] = @ \cup {r}]
    /\ UNCHANGED <<stack, sent, slOut, alq, mac, got, reports>>

Repeats(n) ==
    /\ heard' = [heard EXCEPT ![n] = {}]
    /\ UNCHANGED <<stack, sent, slOut, alq, mac, alOut, slq, got, reports, refused>>

Answers(n, f) ==
    \/ UNCHANGED <<alOut, slq, refused>>
    \/ \E a \in AckMsgs :
          /\ f.dst # BCAST
          /\ a.seq = f.seq
          /\ a.status = "ACK_OK" /\ f.fits /\ AckRequested(f) =>
                f.dst \in heard[n] \cup {CL_DSTID_MACHDR_PRESENT}
          /\ SendToStackline(n, a)

Concludes(n) ==
    /\ Idle
    /\ mac[n] # <<>>
    /\ Answers(n, Head(mac[n]))
    /\ mac' = [mac EXCEPT ![n] = Tail(@)]
    /\ heard' = [heard EXCEPT ![n] = {}]
    /\ UNCHANGED <<stack, sent, slOut, alq, got, reports>>

Rejects(n) ==
    /\ Idle
    /\ \E i \in DOMAIN mac[n] :
          /\ heard[n] # {} => i > 1
          /\ ~mac[n][i].fits
          /\ Answers(n, mac[n][i])
          /\ mac' = [mac EXCEPT ![n] = RemoveAt(@, i)]
    /\ UNCHANGED <<stack, sent, slOut, alq, heard, got, reports>>

Handles == \/ SharedStep
           \/ \E n, r \in Nodes : HandsUp(n, r)
           \/ \E n \in Nodes : Repeats(n) \/ Concludes(n) \/ Rejects(n)

\* A frame that was heard is one that the PHY can carry: it stays first.
HeardFits == \A n \in Nodes : heard[n] # {} => mac[n] # <<>> /\ Head(mac[n]).fits

LEMMA ConfirmAnswers ==
    ASSUME TypeOK, NEW n \in Nodes, NEW f \in Frames, NEW st \in MacStatuses,
           DataConfirm(n, f, st),
           st = "SUCCESS" /\ AckRequested(f) =>
               f.dst \in heard[n] \cup {CL_DSTID_MACHDR_PRESENT}
    PROVE  Answers(n, f)
<1> DEFINE status  == wf_ack_status(st)
           retries == IF status = "ACK_OK" THEN tries[n] + 1 ELSE 0
           ack     == [kind |-> "ack", src |-> n, dst |-> f.dst, seq |-> f.seq,
                       status |-> status, retries |-> retries]
<1>1. status \in Statuses /\ (status = "ACK_OK" => st = "SUCCESS")
  BY DEF wf_ack_status, MacStatuses, Statuses
<1>2. retries \in Nat
  BY DataPlaneAssumption DEF TypeOK
<1>3. CASE f.dst = BCAST /\ UNCHANGED <<stats, alOut, slq, refused>>
  BY <1>3 DEF Answers
<1>4. CASE f.dst # BCAST /\ SendToStackline(n, ack)
  <2>1. ack \in AckMsgs
    BY <1>1, <1>2, DataPlaneAssumption DEF AckMsgs, Frames
  <2>2. ack.seq = f.seq /\ (ack.status = "ACK_OK" => st = "SUCCESS")
    BY <1>1
  <2> HIDE DEF ack
  <2> QED BY <1>4, <2>1, <2>2 DEF Answers
<1> QED BY <1>3, <1>4 DEF DataConfirm, SendAckToStackline

LEMMA NextHandles ==
    ASSUME TypeOK, Genuine, HeardFits, [Next]_vars
    PROVE  Handles
<1> USE DEF stackVars, historyVars
<1>1. ASSUME NEW n \in Nodes, NEW r \in Nodes, DataIndication(n, r)
      PROVE  HandsUp(n, r)
  <2>1. mac[n] \in Seq(TakenBy[n]) /\ mac[n] # <<>>
    BY <1>1 DEF Genuine, DataIndication
  <2>2. Head(mac[n]).src = n
    BY <2>1, TakenFrame
  <2> QED BY <1>1, <2>2 DEF DataIndication, SendPacketToStackline, HandsUp
<1>2. ASSUME NEW n \in Nodes, MacRetry(n) PROVE Repeats(n)
  BY <1>2 DEF MacRetry, Repeats
<1>3. ASSUME NEW n \in Nodes, NEW st \in MacStatuses, MacDone(n, st)
      PROVE  Concludes(n)
  <2>1. Head(mac[n]) \in Frames
    BY <1>3, SeqTyped DEF TypeOK, MacDone
  <2>2. Answers(n, Head(mac[n]))
    BY <1>3, <2>1, ConfirmAnswers DEF MacDone, Outcome
  <2> QED BY <1>3, <2>2 DEF MacDone, Concludes
<1>4. ASSUME NEW n \in Nodes, NEW i \in DOMAIN mac[n], MacReject(n, i)
      PROVE  Rejects(n)
  <2>1. mac[n][i] \in Frames /\ mac[n] \in Seq(Frames) /\ "FRAME_TOO_LONG" \in MacStatuses
    BY DEF TypeOK, MacStatuses
  <2>2. Answers(n, mac[n][i])
    BY <1>4, <2>1, ConfirmAnswers DEF MacReject
  <2>3. heard[n] # {} => i > 1
    <3>1. mac[n] # <<>> => Head(mac[n]) = mac[n][1]
      BY <2>1
    <3>2. i \in Nat /\ i >= 1
      BY <2>1
    <3> QED BY <1>4, <3>1, <3>2 DEF HeardFits, MacReject
  <2> QED BY <1>4, <2>2, <2>3 DEF MacReject, Rejects
<1> QED BY <1>1, <1>2, <1>3, <1>4 DEF Next, MacStep, SharedStep, Handles

LEMMA HandlesFrames ==
    ASSUME TypeOK, Genuine, Handles
    PROVE  FrameMoves
<1>1. CASE SharedStep
  <2>1. Lessens => FrameMoves
    BY DEF Lessens, FrameMoves
  <2>2. \A s \in Stacks : StackRecv(s) => FrameMoves
    BY DEF StackRecv, stackVars, macVars, FrameMoves
  <2> QED BY <1>1, <2>1, <2>2, SharedSteps DEF FrameMoves
<1>2. \A n, r \in Nodes : HandsUp(n, r) => FrameMoves
  BY DEF HandsUp, FrameMoves
<1>3. \A n \in Nodes : Repeats(n) => FrameMoves
  BY DEF Repeats, FrameMoves
<1>4. ASSUME NEW n \in Nodes, Concludes(n) PROVE FrameMoves
  <2>1. mac[n] \in Seq(TakenBy[n]) /\ mac[n] # <<>>
    BY <1>4 DEF Genuine, Concludes
  <2>2. Tail(mac[n]) \in Seq(TakenBy[n])
    BY <2>1, SeqTyped
  <2> QED BY <1>4, <2>2 DEF Concludes, FrameMoves
<1>5. ASSUME NEW n \in Nodes, Rejects(n) PROVE FrameMoves
  <2>1. PICK i \in DOMAIN mac[n] : mac' = [mac EXCEPT ![n] = RemoveAt(@, i)]
    BY <1>5 DEF Rejects
  <2>2. mac[n] \in Seq(TakenBy[n])
    BY DEF Genuine
  <2>3. RemoveAt(mac[n], i) \in Seq(TakenBy[n])
    BY <2>2, RemoveAtTyped
  <2> QED BY <1>5, <2>1, <2>3 DEF Rejects, FrameMoves
<1> QED BY <1>1, <1>2, <1>3, <1>4, <1>5 DEF Handles

\* What was passed on, or refused, stays so: a packet leaves a socket's queue
\* when it is read or when the process dies.
LEMMA PassedStays ==
    ASSUME TypeOK, Handles
    PROVE  PassedOn \subseteq PassedOn'
<1>1. ASSUME NEW to, NEW m, SendToStackline(to, m), UNCHANGED <<stack, got>>
      PROVE  PassedOn \subseteq PassedOn'
  <2>1. /\ slq' = slq \/ slq' = [slq EXCEPT ![to] = Append(@, m)]
        /\ refused \subseteq refused'
    BY <1>1, SendAdds
  <2>2. ASSUME NEW r \in Stacks, NEW S PROVE Keys(slq[r], S) \subseteq Keys(slq'[r], S)
    <3>1. slq'[r] = slq[r] \/ slq'[r] = Append(slq[r], m)
      BY <2>1 DEF TypeOK
    <3>2. slq[r] \in Seq(ToStack)
      BY DEF TypeOK
    <3> QED BY <3>1, <3>2, QueueGrows
  <2> QED BY <1>1, <2>1, <2>2 DEF PassedOn
<1>2. ASSUME UNCHANGED <<slq, got, refused>>,
             \A r \in Stacks : stack[r] = "dead" => stack'[r] = "dead"
      PROVE  PassedOn \subseteq PassedOn'
  BY <1>2 DEF PassedOn
<1>3. ASSUME NEW s \in Stacks, StackStart(s) \/ StackSend(s) \/ StackUnblock(s)
      PROVE  PassedOn \subseteq PassedOn'
  <2>1. \A r \in Stacks : stack[r] = "dead" => stack'[r] = "dead"
    BY <1>3 DEF StackStart, StackSend, StackUnblock, TypeOK
  <2> QED BY <1>2, <1>3, <2>1 DEF StackStart, StackSend, StackUnblock, historyVars
<1>4. ASSUME NEW s \in Stacks, StackDie(s)
      PROVE  PassedOn \subseteq PassedOn'
  <2>1. /\ UNCHANGED <<got, refused>>
        /\ \A r \in Stacks : IF r = s THEN stack'[r] = "dead"
                             ELSE stack'[r] = stack[r] /\ slq'[r] = slq[r]
    BY <1>4 DEF StackDie, historyVars, TypeOK
  <2> QED BY <2>1 DEF PassedOn
<1>5. ASSUME NEW s \in Stacks, StackRecv(s)
      PROVE  PassedOn \subseteq PassedOn'
  <2> DEFINE m == Head(slq[s])
  <2>1. /\ UNCHANGED <<stack, refused>>
        /\ slq[s] # <<>> /\ slq' = [slq EXCEPT ![s] = Tail(@)]
        /\ \/ m.kind = "data" /\ got' = [got EXCEPT ![s] = @ \cup {<<m.src, m.seq>>}]
           \/ m.kind = "ack" /\ got' = got
    BY <1>5 DEF StackRecv, stackVars
  <2>2. slq[s] \in Seq(ToStack)
    BY DEF TypeOK
  <2> HIDE DEF m
  <2>3. \A r \in Stacks : got[r] \subseteq got'[r]
    BY <2>1 DEF TypeOK
  <2>4. ASSUME NEW p \in PassedOn, p[3] \in Keys(slq[p[1]], DataOf(p[2]))
        PROVE  \/ p[3] \in Keys(slq'[p[1]], DataOf(p[2]))
               \/ <<p[2], p[3]>> \in got'[p[1]]
    <3>1. CASE p[1] # s
      <4>1. slq'[p[1]] = slq[p[1]]
        BY <2>1, <3>1 DEF PassedOn, TypeOK
      <4> QED BY <2>4, <4>1
    <3>2. CASE p[1] = s
      <4>1. slq'[s] = Tail(slq[s])
        BY <2>1 DEF TypeOK
      <4>2. CASE p[3] \in Keys(Tail(slq[s]), DataOf(p[2]))
        BY <3>2, <4>1, <4>2
      <4>3. CASE m \in DataOf(p[2]) /\ p[3] = m.seq
        <5>1. m.kind = "data" /\ m.src = p[2]
          BY <4>3 DEF DataOf
        <5>2. got'[s] = got[s] \cup {<<m.src, m.seq>>}
          BY <2>1, <5>1 DEF TypeOK
        <5> QED BY <3>2, <4>3, <5>1, <5>2
      <4> QED BY <2>1, <2>2, <2>4, <3>2, <4>2, <4>3, HeadKeys DEF m
    <3> QED BY <3>1, <3>2
  <2> QED BY <2>1, <2>3, <2>4 DEF PassedOn
<1>6. CASE MsgReader
  BY <1>2, <1>6 DEF MsgReader, MsgReaderStart, MsgReaderStop, MsgReaderDrop,
     MsgReaderSend, stackVars, historyVars
<1>7. ASSUME NEW n \in Nodes, NEW r \in Nodes, HandsUp(n, r)
      PROVE  PassedOn \subseteq PassedOn'
  BY <1>1, <1>2, <1>7 DEF HandsUp
<1>8. ASSUME NEW n, NEW f, Answers(n, f), UNCHANGED <<stack, got>>
      PROVE  PassedOn \subseteq PassedOn'
  BY <1>1, <1>2, <1>8 DEF Answers
<1>9. ASSUME NEW n \in Nodes, Repeats(n) \/ Concludes(n) \/ Rejects(n)
      PROVE  PassedOn \subseteq PassedOn'
  <2>1. Repeats(n) => PassedOn \subseteq PassedOn'
    BY <1>2 DEF Repeats
  <2>2. Concludes(n) => PassedOn \subseteq PassedOn'
    BY <1>8 DEF Concludes
  <2>3. Rejects(n) => PassedOn \subseteq PassedOn'
    BY <1>8 DEF Rejects
  <2> QED BY <1>9, <2>1, <2>2, <2>3
<1>10. CASE AirlineUnblock
  <2> DEFINE o == Head(alOut)
  <2>1. /\ UNCHANGED <<stack, got>>
        /\ refused \subseteq refused'
        /\ slq' = slq \/ slq' = [slq EXCEPT ![o.to] = Append(@, o.msg)]
    BY <1>10 DEF AirlineUnblock, Refuse, stackVars
  <2> HIDE DEF o
  <2>2. ASSUME NEW r \in Stacks, NEW S PROVE Keys(slq[r], S) \subseteq Keys(slq'[r], S)
    <3>1. slq'[r] = slq[r] \/ slq'[r] = Append(slq[r], o.msg)
      BY <2>1 DEF TypeOK
    <3>2. slq[r] \in Seq(ToStack)
      BY DEF TypeOK
    <3> QED BY <3>1, <3>2, QueueGrows
  <2> QED BY <2>1, <2>2 DEF PassedOn
<1>11. CASE UNCHANGED vars
  BY <1>2, <1>11 DEF vars
<1> QED
  BY <1>3, <1>4, <1>5, <1>6, <1>7, <1>9, <1>10, <1>11 DEF Handles, SharedStep, StackStep

\* A frame taken out from behind leaves the first one first.
LEMMA HeadStays ==
    ASSUME NEW S, NEW q \in Seq(S), NEW i \in DOMAIN q, i > 1
    PROVE  RemoveAt(q, i) # <<>> /\ Head(RemoveAt(q, i)) = Head(q)
<1> DEFINE a == SubSeq(q, 1, i - 1)
           b == SubSeq(q, i + 1, Len(q))
<1>1. Len(q) \in Nat /\ i \in 1..Len(q)
  OBVIOUS
<1>2. a \in Seq(S) /\ Len(a) = i - 1 /\ a[1] = q[1]
  BY <1>1
<1>3. b \in Seq(S)
  BY <1>1
<1>4. RemoveAt(q, i) = a \o b
  BY DEF RemoveAt
<1> HIDE DEF a, b
<1>5. a \o b # <<>> /\ Head(a \o b) = a[1]
  BY <1>1, <1>2, <1>3
<1>6. Head(q) = q[1]
  BY <1>1
<1> QED BY <1>2, <1>4, <1>5, <1>6

\* A blocked send of Airline ends by passing its packet on or being refused.
LEMMA WaitingStays ==
    ASSUME TypeOK, Handles
    PROVE  Waiting \subseteq (PassedOn \cup Waiting)'
<1> SUFFICES ASSUME NEW p \in Waiting PROVE p \in (PassedOn \cup Waiting)'
  OBVIOUS
<1> DEFINE o == Head(alOut)
<1>1. /\ alOut # <<>>
      /\ p \in Stacks \X Stacks \X Nat
      /\ o.to = p[1] /\ o.msg \in DataOf(p[2]) /\ o.msg.seq = p[3]
  BY DEF Waiting
<1>2. CASE alOut' = alOut
  BY <1>2 DEF Waiting
<1>3. CASE AirlineUnblock
  <2>1. o.msg \in ToStack
    BY <1>1, OutIs
  <2>2. o.msg.kind = "data" /\ o.msg.src = p[2]
    BY <1>1 DEF DataOf
  <2>3. \/ Refuse(o.to, o.msg)
        \/ slq' = [slq EXCEPT ![o.to] = Append(@, o.msg)]
    BY <1>3 DEF AirlineUnblock
  <2> HIDE DEF o
  <2>4. CASE Refuse(o.to, o.msg)
    <3>1. <<p[1], p[2], p[3]>> \in refused'
      BY <1>1, <2>2, <2>4 DEF Refuse
    <3>2. p = <<p[1], p[2], p[3]>>
      BY <1>1
    <3> QED BY <1>1, <3>1, <3>2 DEF PassedOn
  <2>5. CASE slq' = [slq EXCEPT ![o.to] = Append(@, o.msg)]
    <3>1. slq'[p[1]] = Append(slq[p[1]], o.msg) /\ slq[p[1]] \in Seq(ToStack)
      BY <1>1, <2>5 DEF TypeOK
    <3>2. p[3] \in Keys(slq'[p[1]], DataOf(p[2]))
      BY <1>1, <2>1, <3>1, AppendGrows
    <3> QED BY <1>1, <3>2 DEF PassedOn
  <2> QED BY <2>3, <2>4, <2>5
<1>4. alOut' = alOut \/ AirlineUnblock
  BY <1>1 DEF Handles, SharedStep, StackStep, MsgReader, StackStart, StackDie,
     StackSend, StackUnblock, StackRecv, MsgReaderStart, MsgReaderStop,
     MsgReaderDrop, MsgReaderSend, HandsUp, Repeats, Concludes, Rejects, Idle, vars
<1> QED BY <1>2, <1>3, <1>4

\* Every stackline whose node heard the frame on the air has the packet, or
\* Airline waits to send it: the simulator runs no other event meanwhile.
HeardPassedOn == \A n \in Nodes : heard[n] # {} =>
    /\ mac[n] # <<>>
    /\ Head(mac[n]).fits =>
          \A r \in heard[n] \cap Stacks :
             <<r, n, Head(mac[n]).seq>> \in PassedOn \cup Waiting

\* A node that hears a frame passes it on.
LEMMA HearsPasses ==
    ASSUME TypeOK, Genuine, NEW n \in Nodes, NEW r \in Nodes \cap Stacks,
           HandsUp(n, r), Head(mac[n]).fits
    PROVE  <<r, n, Head(mac[n]).seq>> \in (PassedOn \cup Waiting)'
<1> DEFINE f == Head(mac[n])
           d == [kind |-> "data", src |-> n, dst |-> f.dst, seq |-> f.seq]
<1>1. mac[n] \in Seq(TakenBy[n]) /\ mac[n] # <<>>
  BY DEF Genuine, HandsUp
<1>2. f \in TakenBy[n]
  BY <1>1
<1>3. f.fits /\ SendToStackline(r, d)
  BY DEF HandsUp
<1>4. n \in Stacks /\ f \in Frames /\ f.src = n /\ f.seq \in Nat
  BY <1>2, TakenFrame DEF Frames
<1>5. d \in DataOf(n) /\ d \in ToStack /\ d.kind = "data" /\ d.src = n /\ d.seq = f.seq
  BY <1>4 DEF DataOf, ToStack, DataMsgs, Frames
<1> DEFINE p == <<r, n, f.seq>>
<1>6. p \in Stacks \X Stacks \X Nat /\ p[1] = r /\ p[2] = n /\ p[3] = d.seq
  BY <1>4, <1>5
<1>7. p = <<r, d.src, d.seq>>
  BY <1>5
<1> HIDE DEF d, p
<1>8. CASE Refuse(r, d)
  <2>1. p \in refused'
    BY <1>5, <1>8, <1>7 DEF Refuse
  <2>2. p \in PassedOn'
    BY <1>6, <2>1 DEF PassedOn
  <2> QED BY <1>3, <2>2 DEF p
<1>9. CASE slq' = [slq EXCEPT ![r] = Append(@, d)]
  <2>1. slq'[r] = Append(slq[r], d) /\ slq[r] \in Seq(ToStack)
    BY <1>9 DEF TypeOK
  <2>2. d.seq \in Keys(slq'[r], DataOf(n))
    BY <1>5, <2>1, AppendGrows
  <2>3. p \in PassedOn'
    BY <1>6, <2>2 DEF PassedOn
  <2> QED BY <1>3, <2>3 DEF p
<1>10. CASE alOut' = <<[to |-> r, msg |-> d]>>
  <2>1. alOut' # <<>> /\ Head(alOut').to = r /\ Head(alOut').msg = d
    BY <1>10
  <2>2. p \in Waiting'
    BY <1>5, <1>6, <2>1 DEF Waiting
  <2> QED BY <1>3, <2>2 DEF p
<1> QED BY <1>3, <1>8, <1>9, <1>10 DEF SendToStackline

\* While a frame stays on the air, it is the same frame, and it is heard by who
\* heard it before and by whom it is handed up to now.
LEMMA HeadKept ==
    ASSUME TypeOK, Handles, NEW n \in Nodes,
           heard[n] # {} => mac[n] # <<>>, heard'[n] # {}
    PROVE  /\ mac[n] # <<>> /\ mac'[n] # <<>>
           /\ Head(mac'[n]) = Head(mac[n])
           /\ \/ heard'[n] = heard[n]
              \/ \E r \in Nodes : HandsUp(n, r) /\ heard'[n] = heard[n] \cup {r}
<1> DEFINE Goal == /\ mac[n] # <<>> /\ mac'[n] # <<>>
                   /\ Head(mac'[n]) = Head(mac[n])
                   /\ \/ heard'[n] = heard[n]
                      \/ \E r \in Nodes : HandsUp(n, r) /\ heard'[n] = heard[n] \cup {r}
<1>1. mac[n] \in Seq(Frames)
  BY DEF TypeOK
<1>2. CASE heard'[n] = heard[n] /\ mac'[n] = mac[n]
  BY <1>2
<1>3. CASE MsgReaderSend
  <2> DEFINE m == Head(alq)
  <2>1. heard' = heard /\ alq # <<>> /\ mac' = [mac EXCEPT ![m.src] = Append(@, m)]
    BY <1>3 DEF MsgReaderSend
  <2>2. m \in Frames
    BY <2>1, SeqTyped DEF TypeOK
  <2> HIDE DEF m
  <2>3. mac'[n] = mac[n] \/ mac'[n] = Append(mac[n], m)
    BY <2>1 DEF TypeOK
  <2>4. mac[n] # <<>> => /\ Append(mac[n], m) # <<>>
                         /\ Head(Append(mac[n], m)) = Head(mac[n])
    BY <1>1, <2>2
  <2> QED BY <2>1, <2>3, <2>4
<1>4. ASSUME NEW u \in Nodes, NEW r \in Nodes, HandsUp(u, r) PROVE Goal
  <2>1. mac' = mac /\ mac[u] # <<>> /\ heard' = [heard EXCEPT ![u] = @ \cup {r}]
    BY <1>4 DEF HandsUp
  <2>2. heard'[n] = IF n = u THEN heard[n] \cup {r} ELSE heard[n]
    BY <2>1 DEF TypeOK
  <2> QED BY <1>4, <2>1, <2>2
<1>5. ASSUME NEW u \in Nodes, Repeats(u) \/ Concludes(u) PROVE Goal
  <2>1. heard' = [heard EXCEPT ![u] = {}]
    BY <1>5 DEF Repeats, Concludes
  <2>2. n # u /\ heard'[n] = heard[n]
    BY <2>1 DEF TypeOK
  <2>3. mac'[n] = mac[n]
    BY <1>5, <2>2 DEF Repeats, Concludes, TypeOK
  <2> QED BY <2>2, <2>3
<1>6. ASSUME NEW u \in Nodes, Rejects(u) PROVE Goal
  <2>1. PICK i \in DOMAIN mac[u] : /\ heard[u] # {} => i > 1
                                   /\ mac' = [mac EXCEPT ![u] = RemoveAt(@, i)]
    BY <1>6 DEF Rejects
  <2>2. heard' = heard
    BY <1>6 DEF Rejects
  <2>3. CASE n # u
    BY <2>1, <2>2, <2>3 DEF TypeOK
  <2>4. CASE n = u
    <3>1. mac'[n] = RemoveAt(mac[n], i)
      BY <2>1, <2>4 DEF TypeOK
    <3>2. RemoveAt(mac[n], i) # <<>> /\ Head(RemoveAt(mac[n], i)) = Head(mac[n])
      BY <1>1, <2>1, <2>2, <2>4, HeadStays
    <3> QED BY <2>2, <3>1, <3>2
  <2> QED BY <2>3, <2>4
<1>7. SharedStep => UNCHANGED <<mac, heard>> \/ MsgReaderSend
  BY DEF SharedStep, StackStep, MsgReader, StackStart, StackDie, StackSend,
     StackUnblock, StackRecv, MsgReaderStart, MsgReaderStop, MsgReaderDrop,
     AirlineUnblock, macVars, vars
<1> QED BY <1>2, <1>3, <1>4, <1>5, <1>6, <1>7 DEF Handles

LEMMA HeardKept ==
    ASSUME TypeOK, Genuine, HeardPassedOn, Handles
    PROVE  HeardPassedOn'
<1>1. PassedOn \cup Waiting \subseteq (PassedOn \cup Waiting)'
  BY PassedStays, WaitingStays
<1> SUFFICES ASSUME NEW n \in Nodes, heard'[n] # {}
             PROVE  /\ mac'[n] # <<>>
                    /\ Head(mac'[n]).fits =>
                          \A r \in heard'[n] \cap Stacks :
                             <<r, n, Head(mac'[n]).seq>> \in (PassedOn \cup Waiting)'
  BY DEF HeardPassedOn
<1>2. /\ mac[n] # <<>> /\ mac'[n] # <<>>
      /\ Head(mac'[n]) = Head(mac[n])
      /\ \/ heard'[n] = heard[n]
         \/ \E r \in Nodes : HandsUp(n, r) /\ heard'[n] = heard[n] \cup {r}
  BY HeadKept DEF HeardPassedOn
<1>3. ASSUME Head(mac[n]).fits, NEW r \in heard[n] \cap Stacks
      PROVE  <<r, n, Head(mac[n]).seq>> \in (PassedOn \cup Waiting)'
  BY <1>1, <1>3 DEF HeardPassedOn
<1>4. ASSUME Head(mac[n]).fits, NEW r \in Nodes \cap Stacks, HandsUp(n, r)
      PROVE  <<r, n, Head(mac[n]).seq>> \in (PassedOn \cup Waiting)'
  BY <1>4, HearsPasses
<1> QED BY <1>2, <1>3, <1>4

\* Over LR-WPAN, a frame that is heard fits.
LEMMA HeardFitsKept ==
    ASSUME TypeOK, Genuine, HeardFits, [Next]_vars
    PROVE  HeardFits'
<1> SUFFICES ASSUME NEW n \in Nodes, heard'[n] # {}
             PROVE  mac'[n] # <<>> /\ Head(mac'[n]).fits
  BY DEF HeardFits
<1>1. /\ mac[n] # <<>> /\ mac'[n] # <<>>
      /\ Head(mac'[n]) = Head(mac[n])
  BY NextHandles, HeadKept DEF HeardFits
<1>2. \/ heard'[n] \in {heard[n], {}}
      \/ \E r \in Nodes : DataIndication(n, r)
  <2>1. ASSUME NEW s \in Stacks, StackStep(s) PROVE heard' = heard
    BY <2>1 DEF StackStep, StackStart, StackDie, StackSend, StackUnblock, StackRecv,
       macVars
  <2>2. CASE MsgReader \/ AirlineUnblock
    BY <2>2 DEF MsgReader, MsgReaderStart, MsgReaderStop, MsgReaderDrop,
       MsgReaderSend, AirlineUnblock, macVars
  <2>3. ASSUME NEW k \in Nodes, MacStep(k)
        PROVE  \/ heard'[n] \in {heard[n], {}}
               \/ \E r \in Nodes : DataIndication(n, r)
    <3>1. CASE MacRetry(k) \/ (\E st \in MacStatuses : MacDone(k, st))
      BY <3>1 DEF MacRetry, MacDone, TypeOK
    <3>2. CASE \E i \in DOMAIN mac[k] : MacReject(k, i)
      BY <3>2 DEF MacReject, TypeOK
    <3> QED BY <2>3, <3>1, <3>2 DEF MacStep
  <2>4. ASSUME NEW k \in Nodes, NEW r \in Nodes, DataIndication(k, r)
        PROVE  heard'[n] = heard[n] \/ DataIndication(n, r)
    <3>1. heard' = [heard EXCEPT ![k] = @ \cup {r}]
      BY <2>4 DEF DataIndication
    <3> QED BY <2>4, <3>1 DEF TypeOK
  <2>5. CASE UNCHANGED vars
    BY <2>5 DEF vars, macVars
  <2> QED BY <2>1, <2>2, <2>3, <2>4, <2>5 DEF Next
<1> QED BY <1>1, <1>2 DEF HeardFits, DataIndication

\* The packets of a stackline that may be acknowledged: if the addressee is a
\* stackline and the packet is not too long, it has been passed on to it.
Ackable == [s \in Stacks |->
    {k \in DOMAIN sent[s] :
        sent[s][k].fits /\ sent[s][k].dst \in Stacks \ {CL_DSTID_MACHDR_PRESENT} =>
            <<sent[s][k].dst, s, k>> \in PassedOn}]

\* Messages and reports that acknowledge no other.
AckSound == [s \in Stacks |->
    {m \in ToStack : m.kind = "ack" /\ m.status = "ACK_OK" => m.seq \in Ackable[s]}]
ReportSound == [s \in Stacks |->
    {p \in Reports : p.status = "ACK_OK" => p.seq \in Ackable[s]}]

AcksPassedOn == \A s \in Stacks \ Promisc :
    /\ Inbox[s] \in Seq(AckSound[s])
    /\ reports[s] \in Seq(ReportSound[s])

LEMMA AckableGrows ==
    ASSUME TypeOK, Genuine, Handles, NEW s \in Stacks
    PROVE  /\ Ackable[s] \subseteq Ackable'[s]
           /\ Seq(AckSound[s]) \subseteq Seq(AckSound'[s])
           /\ Seq(ReportSound[s]) \subseteq Seq(ReportSound'[s])
<1>1. Grows /\ PassedOn \subseteq PassedOn'
  BY HandlesFrames, FramesGrow, PassedStays
<1>2. Ackable[s] \subseteq Ackable'[s]
  BY <1>1 DEF Ackable, Grows
<1>3. AckSound[s] \subseteq AckSound'[s]
  BY <1>2 DEF AckSound
<1>4. ReportSound[s] \subseteq ReportSound'[s]
  BY <1>2 DEF ReportSound
<1> QED BY <1>2, <1>3, <1>4, SeqMonotonic

\* A frame that the MAC of a node says was acknowledged was heard by the
\* addressee, whose stackline got it before: nothing waits to be sent now.
LEMMA AckedWasHeard ==
    ASSUME TypeOK, Genuine, HeardPassedOn, alOut = <<>>,
           NEW n \in Nodes \ Promisc, mac[n] # <<>>, Head(mac[n]).dst # BCAST,
           Head(mac[n]).fits =>
               Head(mac[n]).dst \in heard[n] \cup {CL_DSTID_MACHDR_PRESENT}
    PROVE  Head(mac[n]).seq \in Ackable[n]
<1> DEFINE f == Head(mac[n])
<1>1. mac[n] \in Seq(TakenBy[n]) /\ mac[n] # <<>>
  BY DEF Genuine
<1>2. f \in TakenBy[n]
  BY <1>1
<1>3. /\ n \in Stacks /\ f.seq \in DOMAIN sent[n]
      /\ sent[n][f.seq].dst = f.dst /\ sent[n][f.seq].fits = f.fits
  BY <1>2, TakenFrame
<1>4. f.fits /\ f.dst \in heard[n] \cap Stacks => <<f.dst, n, f.seq>> \in PassedOn
  BY <1>1 DEF HeardPassedOn, Waiting
<1> HIDE DEF f
<1>5. f.seq \in Ackable[n]
  BY <1>3, <1>4 DEF Ackable, f
<1> QED BY <1>5 DEF f

LEMMA AcksKept ==
    ASSUME TypeOK, Genuine, HeardPassedOn, AcksPassedOn, Handles
    PROVE  AcksPassedOn'
<1> SUFFICES ASSUME NEW s \in Stacks \ Promisc
             PROVE  /\ Inbox'[s] \in Seq(AckSound'[s])
                    /\ reports'[s] \in Seq(ReportSound'[s])
  BY DEF AcksPassedOn
<1>1. /\ Inbox[s] \in Seq(AckSound'[s])
      /\ reports[s] \in Seq(ReportSound'[s])
      /\ Ackable[s] \subseteq Ackable'[s]
  BY AckableGrows DEF AcksPassedOn
<1>2. ASSUME reports' = reports, Inbox' = Inbox
      PROVE  /\ Inbox'[s] \in Seq(AckSound'[s])
             /\ reports'[s] \in Seq(ReportSound'[s])
  BY <1>1, <1>2
<1>3. CASE Lessens
  <2>1. Inbox[s] \in Seq(ToStack)
    BY InboxTyped
  <2>2. Inbox'[s] \in Seq(AckSound'[s])
    BY <1>1, <1>3, <2>1, LessensParts
  <2> QED BY <1>1, <1>3, <2>2 DEF Lessens
<1>4. CASE \/ \E u \in Stacks : StackSend(u) \/ StackUnblock(u)
           \/ MsgReaderDrop \/ MsgReaderSend
  BY <1>2, <1>4 DEF StackSend, StackUnblock, MsgReaderDrop, MsgReaderSend,
     historyVars, Inbox
<1>5. ASSUME NEW u \in Stacks, StackRecv(u)
      PROVE  /\ Inbox'[s] \in Seq(AckSound'[s])
             /\ reports'[s] \in Seq(ReportSound'[s])
  <2> DEFINE m == Head(slq[u])
             p == [seq |-> m.seq, status |-> m.status]
  <2>1. /\ Inbox[u] # <<>> /\ Head(Inbox[u]) = m
        /\ Inbox' = [Inbox EXCEPT ![u] = Tail(@)]
    BY <1>5, InboxRead
  <2>2. CASE s # u
    <3>1. Inbox'[s] = Inbox[s]
      BY <2>1, <2>2 DEF Inbox
    <3>2. reports'[s] = reports[s]
      BY <1>5, <2>2 DEF StackRecv, TypeOK
    <3> QED BY <1>1, <3>1, <3>2
  <2>3. CASE s = u
    <3>1. Inbox'[s] = Tail(Inbox[s])
      BY <2>1, <2>3 DEF Inbox
    <3>2. Tail(Inbox[s]) \in Seq(AckSound'[s]) /\ m \in AckSound'[s]
      BY <1>1, <2>1, <2>3, SeqTyped
    <3>3. CASE m.kind = "data"
      <4>1. reports'[s] = reports[s]
        BY <1>5, <3>3 DEF StackRecv, TypeOK
      <4> QED BY <1>1, <3>1, <3>2, <4>1
    <3>4. CASE m.kind = "ack" /\ reports' = [reports EXCEPT ![u] = Append(@, p)]
      <4>1. p \in Reports
        BY <3>2, <3>4 DEF AckSound, ToStack, DataMsgs, AckMsgs, Reports
      <4>2. p \in ReportSound'[s]
        BY <3>2, <3>4, <4>1 DEF AckSound, ReportSound
      <4>3. reports'[s] = Append(reports[s], p)
        BY <2>3, <3>4 DEF TypeOK
      <4> HIDE DEF p
      <4>4. reports'[s] \in Seq(ReportSound'[s])
        BY <1>1, <4>2, <4>3, SeqTyped
      <4> QED BY <3>1, <3>2, <4>4
    <3> QED BY <1>5, <3>3, <3>4 DEF StackRecv
  <2> QED BY <2>2, <2>3
<1>6. ASSUME NEW u, NEW a \in ToStack, reports' = reports,
             Inbox' = [Inbox EXCEPT ![u] = Append(@, a)],
             u = s => a \in AckSound'[s]
      PROVE  /\ Inbox'[s] \in Seq(AckSound'[s])
             /\ reports'[s] \in Seq(ReportSound'[s])
  <2>1. Inbox'[s] = IF u = s THEN Append(Inbox[s], a) ELSE Inbox[s]
    BY <1>6 DEF Inbox
  <2> QED BY <1>1, <1>6, <2>1, SeqTyped
<1>7. ASSUME NEW n \in Nodes, NEW r \in Nodes, HandsUp(n, r)
      PROVE  /\ Inbox'[s] \in Seq(AckSound'[s])
             /\ reports'[s] \in Seq(ReportSound'[s])
  <2>1. CASE UNCHANGED <<alOut, slq, reports>>
    BY <1>2, <2>1 DEF Inbox
  <2>2. ASSUME NEW d \in DataMsgs, SendToStackline(r, d)
        PROVE  /\ Inbox'[s] \in Seq(AckSound'[s])
               /\ reports'[s] \in Seq(ReportSound'[s])
    <3>1. d \in ToStack /\ d \in AckSound'[s]
      BY DEF DataMsgs, ToStack, AckSound
    <3>2. Inbox' = Inbox \/ Inbox' = [Inbox EXCEPT ![r] = Append(@, d)]
      BY <1>7, <2>2, <3>1, InboxSends DEF HandsUp, Idle
    <3> QED BY <1>2, <1>6, <1>7, <3>1, <3>2 DEF HandsUp
  <2> DEFINE d == [kind |-> "data", src |-> n, dst |-> Head(mac[n]).dst,
                   seq |-> Head(mac[n]).seq]
  <2>3. d \in DataMsgs
    <3>1. mac[n] \in Seq(TakenBy[n]) /\ mac[n] # <<>>
      BY <1>7 DEF Genuine, HandsUp
    <3>2. n \in Stacks /\ Head(mac[n]) \in Frames
      BY <3>1, TakenFrame
    <3> QED BY <3>2 DEF DataMsgs, Frames
  <2>4. UNCHANGED <<alOut, slq, reports>> \/ SendToStackline(r, d)
    BY <1>7 DEF HandsUp
  <2> HIDE DEF d
  <2> QED BY <2>1, <2>2, <2>3, <2>4
<1>8. ASSUME NEW n \in Nodes, NEW f, f.src = n, alOut = <<>>, Answers(n, f), reports' = reports,
             n = s /\ f.dst # BCAST
               /\ (f.fits => f.dst \in heard[n] \cup {CL_DSTID_MACHDR_PRESENT})
               => f.seq \in Ackable[s]
      PROVE  /\ Inbox'[s] \in Seq(AckSound'[s])
             /\ reports'[s] \in Seq(ReportSound'[s])
  <2>1. CASE UNCHANGED <<alOut, slq, refused>>
    BY <1>2, <1>8, <2>1 DEF Inbox
  <2>2. ASSUME NEW a \in AckMsgs, f.dst # BCAST, a.seq = f.seq,
               a.status = "ACK_OK" /\ f.fits /\ AckRequested(f) =>
                  f.dst \in heard[n] \cup {CL_DSTID_MACHDR_PRESENT},
               SendToStackline(n, a)
        PROVE  /\ Inbox'[s] \in Seq(AckSound'[s])
               /\ reports'[s] \in Seq(ReportSound'[s])
    <3>1. a \in ToStack
      BY DEF ToStack
    <3>2. n = s => a \in AckSound'[s]
      BY <1>1, <1>8, <2>2, <3>1 DEF AckSound, AckRequested
    <3>3. Inbox' = Inbox \/ Inbox' = [Inbox EXCEPT ![n] = Append(@, a)]
      BY <1>8, <2>2, <3>1, InboxSends
    <3> QED BY <1>2, <1>6, <1>8, <3>1, <3>2, <3>3
  <2> QED BY <1>8, <2>1, <2>2 DEF Answers
<1>9. ASSUME NEW n \in Nodes, Concludes(n)
      PROVE  /\ Inbox'[s] \in Seq(AckSound'[s])
             /\ reports'[s] \in Seq(ReportSound'[s])
  <2>1. alOut = <<>> /\ mac[n] # <<>> /\ Answers(n, Head(mac[n])) /\ reports' = reports
    BY <1>9 DEF Concludes, Idle
  <2>2. mac[n] \in Seq(TakenBy[n])
    BY DEF Genuine
  <2>3. Head(mac[n]).src = n
    BY <2>1, <2>2, TakenFrame
  <2> QED BY <1>8, <2>1, <2>3, AckedWasHeard
<1>10. ASSUME NEW n \in Nodes, Rejects(n)
      PROVE  /\ Inbox'[s] \in Seq(AckSound'[s])
             /\ reports'[s] \in Seq(ReportSound'[s])
  <2>1. PICK i \in DOMAIN mac[n] : ~mac[n][i].fits /\ Answers(n, mac[n][i])
    BY <1>10 DEF Rejects
  <2>2. alOut = <<>> /\ reports' = reports
    BY <1>10 DEF Rejects, Idle
  <2>3. mac[n] \in Seq(TakenBy[n])
    BY DEF Genuine
  <2> DEFINE f == mac[n][i]
  <2>4. f \in TakenBy[n]
    BY <2>3
  <2>5. /\ f.src = n /\ n \in Stacks /\ f.seq \in DOMAIN sent[n]
        /\ sent[n][f.seq].fits = f.fits
    BY <2>4, TakenFrame
  <2> HIDE DEF f
  <2>6. f.seq \in Ackable[n]
    BY <2>1, <2>5 DEF Ackable, f
  <2> QED BY <1>8, <2>1, <2>2, <2>5, <2>6 DEF f
<1>11. ASSUME NEW n \in Nodes, Repeats(n)
      PROVE  /\ Inbox'[s] \in Seq(AckSound'[s])
             /\ reports'[s] \in Seq(ReportSound'[s])
  BY <1>2, <1>11 DEF Repeats, Inbox
<1>12. CASE SharedStep
  BY <1>3, <1>4, <1>5, <1>12, SharedSteps
<1> QED BY <1>7, <1>9, <1>10, <1>11, <1>12 DEF Handles

LEMMA InitAcks == Init => HeardFits /\ HeardPassedOn /\ AcksPassedOn
<1> SUFFICES ASSUME Init PROVE HeardFits /\ HeardPassedOn /\ AcksPassedOn
  OBVIOUS
<1>1. HeardFits /\ HeardPassedOn
  BY DEF Init, HeardFits, HeardPassedOn
<1>2. \A s \in Stacks : Inbox[s] = <<>> /\ reports[s] = <<>>
  BY DEF Init, Inbox
<1>3. AcksPassedOn
  BY <1>2, SeqTyped DEF AcksPassedOn
<1> QED BY <1>1, <1>3

\* What an ACK_OK that was read says.
LEMMA AckSays ==
    ASSUME TypeOK, AcksPassedOn
    PROVE  \A s \in Stacks \ Promisc : \A i \in DOMAIN reports[s] :
              LET k == reports[s][i].seq
                  p == sent[s][k]
              IN  (/\ reports[s][i].status = "ACK_OK"
                   /\ p.fits
                   /\ p.dst \in Stacks \ {CL_DSTID_MACHDR_PRESENT}) =>
                      \/ Holds(p.dst, s, k)
                      \/ <<p.dst, s, k>> \in refused
                      \/ stack[p.dst] = "dead"
<1> TAKE s \in Stacks \ Promisc
<1> TAKE i \in DOMAIN reports[s]
<1> DEFINE k   == reports[s][i].seq
           dst == sent[s][k].dst
<1> SUFFICES ASSUME reports[s][i].status = "ACK_OK", sent[s][k].fits,
                    dst \in Stacks \ {CL_DSTID_MACHDR_PRESENT}
             PROVE  \/ Holds(dst, s, k)
                    \/ <<dst, s, k>> \in refused
                    \/ stack[dst] = "dead"
  OBVIOUS
<1>1. reports[s][i] \in ReportSound[s]
  BY DEF AcksPassedOn
<1>2. <<dst, s, k>> \in PassedOn
  BY <1>1 DEF ReportSound, Ackable
<1> HIDE DEF k, dst
<1>3. \/ k \in Keys(slq[dst], DataOf(s))
      \/ <<s, k>> \in got[dst]
      \/ <<dst, s, k>> \in refused
      \/ stack[dst] = "dead"
  BY <1>2 DEF PassedOn
<1>4. k \in Keys(slq[dst], DataOf(s)) => Holds(dst, s, k)
  BY DEF Keys, DataOf, Holds
<1>5. <<s, k>> \in got[dst] => Holds(dst, s, k)
  BY DEF Holds
<1> QED BY <1>3, <1>4, <1>5

LEMMA AcksSound ==
    ASSUME Sound, AcksPassedOn
    PROVE  AckedIsPassedOn
<1> SUFFICES ASSUME NEW s \in Stacks \ Promisc, NEW i \in DOMAIN reports[s],
                    reports[s][i].status = "ACK_OK",
                    sent[s][reports[s][i].seq].dst
                        \in Stacks \ {CL_DSTID_MACHDR_PRESENT}
             PROVE  LET k   == reports[s][i].seq
                        dst == sent[s][k].dst
                    IN  \/ Holds(dst, s, k)
                        \/ <<dst, s, k>> \in refused
                        \/ stack[dst] = "dead"
  BY DEF AckedIsPassedOn
<1>1. reports[s][i] \in ReportFor[s]
  BY DEF Sound, Truthful
<1>2. sent[s][reports[s][i].seq].fits
  BY <1>1 DEF ReportFor
<1> QED BY <1>2, AckSays DEF Sound

\* When a sender reads ACK_OK for a unicast, the addressee's stackline has the
\* packet in its socket or has read it, unless it was not there to be sent to
\* (SendPacketToStackline completes before DataConfirm of the sender runs).
THEOREM AcksArePassedOn == Spec => []AckedIsPassedOn
<1>1. /\ Sound /\ HeardFits /\ HeardPassedOn /\ AcksPassedOn /\ [Next]_vars
      => (HeardFits /\ HeardPassedOn /\ AcksPassedOn)'
  BY NextHandles, HeardFitsKept, HeardKept, AcksKept DEF Sound, Truthful
<1>2. Sound /\ AcksPassedOn => AckedIsPassedOn
  BY AcksSound
<1> QED BY <1>1, <1>2, InitAcks, SoundHolds, PTL DEF Spec

-----------------------------------------------------------------------------
(* The counters balance.  First what a sum is: SumFunction folds + over the *)
(* elements of the domain, picked one by one, and Partial is that fold.     *)

\* Natural numbers are all reached by counting from 0.
LEMMA Counting ==
    ASSUME NEW T \in SUBSET Nat, 0 \in T, \A n \in T : n + 1 \in T
    PROVE  T = Nat
<1> SUFFICES ASSUME Nat \ T # {} PROVE FALSE
  OBVIOUS
<1> DEFINE R == OpToRel(<, Nat)
           U == Nat \ T
<1>1. IsWellFoundedOn(R, Nat)
  BY NatLessThanWellFounded, Zenon
<1>2. \A k, m \in Nat : <<k, m>> \in R <=> k < m
  BY DEF OpToRel
<1> HIDE DEF R
<1>3. PICK m \in U : \A k \in U : <<k, m>> \notin R
  <2> U \subseteq Nat /\ U # {}
    OBVIOUS
  <2> HIDE DEF U
  <2> QED BY <1>1, WFMin
<1>4. m # 0 /\ m - 1 \in Nat
  BY <1>3
<1>5. m - 1 \in T
  <2>1. m - 1 < m
    BY <1>4
  <2> QED BY <1>2, <1>3, <1>4, <2>1
<1> QED BY <1>3, <1>4, <1>5

Picked(s) == CHOOSE x \in s : TRUE

Partial(f, A) ==
    CHOOSE g : g = [s \in SUBSET A |->
        IF s = {} THEN 0 ELSE f[Picked(s)] + g[s \ {Picked(s)}]]

LEMMA SumIs ==
    ASSUME NEW f
    PROVE  SumFunction(f) = Partial(f, DOMAIN f)[DOMAIN f]
BY DEF SumFunction, SumFunctionOnSet, FoldFunctionOnSet, MapThenFoldSet, Partial, Picked

LEMMA PickedIn == \A s : s # {} => Picked(s) \in s
BY DEF Picked

\* Without the element picked a set has one element less.
LEMMA PickedLess ==
    ASSUME NEW A, IsFiniteSet(A), NEW s \in SUBSET A, s # {}
    PROVE  /\ Picked(s) \in A /\ s \ {Picked(s)} \in SUBSET A
           /\ Cardinality(s) \in Nat /\ Cardinality(s \ {Picked(s)}) \in Nat
           /\ Cardinality(s \ {Picked(s)}) = Cardinality(s) - 1
<1>1. Picked(s) \in s
  BY PickedIn
<1>2. IsFiniteSet(s) /\ IsFiniteSet(s \ {Picked(s)})
  BY FS_Subset
<1>3. Cardinality(s \ {Picked(s)}) = Cardinality(s) - 1
  BY <1>1, <1>2, FS_RemoveElement
<1> QED BY <1>1, <1>2, <1>3, FS_CardinalityType

\* A set of subsets that has the empty set, and with a set less the element
\* picked from it that set, has all of them.
LEMMA Picking ==
    ASSUME NEW A, IsFiniteSet(A), NEW T \in SUBSET (SUBSET A), {} \in T,
           \A s \in SUBSET A : s # {} /\ s \ {Picked(s)} \in T => s \in T
    PROVE  T = SUBSET A
<1> DEFINE N == {n \in Nat : \A s \in SUBSET A : Cardinality(s) <= n => s \in T}
<1>1. \A s \in SUBSET A : Cardinality(s) \in Nat /\ (Cardinality(s) = 0 => s = {})
  BY FS_Subset, FS_CardinalityType, FS_EmptySet
<1>2. 0 \in N
  <2>1. ASSUME NEW s \in SUBSET A, Cardinality(s) <= 0 PROVE s \in T
    <3>1. Cardinality(s) = 0
      BY <1>1, <2>1
    <3> QED BY <1>1, <3>1
  <2> QED BY <2>1
<1>3. ASSUME NEW n \in N PROVE n + 1 \in N
  <2> SUFFICES ASSUME NEW s \in SUBSET A, Cardinality(s) <= n + 1 PROVE s \in T
    OBVIOUS
  <2>1. CASE s = {}
    BY <2>1
  <2>2. CASE s # {}
    <3>1. s \ {Picked(s)} \in SUBSET A /\ Cardinality(s \ {Picked(s)}) <= n
      BY <1>1, <2>2, PickedLess
    <3> QED BY <2>2, <3>1
  <2> QED BY <2>1, <2>2
<1>4. N = Nat
  <2>1. N \in SUBSET Nat
    OBVIOUS
  <2> HIDE DEF N
  <2> QED BY <1>2, <1>3, <2>1, Counting
<1>5. ASSUME NEW s \in SUBSET A PROVE s \in T
  <2>1. Cardinality(s) \in N /\ Cardinality(s) <= Cardinality(s)
    BY <1>1, <1>4
  <2> QED BY <2>1
<1> QED BY <1>5

Sums(f, A, g) ==
    /\ g \in [SUBSET A -> Nat]
    /\ \A s \in SUBSET A : g[s] = IF s = {} THEN 0 ELSE f[Picked(s)] + g[s \ {Picked(s)}]

LEMMA SumsExist ==
    ASSUME NEW A, IsFiniteSet(A), NEW f \in [A -> Nat]
    PROVE  \E g : Sums(f, A, g)
<1> DEFINE Low(n) == {s \in SUBSET A : Cardinality(s) <= n}
           Good(n, g) == \A s \in Low(n) :
               g[s] = IF s = {} THEN 0 ELSE f[Picked(s)] + g[s \ {Picked(s)}]
           T == {n \in Nat : \E g \in [Low(n) -> Nat] : Good(n, g)}
<1>1. 0 \in T
  <2>1. \A s \in Low(0) : s = {}
    BY FS_Subset, FS_CardinalityType, FS_EmptySet
  <2> DEFINE g == [s \in Low(0) |-> 0]
  <2>2. g \in [Low(0) -> Nat] /\ Good(0, g)
    BY <2>1
  <2> QED BY <2>2
<1>2. ASSUME NEW n \in T PROVE n + 1 \in T
  <2>1. PICK h \in [Low(n) -> Nat] : Good(n, h)
    OBVIOUS
  <2> DEFINE g == [s \in Low(n + 1) |->
                      IF s = {} THEN 0 ELSE f[Picked(s)] + h[s \ {Picked(s)}]]
  <2>2. ASSUME NEW s \in Low(n + 1), s # {}
        PROVE  /\ Picked(s) \in A /\ s \ {Picked(s)} \in Low(n)
               /\ h[s \ {Picked(s)}] \in Nat
    BY <2>1, <2>2, PickedLess
  <2>3. g \in [Low(n + 1) -> Nat]
    <3> SUFFICES ASSUME NEW s \in Low(n + 1)
                 PROVE  (IF s = {} THEN 0 ELSE f[Picked(s)] + h[s \ {Picked(s)}]) \in Nat
      OBVIOUS
    <3>1. CASE s = {}
      BY <3>1
    <3>2. CASE s # {}
      <4>1. /\ Picked(s) \in A
            /\ h[s \ {Picked(s)}] \in Nat
        BY <2>2, <3>2
      <4> QED BY <3>2, <4>1
    <3> QED BY <3>1, <3>2
  <2>4. \A s \in Low(n) : s \in Low(n + 1) /\ g[s] = h[s]
    <3> SUFFICES ASSUME NEW s \in Low(n) PROVE s \in Low(n + 1) /\ g[s] = h[s]
      OBVIOUS
    <3>1. s \in Low(n + 1)
      <4>1. Cardinality(s) \in Nat
        BY FS_Subset, FS_CardinalityType
      <4> QED BY <4>1
    <3>2. g[s] = IF s = {} THEN 0 ELSE f[Picked(s)] + h[s \ {Picked(s)}]
      BY <3>1
    <3>3. h[s] = IF s = {} THEN 0 ELSE f[Picked(s)] + h[s \ {Picked(s)}]
      BY <2>1
    <3> QED BY <3>1, <3>2, <3>3
  <2>5. Good(n + 1, g)
    <3> SUFFICES ASSUME NEW s \in Low(n + 1)
                 PROVE  g[s] = IF s = {} THEN 0 ELSE f[Picked(s)] + g[s \ {Picked(s)}]
      OBVIOUS
    <3>1. g[s] = IF s = {} THEN 0 ELSE f[Picked(s)] + h[s \ {Picked(s)}]
      OBVIOUS
    <3> HIDE DEF g, Low
    <3> QED BY <2>2, <2>4, <3>1
  <2> HIDE DEF Low, Good, g
  <2> QED BY <2>3, <2>5
<1>3. Cardinality(A) \in T
  <2> HIDE DEF T
  <2>1. T = Nat
    <3>1. T \in SUBSET Nat
      BY DEF T
    <3> QED BY <1>1, <1>2, <3>1, Counting
  <2> QED BY <2>1, FS_CardinalityType
<1>4. Low(Cardinality(A)) = SUBSET A
  BY FS_Subset
<1>5. PICK g \in [SUBSET A -> Nat] : Good(Cardinality(A), g)
  BY <1>3, <1>4
<1>6. Sums(f, A, g)
  BY <1>4, <1>5 DEF Sums
<1> QED BY <1>6

\* How the sum of what a function has on a set is computed.
LEMMA PartialSums ==
    ASSUME NEW A, IsFiniteSet(A), NEW f \in [A -> Nat]
    PROVE  Sums(f, A, Partial(f, A))
<1>1. PICK h : Sums(f, A, h)
  BY SumsExist
<1> DEFINE B(g) == [s \in SUBSET A |-> IF s = {} THEN 0 ELSE f[Picked(s)] + g[s \ {Picked(s)}]]
           g == Partial(f, A)
<1>2. h = B(h)
  <2>1. h = [s \in SUBSET A |-> h[s]]
    BY <1>1 DEF Sums
  <2> QED BY <1>1, <2>1 DEF Sums
<1>3. g = B(g)
  BY <1>2, Zenon DEF Partial
<1>4. \A s \in SUBSET A :
         /\ g[s] = IF s = {} THEN 0 ELSE f[Picked(s)] + g[s \ {Picked(s)}]
         /\ h[s] = IF s = {} THEN 0 ELSE f[Picked(s)] + h[s \ {Picked(s)}]
  <2>1. \A k : \A s \in SUBSET A :
           B(k)[s] = IF s = {} THEN 0 ELSE f[Picked(s)] + k[s \ {Picked(s)}]
    OBVIOUS
  <2> HIDE DEF B, g
  <2> QED BY <1>2, <1>3, <2>1
<1> HIDE DEF g, B
<1>8. \A s \in SUBSET A : g[s] = h[s]
  <2> DEFINE T == {s \in SUBSET A : g[s] = h[s]}
  <2>1. {} \in T
    BY <1>4
  <2>2. ASSUME NEW s \in SUBSET A, s # {}, s \ {Picked(s)} \in T PROVE s \in T
    BY <1>4, <2>2
  <2>3. T \in SUBSET (SUBSET A)
    OBVIOUS
  <2>4. T = SUBSET A
    <3> HIDE DEF T
    <3> QED BY <2>1, <2>2, <2>3, Picking
  <2> QED BY <2>4
<1>9. g = h
  <2>1. g = [s \in SUBSET A |-> g[s]]
    BY <1>3 DEF B
  <2>2. h = [s \in SUBSET A |-> h[s]]
    BY <1>2 DEF B
  <2> QED BY <1>8, <2>1, <2>2
<1> QED BY <1>1, <1>9 DEF g

\* What a function of counters sums up to: nothing at first, one more when one
\* of them is counted up.
LEMMA SumStarts ==
    ASSUME NEW A, IsFiniteSet(A)
    PROVE  SumFunction([a \in A |-> 0]) = 0
<1> DEFINE f == [a \in A |-> 0]
           g == Partial(f, A)
           T == {s \in SUBSET A : g[s] = 0}
<1>1. f \in [A -> Nat] /\ DOMAIN f = A /\ \A a \in A : f[a] = 0
  OBVIOUS
<1> HIDE DEF f
<1>2. \A s \in SUBSET A : g[s] = IF s = {} THEN 0 ELSE f[Picked(s)] + g[s \ {Picked(s)}]
  <2>1. Sums(f, A, g)
    BY <1>1, PartialSums
  <2> HIDE DEF g
  <2> QED BY <2>1 DEF Sums
<1> HIDE DEF g
<1>3. {} \in T
  BY <1>2
<1>4. ASSUME NEW s \in SUBSET A, s # {}, s \ {Picked(s)} \in T PROVE s \in T
  <2>1. f[Picked(s)] = 0
    BY <1>1, <1>4, PickedIn
  <2> QED BY <1>2, <1>4, <2>1
<1>5. T = SUBSET A
  <2>1. T \in SUBSET (SUBSET A)
    OBVIOUS
  <2> HIDE DEF T
  <2> QED BY <1>3, <1>4, <2>1, Picking
<1>6. g[A] = 0
  BY <1>5
<1> QED BY <1>1, <1>6, SumIs DEF g, f

LEMMA SumCounts ==
    ASSUME NEW A, IsFiniteSet(A), NEW f \in [A -> Nat], NEW a \in A
    PROVE  /\ SumFunction(f) \in Nat
           /\ SumFunction([f EXCEPT ![a] = @ + 1]) = SumFunction(f) + 1
<1> DEFINE k == [f EXCEPT ![a] = @ + 1]
           g == Partial(f, A)
           h == Partial(k, A)
           More(s) == IF a \in s THEN 1 ELSE 0
           T == {s \in SUBSET A : h[s] = g[s] + More(s)}
<1>1. /\ k \in [A -> Nat] /\ DOMAIN k = A /\ DOMAIN f = A
      /\ \A b \in A : k[b] = f[b] + More({b})
  OBVIOUS
<1> HIDE DEF k
<1>2. /\ g \in [SUBSET A -> Nat] /\ h \in [SUBSET A -> Nat]
      /\ g[{}] = 0 /\ h[{}] = 0
      /\ \A s \in SUBSET A : s # {} =>
            /\ g[s] = f[Picked(s)] + g[s \ {Picked(s)}]
            /\ h[s] = k[Picked(s)] + h[s \ {Picked(s)}]
  <2>1. Sums(f, A, g) /\ Sums(k, A, h)
    BY <1>1, PartialSums
  <2> HIDE DEF g, h
  <2> QED BY <2>1 DEF Sums
<1> HIDE DEF g, h
<1>3. {} \in T
  BY <1>2
<1>4. ASSUME NEW s \in SUBSET A, s # {}, s \ {Picked(s)} \in T PROVE s \in T
  <2> DEFINE x == Picked(s)
  <2>1. x \in s /\ x \in A /\ s \ {x} \in SUBSET A
    BY <1>4, PickedIn
  <2>2. h[s] = k[x] + h[s \ {x}] /\ g[s] = f[x] + g[s \ {x}]
    BY <1>2, <1>4
  <2>3. h[s \ {x}] = g[s \ {x}] + More(s \ {x})
    BY <1>4
  <2> HIDE DEF x
  <2>4. More(s) = More({x}) + More(s \ {x})
    BY <2>1
  <2>5. f[x] \in Nat /\ g[s \ {x}] \in Nat
    BY <1>2, <2>1
  <2>6. More({x}) \in Nat /\ More(s \ {x}) \in Nat
    OBVIOUS
  <2>7. k[x] = f[x] + More({x})
    BY <1>1, <2>1
  <2>8. h[s] = g[s] + More(s)
    <3> HIDE DEF More
    <3> QED BY <2>2, <2>3, <2>4, <2>5, <2>6, <2>7
  <2> QED BY <2>8
<1>5. T = SUBSET A
  <2>1. T \in SUBSET (SUBSET A)
    OBVIOUS
  <2> HIDE DEF T
  <2> QED BY <1>3, <1>4, <2>1, Picking
<1>6. h[A] = g[A] + 1
  <2>1. A \in T
    BY <1>5
  <2> QED BY <2>1
<1>7. g[A] \in Nat
  BY <1>2
<1> QED BY <1>1, <1>6, <1>7, SumIs DEF g, h, k
\* The unicasts among the frames of a MAC: one more, or one less.
Unicasts(q) == {i \in DOMAIN q : q[i].dst # BCAST}

Unicast(f) == IF f.dst = BCAST THEN 0 ELSE 1

LEMMA UnicastsFinite ==
    ASSUME NEW q \in Seq(Frames)
    PROVE  IsFiniteSet(Unicasts(q)) /\ Cardinality(Unicasts(q)) \in Nat
<1>1. Unicasts(q) \in SUBSET (1..Len(q)) /\ Len(q) \in Int
  BY DEF Unicasts
<1>2. IsFiniteSet(1..Len(q))
  BY <1>1, FS_Interval
<1> QED BY <1>1, <1>2, FS_Subset, FS_CardinalityType

LEMMA UnicastsAppend ==
    ASSUME NEW q \in Seq(Frames), NEW f \in Frames
    PROVE  Cardinality(Unicasts(Append(q, f))) = Cardinality(Unicasts(q)) + Unicast(f)
<1>1. /\ DOMAIN q = 1..Len(q) /\ Len(q) \in Nat
      /\ DOMAIN Append(q, f) = 1..(Len(q) + 1)
      /\ \A i \in 1..Len(q) : Append(q, f)[i] = q[i]
      /\ Append(q, f)[Len(q) + 1] = f
  OBVIOUS
<1>2. CASE f.dst = BCAST
  <2>1. Unicasts(Append(q, f)) = Unicasts(q)
    BY <1>1, <1>2 DEF Unicasts
  <2> QED BY <1>2, <2>1, UnicastsFinite DEF Unicast
<1>3. CASE f.dst # BCAST
  <2>1. Unicasts(Append(q, f)) = Unicasts(q) \cup {Len(q) + 1}
    BY <1>1, <1>3 DEF Unicasts
  <2>2. Len(q) + 1 \notin Unicasts(q)
    BY <1>1 DEF Unicasts
  <2> QED BY <1>3, <2>1, <2>2, UnicastsFinite, FS_AddElement DEF Unicast
<1> QED BY <1>2, <1>3

LEMMA UnicastsRemoved ==
    ASSUME NEW q \in Seq(Frames), NEW i \in DOMAIN q
    PROVE  Cardinality(Unicasts(RemoveAt(q, i))) = Cardinality(Unicasts(q)) - Unicast(q[i])
<1> DEFINE r == RemoveAt(q, i)
           S == Unicasts(q) \ {i}
           At(j) == IF j < i THEN j ELSE j + 1
           F == [j \in Unicasts(r) |-> At(j)]
<1>1. /\ DOMAIN r = 1..(Len(q) - 1) /\ DOMAIN q = 1..Len(q)
      /\ Len(q) \in Nat /\ i \in 1..Len(q)
      /\ \A j \in 1..(Len(q) - 1) : r[j] = q[At(j)]
  BY RemovedIs
<1>2. r \in Seq(Frames)
  BY RemoveAtTyped
<1> HIDE DEF r
<1>3. \A j \in Unicasts(r) : j \in Int /\ At(j) \in S
  BY <1>1 DEF Unicasts
<1>4. ASSUME NEW k \in S PROVE \E j \in Unicasts(r) : At(j) = k
  <2>1. k \in 1..Len(q) /\ k # i /\ q[k].dst # BCAST
    BY <1>1 DEF Unicasts
  <2>2. CASE k < i
    <3>1. k \in DOMAIN r /\ At(k) = k
      BY <1>1, <2>1, <2>2
    <3> QED BY <1>1, <2>1, <3>1 DEF Unicasts
  <2>3. CASE k > i
    <3>1. k - 1 \in DOMAIN r /\ At(k - 1) = k
      BY <1>1, <2>1, <2>3
    <3> QED BY <1>1, <2>1, <3>1 DEF Unicasts
  <2> QED BY <1>1, <2>1, <2>2, <2>3
<1>5. \A j, k \in Unicasts(r) : At(j) = At(k) => j = k
  BY <1>1, <1>3
<1>6. F \in Bijection(Unicasts(r), S)
  <2> HIDE DEF S
  <2>1. F \in [Unicasts(r) -> S] /\ \A j \in Unicasts(r) : F[j] = At(j)
    BY <1>3
  <2> HIDE DEF F, At
  <2> QED BY <1>4, <1>5, <2>1 DEF Bijection, Injection, Surjection, IsInjective
<1>7. Cardinality(S) = Cardinality(Unicasts(r))
  BY <1>2, <1>6, UnicastsFinite, FS_Bijection DEF ExistsBijection
<1>8. Cardinality(S) = Cardinality(Unicasts(q)) - Unicast(q[i])
  <2>1. i \in Unicasts(q) <=> q[i].dst # BCAST
    BY DEF Unicasts
  <2>2. /\ i \in Unicasts(q) => Cardinality(S) = Cardinality(Unicasts(q)) - 1
        /\ i \notin Unicasts(q) => S = Unicasts(q)
    <3> DEFINE U == Unicasts(q)
    <3>1. IsFiniteSet(U)
      BY UnicastsFinite
    <3> HIDE DEF U
    <3>2. Cardinality(U \ {i}) = IF i \in U THEN Cardinality(U) - 1 ELSE Cardinality(U)
      BY <3>1, FS_RemoveElement
    <3>3. i \notin U => U \ {i} = U
      OBVIOUS
    <3> QED BY <3>2, <3>3 DEF U
  <2> HIDE DEF S
  <2> QED BY <2>1, <2>2, UnicastsFinite DEF Unicast
<1> QED BY <1>7, <1>8 DEF r

\* All but the first is all with the first taken out.
LEMMA TailRemoves ==
    ASSUME NEW T, NEW q \in Seq(T), q # <<>>
    PROVE  1 \in DOMAIN q /\ Tail(q) = RemoveAt(q, 1) /\ Head(q) = q[1]
<1>1. 1 \in DOMAIN q /\ Head(q) = q[1]
  OBVIOUS
<1>2. /\ Tail(q) \in Seq(T) /\ DOMAIN Tail(q) = 1..(Len(q) - 1)
      /\ \A j \in 1..(Len(q) - 1) : Tail(q)[j] = q[j + 1]
  OBVIOUS
<1>3. RemoveAt(q, 1) \in Seq(T) /\ DOMAIN RemoveAt(q, 1) = 1..(Len(q) - 1)
  BY <1>1, RemoveAtTyped, RemovedIs
<1>4. \A j \in 1..(Len(q) - 1) : RemoveAt(q, 1)[j] = q[j + 1]
  <2>1. \A j \in 1..(Len(q) - 1) : ~(j < 1)
    OBVIOUS
  <2> QED BY <1>1, <2>1, RemovedIs
<1>5. Len(Tail(q)) = Len(RemoveAt(q, 1))
  BY <1>1, RemovedIs
<1>6. Tail(q) = RemoveAt(q, 1)
  BY <1>2, <1>3, <1>4, <1>5, SeqEqual
<1> QED BY <1>1, <1>6

\* What a step does to what Airline counts of the transmissions of a node, and
\* to the frames of its MAC: nothing; a frame is counted and handed to the MAC;
\* or one leaves it, and the outcome is counted unless it is a broadcast.
CountsStay(n) ==
    /\ mac'[n] = mac[n]
    /\ stats'[n].tx_pkts = stats[n].tx_pkts
    /\ stats'[n].tx_fail = stats[n].tx_fail
    /\ stats'[n].rx_ack_ok = stats[n].rx_ack_ok

CountsFrame(n, f) ==
    /\ mac'[n] = Append(mac[n], f)
    /\ stats'[n] = set_tx_stats(stats[n], f.dst)

CountsOutcome(n, i) ==
    /\ mac'[n] = RemoveAt(mac[n], i)
    /\ IF mac[n][i].dst = BCAST THEN stats'[n] = stats[n]
       ELSE \E status \in Statuses, retries \in Nat :
               /\ stats'[n] = set_ack_stats(stats[n], status, retries)
               /\ status = "ACK_OK" => retries \in 1..(MaxRetry + 1)

Counts(n) == \/ CountsStay(n)
             \/ \E f \in Frames : CountsFrame(n, f)
             \/ \E i \in DOMAIN mac[n] : CountsOutcome(n, i)

\* What of a node's transmissions is in the columns of the attempts, or still
\* to be counted.
AttemptsAndMac(n) == SumFunction(stats[n].rx_ack_ok) + UnicastsInMac(n)

\* An attempt has a slot in rx_ack_ok.
AttemptsFit == MaxRetry + 1 < MAX_MAC_TX_RETRY_CNT

LEMMA CountsBalance ==
    ASSUME TypeOK, NEW n \in Nodes, Counts(n)
    PROVE  /\ AttemptsAndMac(n) <= TxSucc(stats[n]) =>
                 AttemptsAndMac(n)' <= TxSucc(stats'[n])
           /\ AttemptsFit /\ AttemptsAndMac(n) = TxSucc(stats[n]) =>
                 AttemptsAndMac(n)' = TxSucc(stats'[n])
<1> DEFINE st == stats[n]
           q  == mac[n]
           sum == SumFunction(st.rx_ack_ok)
           in  == Cardinality(Unicasts(q))
<1>1. st \in StatsType /\ q \in Seq(Frames)
  BY DEF TypeOK
<1>2. IsFiniteSet(Attempts) /\ Attempts \in SUBSET Int
  BY FS_Interval, AttemptCapAssumption DEF Attempts
<1>3. /\ st.tx_pkts \in Nat /\ st.tx_fail \in Nat
      /\ st.rx_ack_ok \in [Attempts -> Nat] /\ in \in Nat
  BY <1>1, UnicastsFinite DEF StatsType
<1>4. /\ sum \in Nat
      /\ \A a \in Attempts : SumFunction([st.rx_ack_ok EXCEPT ![a] = @ + 1]) = sum + 1
  <2>1. 0 \in Attempts
    BY AttemptCapAssumption DEF Attempts
  <2> QED BY <1>2, <1>3, <2>1, SumCounts
<1>5. /\ AttemptsAndMac(n) = sum + in
      /\ AttemptsAndMac(n)' = SumFunction(stats'[n].rx_ack_ok) + Cardinality(Unicasts(mac'[n]))
      /\ TxSucc(stats[n]) = st.tx_pkts - st.tx_fail
      /\ TxSucc(stats'[n]) = stats'[n].tx_pkts - stats'[n].tx_fail
  BY DEF AttemptsAndMac, UnicastsInMac, Unicasts, TxSucc
<1>6. CASE CountsStay(n)
  BY <1>5, <1>6 DEF CountsStay
<1>7. ASSUME NEW f \in Frames, CountsFrame(n, f)
      PROVE  /\ stats'[n].rx_ack_ok = st.rx_ack_ok
             /\ stats'[n].tx_fail = st.tx_fail
             /\ stats'[n].tx_pkts = st.tx_pkts + Unicast(f)
             /\ Cardinality(Unicasts(mac'[n])) = in + Unicast(f)
             /\ Unicast(f) \in Nat
  <2>1. Cardinality(Unicasts(mac'[n])) = in + Unicast(f)
    BY <1>1, <1>7, UnicastsAppend DEF CountsFrame
  <2> HIDE DEF in
  <2> QED BY <1>1, <1>7, <2>1 DEF CountsFrame, set_tx_stats, StatsType, Unicast
<1>8. ASSUME NEW i \in DOMAIN mac[n], CountsOutcome(n, i)
      PROVE  Cardinality(Unicasts(mac'[n])) = in - Unicast(q[i])
  BY <1>1, <1>8, UnicastsRemoved DEF CountsOutcome
<1>9. ASSUME NEW i \in DOMAIN mac[n], CountsOutcome(n, i), q[i].dst = BCAST
      PROVE  stats'[n] = st /\ Cardinality(Unicasts(mac'[n])) = in
  BY <1>3, <1>8, <1>9 DEF CountsOutcome, Unicast
<1>10. ASSUME NEW i \in DOMAIN mac[n], CountsOutcome(n, i), q[i].dst # BCAST
       PROVE  /\ Cardinality(Unicasts(mac'[n])) = in - 1
              /\ stats'[n].tx_pkts = st.tx_pkts
              /\ \/ /\ stats'[n].rx_ack_ok = st.rx_ack_ok
                    /\ stats'[n].tx_fail = st.tx_fail + 1
                 \/ /\ SumFunction(stats'[n].rx_ack_ok) = sum + 1
                    /\ stats'[n].tx_fail = st.tx_fail
                 \/ ~AttemptsFit /\ stats'[n] = st
  <2>1. Cardinality(Unicasts(mac'[n])) = in - 1
    BY <1>8, <1>10 DEF Unicast
  <2>2. PICK status \in Statuses, retries \in Nat :
           /\ stats'[n] = set_ack_stats(st, status, retries)
           /\ status = "ACK_OK" => retries \in 1..(MaxRetry + 1)
    BY <1>10 DEF CountsOutcome
  <2> HIDE DEF st, in
  <2>3. CASE status # "ACK_OK"
    BY <1>1, <2>1, <2>2, <2>3 DEF set_ack_stats, StatsType
  <2>4. CASE status = "ACK_OK" /\ IN_RANGE(retries, 1, MAX_MAC_TX_RETRY_CNT)
    <3>1. retries \in Attempts
      BY <2>4, AttemptCapAssumption DEF IN_RANGE, Attempts
    <3>2. stats'[n] = [st EXCEPT !.rx_ack_ok[retries] = @ + 1]
      BY <2>2, <2>4 DEF set_ack_stats
    <3>3. /\ stats'[n].rx_ack_ok = [st.rx_ack_ok EXCEPT ![retries] = @ + 1]
          /\ stats'[n].tx_fail = st.tx_fail /\ stats'[n].tx_pkts = st.tx_pkts
      BY <1>1, <3>2 DEF StatsType
    <3> QED BY <1>4, <2>1, <3>1, <3>3
  <2>5. CASE status = "ACK_OK" /\ ~IN_RANGE(retries, 1, MAX_MAC_TX_RETRY_CNT)
    <3>1. ~AttemptsFit
      BY <2>2, <2>5, DataPlaneAssumption, AttemptCapAssumption DEF IN_RANGE, AttemptsFit
    <3> QED BY <2>1, <2>2, <2>5, <3>1 DEF set_ack_stats
  <2> QED BY <2>3, <2>4, <2>5
<1> HIDE DEF st, q, sum, in
<1>11. ASSUME NEW f \in Frames, CountsFrame(n, f)
       PROVE  AttemptsAndMac(n)' - TxSucc(stats'[n]) = AttemptsAndMac(n) - TxSucc(stats[n])
  BY <1>3, <1>4, <1>5, <1>7, <1>11 DEF sum
<1>12. ASSUME NEW i \in DOMAIN mac[n], CountsOutcome(n, i)
       PROVE  \/ AttemptsAndMac(n)' - TxSucc(stats'[n]) = AttemptsAndMac(n) - TxSucc(stats[n])
              \/ ~AttemptsFit /\ AttemptsAndMac(n)' = AttemptsAndMac(n) - 1
                              /\ TxSucc(stats'[n]) = TxSucc(stats[n])
  BY <1>3, <1>4, <1>5, <1>9, <1>10, <1>12 DEF sum, st
<1>13. AttemptsAndMac(n) \in Int /\ TxSucc(stats[n]) \in Int
  BY <1>3, <1>4, <1>5
<1>14. AttemptsAndMac(n)' \in Int /\ TxSucc(stats'[n]) \in Int
  BY <1>3, <1>4, <1>5, <1>6, <1>7, <1>9, <1>10 DEF Counts, CountsStay, sum, st, in, q
<1> QED BY <1>6, <1>11, <1>12, <1>13, <1>14 DEF Counts

\* DataConfirm counts the outcome of a unicast, with its attempts if it is an ACK.
LEMMA ConfirmCounts ==
    ASSUME TypeOK, NEW n \in Nodes, NEW f, NEW st \in MacStatuses, DataConfirm(n, f, st)
    PROVE  IF f.dst = BCAST THEN stats' = stats
           ELSE \E status \in Statuses, retries \in Nat :
                   /\ stats' = [stats EXCEPT ![n] = set_ack_stats(@, status, retries)]
                   /\ status = "ACK_OK" => retries \in 1..(MaxRetry + 1)
<1> DEFINE status  == wf_ack_status(st)
           retries == IF status = "ACK_OK" THEN tries[n] + 1 ELSE 0
<1>1. status \in Statuses
  BY DEF wf_ack_status, MacStatuses, Statuses
<1>2. retries \in Nat /\ (status = "ACK_OK" => retries \in 1..(MaxRetry + 1))
  BY DataPlaneAssumption DEF TypeOK
<1>3. CASE f.dst = BCAST
  BY <1>3 DEF DataConfirm
<1>4. CASE f.dst # BCAST
  <2>1. stats' = [stats EXCEPT ![n] = set_ack_stats(@, status, retries)]
    BY <1>4 DEF DataConfirm, SendAckToStackline
  <2> HIDE DEF status, retries
  <2> QED BY <1>1, <1>2, <1>4, <2>1
<1> QED BY <1>3, <1>4

\* Receptions are counted elsewhere.
LEMMA ReceptionCounts ==
    ASSUME TypeOK, NEW n \in Nodes, NEW k, NEW dst, mac' = mac,
           stats' = [stats EXCEPT ![k] = set_data_stats(@, dst)]
    PROVE  CountsStay(n)
<1>1. stats[n] \in StatsType /\ stats \in [Nodes -> StatsType]
  BY DEF TypeOK
<1>2. stats'[n] \in {stats[n], set_data_stats(stats[n], dst)}
  BY <1>1
<1> QED BY <1>1, <1>2 DEF CountsStay, set_data_stats, StatsType

LEMMA SharedCounts ==
    ASSUME TypeOK, SharedStep, NEW n \in Nodes
    PROVE  Counts(n)
<1>1. CASE UNCHANGED <<mac, stats>>
  BY <1>1 DEF Counts, CountsStay
<1>2. ASSUME NEW s \in Stacks, StackStep(s) PROVE UNCHANGED <<mac, stats>>
  BY <1>2 DEF StackStep, StackStart, StackDie, StackSend, StackUnblock, StackRecv, macVars
<1>3. CASE MsgReaderStart \/ MsgReaderStop \/ MsgReaderDrop \/ AirlineUnblock
  <2>1. UNCHANGED <<mac, stats>>
    BY <1>3 DEF MsgReaderStart, MsgReaderStop, MsgReaderDrop, AirlineUnblock, macVars
  <2> QED BY <1>1, <2>1
<1>4. CASE MsgReaderSend
  <2> DEFINE m == Head(alq)
  <2>1. m \in Frames
    BY <1>4 DEF MsgReaderSend, TypeOK
  <2>2. /\ mac' = [mac EXCEPT ![m.src] = Append(@, m)]
        /\ stats' = [stats EXCEPT ![m.src] = set_tx_stats(@, m.dst)]
    BY <1>4 DEF MsgReaderSend
  <2>3. mac \in [Nodes -> Seq(Frames)] /\ stats \in [Nodes -> StatsType]
    BY DEF TypeOK
  <2> HIDE DEF m
  <2>4. CASE m.src = n
    <3>1. CountsFrame(n, m)
      BY <2>2, <2>3, <2>4 DEF CountsFrame
    <3> QED BY <2>1, <3>1 DEF Counts
  <2>5. CASE m.src # n
    BY <2>2, <2>3, <2>5 DEF Counts, CountsStay
  <2> QED BY <2>4, <2>5
<1>5. CASE UNCHANGED vars
  BY <1>1, <1>5 DEF vars, macVars
<1> QED BY <1>1, <1>2, <1>3, <1>4, <1>5 DEF SharedStep, MsgReader

\* A frame leaves the MAC of k and its outcome is counted for k.
LEMMA OutcomeCounts ==
    ASSUME TypeOK, NEW n \in Nodes, NEW k \in Nodes, NEW i \in DOMAIN mac[k],
           mac' = [mac EXCEPT ![k] = RemoveAt(@, i)],
           IF mac[k][i].dst = BCAST THEN stats' = stats
           ELSE \E status \in Statuses, retries \in Nat :
                   /\ stats' = [stats EXCEPT ![k] = set_ack_stats(@, status, retries)]
                   /\ status = "ACK_OK" => retries \in 1..(MaxRetry + 1)
    PROVE  Counts(n)
<1>1. mac \in [Nodes -> Seq(Frames)] /\ stats \in [Nodes -> StatsType]
  BY DEF TypeOK
<1>2. CASE n # k
  BY <1>1, <1>2 DEF Counts, CountsStay
<1>3. CASE n = k
  <2>1. mac'[n] = RemoveAt(mac[n], i)
    BY <1>1, <1>3
  <2>2. CASE mac[n][i].dst = BCAST
    BY <1>3, <2>1, <2>2 DEF Counts, CountsOutcome
  <2>3. CASE mac[n][i].dst # BCAST
    <3>1. PICK status \in Statuses, retries \in Nat :
             /\ stats' = [stats EXCEPT ![n] = set_ack_stats(@, status, retries)]
             /\ status = "ACK_OK" => retries \in 1..(MaxRetry + 1)
      BY <1>3, <2>3
    <3>2. stats'[n] = set_ack_stats(stats[n], status, retries)
      BY <1>1, <3>1
    <3>3. CountsOutcome(n, i)
      BY <2>1, <2>3, <3>1, <3>2 DEF CountsOutcome
    <3> QED BY <1>3, <3>3 DEF Counts
  <2> QED BY <2>2, <2>3
<1> QED BY <1>2, <1>3

LEMMA NextCounts ==
    ASSUME TypeOK, [Next]_vars, NEW n \in Nodes
    PROVE  Counts(n)
<1>1. CASE SharedStep
  BY <1>1, SharedCounts
<1>2. ASSUME NEW k \in Nodes, NEW r \in Nodes, DataIndication(k, r) PROVE Counts(n)
  BY <1>2, ReceptionCounts DEF DataIndication, SendPacketToStackline, Counts
<1>3. ASSUME NEW k \in Nodes, MacRetry(k) PROVE Counts(n)
  BY <1>3 DEF MacRetry, Counts, CountsStay
<1>4. ASSUME NEW k \in Nodes, NEW st \in MacStatuses, MacDone(k, st) PROVE Counts(n)
  <2>1. mac[k] \in Seq(Frames) /\ mac[k] # <<>>
    BY <1>4 DEF TypeOK, MacDone
  <2>2. 1 \in DOMAIN mac[k] /\ Tail(mac[k]) = RemoveAt(mac[k], 1) /\ Head(mac[k]) = mac[k][1]
    BY <2>1, TailRemoves
  <2>3. mac' = [mac EXCEPT ![k] = RemoveAt(@, 1)] /\ DataConfirm(k, mac[k][1], st)
    BY <1>4, <2>2 DEF MacDone
  <2> QED BY <2>2, <2>3, ConfirmCounts, OutcomeCounts
<1>5. ASSUME NEW k \in Nodes, NEW i \in DOMAIN mac[k], MacReject(k, i) PROVE Counts(n)
  <2>1. "FRAME_TOO_LONG" \in MacStatuses
    BY DEF MacStatuses
  <2>2. mac' = [mac EXCEPT ![k] = RemoveAt(@, i)] /\ DataConfirm(k, mac[k][i], "FRAME_TOO_LONG")
    BY <1>5 DEF MacReject
  <2> QED BY <2>1, <2>2, ConfirmCounts, OutcomeCounts
<1> QED BY <1>1, <1>2, <1>3, <1>4, <1>5 DEF Next, MacStep, SharedStep

\* The attempt columns of cmd_mac_stats never show more than its tx_succ column,
\* however many attempts the configuration allows.
NeverOvercounted == \A n \in Nodes : AttemptsAndMac(n) <= TxSucc(stats[n])

LEMMA BalanceKept ==
    ASSUME TypeOK, \A n \in Nodes : Counts(n)
    PROVE  /\ NeverOvercounted => NeverOvercounted'
           /\ AttemptsFit /\ StatsBalance => StatsBalance'
<1>1. StatsBalance <=> \A n \in Nodes : AttemptsAndMac(n) = TxSucc(stats[n])
  <2>1. \A n \in Nodes : UnicastsInMac(n) = Cardinality(Unicasts(mac[n]))
    BY DEF UnicastsInMac, Unicasts
  <2> QED BY DEF StatsBalance, AttemptsAndMac
<1>2. StatsBalance' <=> \A n \in Nodes : AttemptsAndMac(n)' = TxSucc(stats'[n])
  BY DEF StatsBalance, AttemptsAndMac, UnicastsInMac
<1>3. NeverOvercounted' <=> \A n \in Nodes : AttemptsAndMac(n)' <= TxSucc(stats'[n])
  BY DEF NeverOvercounted, AttemptsAndMac, UnicastsInMac
<1>4. NeverOvercounted <=> \A n \in Nodes : AttemptsAndMac(n) <= TxSucc(stats[n])
  BY DEF NeverOvercounted
<1> QED BY <1>1, <1>2, <1>3, <1>4, CountsBalance

LEMMA InitBalance == Init => NeverOvercounted /\ StatsBalance
<1> SUFFICES ASSUME Init, NEW n \in Nodes
             PROVE  AttemptsAndMac(n) = 0 /\ TxSucc(stats[n]) = 0
                    /\ TxSucc(stats[n]) = SumFunction(stats[n].rx_ack_ok) + UnicastsInMac(n)
  BY DEF NeverOvercounted, StatsBalance
<1>1. stats[n] = NoStats /\ mac[n] = <<>>
  BY DEF Init
<1>2. IsFiniteSet(Attempts)
  BY FS_Interval, AttemptCapAssumption DEF Attempts
<1>3. SumFunction(stats[n].rx_ack_ok) = 0
  BY <1>1, <1>2, SumStarts DEF NoStats
<1>4. TxSucc(stats[n]) = 0
  BY <1>1 DEF NoStats, TxSucc
<1>5. UnicastsInMac(n) = 0
  <2>1. {i \in DOMAIN mac[n] : mac[n][i].dst # BCAST} = {}
    BY <1>1
  <2> QED BY <2>1, FS_EmptySet DEF UnicastsInMac
<1> QED BY <1>3, <1>4, <1>5 DEF AttemptsAndMac

\* What is counted as transmitted and not as failed is counted under its number
\* of attempts or still in the MAC, if every attempt the MAC may make has a slot
\* (set_tx_stats, set_rx_stats, get_summary).
THEOREM StatsAreBalanced ==
    ASSUME AttemptsFit
    PROVE  Spec => []StatsBalance
<1>1. TypeOK /\ StatsBalance /\ [Next]_vars => StatsBalance'
  BY NextCounts, BalanceKept
<1> QED BY <1>1, InitBalance, TypeCorrect, PTL DEF Spec

\* With more attempts than slots some outcomes are in no column; none is in two
\* (set_rx_stats: an ACK whose attempt has no slot is logged and not counted).
THEOREM NothingIsOvercounted == Spec => []NeverOvercounted
<1>1. TypeOK /\ NeverOvercounted /\ [Next]_vars => NeverOvercounted'
  BY NextCounts, BalanceKept
<1> QED BY <1>1, InitBalance, TypeCorrect, PTL DEF Spec

-----------------------------------------------------------------------------
(* All of it in one, for those who run the data plane together with         *)
(* something else.                                                          *)

Served == /\ Sound
          /\ HeardFits /\ HeardPassedOn /\ AcksPassedOn
          /\ NeverOvercounted
          /\ AttemptsFit => StatsBalance

LEMMA ServedFirst == Init => Served
BY InitTyped, InitOrder, InitCovers, InitAcks, InitBalance DEF Served, Sound

LEMMA ServedKept ==
    ASSUME Served, [Next]_vars
    PROVE  Served' /\ (Service!SNext \/ UNCHANGED <<stack, sent, got, reports>>)
<1>1. Sound'
  BY StepTyped, NextMoves, SoundKept DEF Served, Sound
<1>2. HeardFits' /\ HeardPassedOn' /\ AcksPassedOn'
  BY NextHandles, HeardFitsKept, HeardKept, AcksKept DEF Served, Sound, Truthful
<1>3. NeverOvercounted' /\ (AttemptsFit => StatsBalance')
  BY NextCounts, BalanceKept DEF Served, Sound
<1>4. Service!SNext \/ UNCHANGED <<stack, sent, got, reports>>
  BY NextServes DEF Served
<1>5. (AttemptsFit => StatsBalance') => (AttemptsFit => StatsBalance)'
  BY DEF AttemptsFit
<1> QED BY <1>1, <1>2, <1>3, <1>4, <1>5 DEF Served

\* Whether msgReader is in its loop is nothing that any of it depends on.
LEMMA LoopAlone ==
    ASSUME Served, reading' \in BOOLEAN,
           UNCHANGED <<stack, sent, slOut, alq, mac, tries, heard, stats, alOut, slq,
                       got, reports, refused>>
    PROVE  Served'
<1>1. TypeOK'
  BY DEF Served, Sound, TypeOK
<1>2. Sound'
  BY <1>1, StillLessens, SoundKept DEF Served, Moves
<1>3. HeardFits' /\ HeardPassedOn' /\ AcksPassedOn'
  <2>1. PassedOn' = PassedOn /\ Waiting' = Waiting /\ Inbox' = Inbox
    BY DEF PassedOn, Waiting, Inbox
  <2>2. Ackable' = Ackable
    BY <2>1 DEF Ackable
  <2>3. AckSound' = AckSound /\ ReportSound' = ReportSound
    BY <2>2 DEF AckSound, ReportSound
  <2> QED BY <2>1, <2>3 DEF Served, HeardFits, HeardPassedOn, AcksPassedOn
<1>4. NeverOvercounted' /\ (AttemptsFit => StatsBalance)'
  BY DEF Served, AttemptsFit, NeverOvercounted, AttemptsAndMac, StatsBalance, UnicastsInMac
<1> QED BY <1>2, <1>3, <1>4 DEF Served

=============================================================================
