------------------------------ MODULE Macstats ------------------------------
(***************************************************************************)
(* The per-node MAC counters of Airline (src/airline/mac_stats.{h,cc}):    *)
(* how a message changes the counters of the node it is charged to, and    *)
(* what the cmd_mac_stats report derives from them.                        *)
(***************************************************************************)
EXTENDS Commline, Naturals

CONSTANT MAX_MAC_TX_RETRY_CNT     \* size of the rx_ack_ok array

ASSUME AttemptCapAssumption == MAX_MAC_TX_RETRY_CNT \in Nat \ {0}

Attempts == 0..(MAX_MAC_TX_RETRY_CNT - 1)

\* stats_t
StatsType == [tx_pkts : Nat, rx_pkts : Nat, tx_fail : Nat,
              tx_mc_pkts : Nat, rx_mc_pkts : Nat,
              rx_ack_ok : [Attempts -> Nat]]

\* Macstats::Macstats and Macstats::reset clear every counter.
NoStats == [tx_pkts |-> 0, rx_pkts |-> 0, tx_fail |-> 0,
            tx_mc_pkts |-> 0, rx_mc_pkts |-> 0,
            rx_ack_ok |-> [a \in Attempts |-> 0]]

\* A data message on its way to the air.
set_tx_stats(st, dst) ==
    IF dst = BCAST THEN [st EXCEPT !.tx_mc_pkts = @ + 1]
                   ELSE [st EXCEPT !.tx_pkts = @ + 1]

\* The report of a transmission: an ACK_OK whose attempt number has no slot in
\* rx_ack_ok is logged and not counted anywhere.
set_ack_stats(st, status, retries) ==
    IF status # "ACK_OK" THEN [st EXCEPT !.tx_fail = @ + 1]
    ELSE IF IN_RANGE(retries, 1, MAX_MAC_TX_RETRY_CNT)
         THEN [st EXCEPT !.rx_ack_ok[retries] = @ + 1]
         ELSE st

\* A data message received from the air: the test is on the destination being
\* other than node 0, not on its being the broadcast address.
set_data_stats(st, dst) ==
    IF dst # 0 THEN [st EXCEPT !.rx_mc_pkts = @ + 1]
               ELSE [st EXCEPT !.rx_pkts = @ + 1]

\* get_summary's tx_succ column.
TxSucc(st) == st.tx_pkts - st.tx_fail

=============================================================================
