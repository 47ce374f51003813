----------------------------- MODULE LinkService ----------------------------
(***************************************************************************)
(* What Whitefield promises a stackline that sends packets: the service    *)
(* DataPlane implements, without queues, retries, threads or blocking.     *)
(*                                                                         *)
(* A stackline submits packets and later sees packets of others and the    *)
(* reports of its own.  The promise: packets of one sender arrive at a     *)
(* receiver in the order they were sent (repeats are possible, the radio   *)
(* repeats); every report is about a unicast of the node that gets it;     *)
(* there is at most one report per unicast; and a packet the PHY can carry *)
(* is reported after all such packets submitted before it, without a gap.  *)
(***************************************************************************)
EXTENDS Commline, Naturals, Sequences

CONSTANTS NumNodes, Stacks, Dsts, Promisc, MacHeaderAdd, MaxPkts, Sizes

VARIABLES stack, sent, got, reports

serviceVars == <<stack, sent, got, reports>>

\* Airline accepts the k-th packet of s.
Accepted(s, k) ==
    /\ IN_RANGE(s, 0, NumNodes)
    /\ sent[s][k].dst = CL_DSTID_MACHDR_PRESENT => ~MacHeaderAdd

\* ... and will report its outcome.
Reportable(s, k) == Accepted(s, k) /\ sent[s][k].dst # BCAST

Reported(s, k) == \E i \in DOMAIN reports[s] : reports[s][i].seq = k

SInit ==
    /\ stack = [s \in Stacks |-> "new"]
    /\ sent = [s \in Stacks |-> <<>>]
    /\ got = [s \in Stacks |-> {}]
    /\ reports = [s \in Stacks |-> <<>>]

Start(s) ==
    /\ stack[s] = "new"
    /\ stack' = [stack EXCEPT ![s] = "up"]
    /\ UNCHANGED <<sent, got, reports>>

Die(s) ==
    /\ stack[s] = "up"
    /\ stack' = [stack EXCEPT ![s] = "dead"]
    /\ UNCHANGED <<sent, got, reports>>

Submit(s) ==
    /\ stack[s] = "up"
    /\ Len(sent[s]) < MaxPkts[s]
    /\ \E dst \in Dsts \ {s}, fits \in Sizes :
         sent' = [sent EXCEPT ![s] = Append(@, [dst |-> dst, fits |-> fits])]
    /\ UNCHANGED <<stack, got, reports>>

\* Stackline r receives the k-th packet of s.
Deliver(r, s, k) ==
    /\ stack[r] = "up"
    /\ r # s
    /\ Accepted(s, k)
    /\ sent[s][k].fits
    /\ \/ sent[s][k].dst \in {BCAST, CL_DSTID_MACHDR_PRESENT, r}
       \/ r \in Promisc
    /\ \A j \in DOMAIN sent[s] : <<s, j>> \in got[r] => j <= k
    /\ got' = [got EXCEPT ![r] = @ \cup {<<s, k>>}]
    /\ UNCHANGED <<stack, sent, reports>>

\* Stackline s is told the outcome of its k-th packet.
Report(s, k, status) ==
    /\ stack[s] = "up"
    /\ Reportable(s, k)
    /\ ~Reported(s, k)
    /\ sent[s][k].fits => \A j \in 1..(k - 1) :
                             Reportable(s, j) /\ sent[s][j].fits => Reported(s, j)
    /\ (status = "FATAL") <=> ~sent[s][k].fits
    /\ reports' = [reports EXCEPT ![s] =
                      Append(@, [seq |-> k, status |-> status])]
    /\ UNCHANGED <<stack, sent, got>>

SNext ==
    \E s \in Stacks :
       \/ Start(s)
       \/ Die(s)
       \/ Submit(s)
       \/ \E r \in Stacks, k \in DOMAIN sent[s] : Deliver(r, s, k)
       \/ \E k \in DOMAIN sent[s], status \in {"ACK_OK", "NO_ACK", "ERR", "FATAL"} :
             Report(s, k, status)

ServiceSpec == SInit /\ [][SNext]_serviceVars

=============================================================================
