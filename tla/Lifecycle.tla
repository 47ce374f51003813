------------------------------ MODULE Lifecycle -----------------------------
(***************************************************************************)
(* The processes of Whitefield: each invocation starts an Airline, which   *)
(* forks the forker, which forks one stackline per node on Airline's       *)
(* request.  Parents' deaths reach children as PR_SET_PDEATHSIG signals,   *)
(* which a child asks for after it was forked; children's deaths reach     *)
(* Airline as SIGCHLD.  A Commline name stays in use as long as any        *)
(* process has the socket bound to it open, and fork and exec keep sockets *)
(* open, so every descendant holds the names of its ancestors.             *)
(***************************************************************************)
EXTENDS Naturals, Sequences, FiniteSets

CONSTANTS
    Gens,      \* invocations of whitefield by one user, over time
    NumNodes,  \* numOfNodes of the configuration
    NoExec,    \* per invocation, nodes without a nodeExec
    Missing,   \* nodes whose nodeExec does not exist
    QLen       \* datagrams a socket holds before a sender waits

Nodes == 0..(NumNodes - 1)

ASSUME LifecycleAssumption ==
    /\ NumNodes \in Nat \ {0}
    /\ NoExec \in [Gens -> SUBSET Nodes]
    /\ Missing \subseteq Nodes
    /\ QLen \in Nat \ {0}

VARIABLES
    airline,  \* per invocation: "none", "started", "bound", "run" or "dead"
    forker,   \* "none", "forked", "armed" (has asked for SIGINT), "run", "dead"
    stack,    \* per node: "none", "forked", "armed" (SIGKILL), "up" or "dead"
    forkerq,  \* spawn requests in the FORKER socket
    next,     \* the next node Airline starts
    sig,      \* processes with a fatal signal on its way
    lost,     \* history: spawn requests nobody was bound to receive
    stray     \* history: processes whose parent died before they were armed

vars == <<airline, forker, stack, forkerq, next, sig, lost, stray>>

\* The processes of an invocation: a stackline goes by its node.
AirlinePid == NumNodes
ForkerPid  == NumNodes + 1
Procs      == Nodes \cup {AirlinePid, ForkerPid}

AirlineAlive(g) == airline[g] \in {"started", "bound", "run"}
ForkerAlive(g)  == forker[g] \in {"forked", "armed", "run"}
StackAlive(g, n) == stack[g][n] \in {"forked", "armed", "up"}

\* The AIRLINE socket of g is open in Airline from its bind on and in every
\* process forked since.
HoldsAirline(g) == \/ airline[g] \in {"bound", "run"}
                   \/ ForkerAlive(g)
                   \/ \E n \in Nodes : StackAlive(g, n)

\* The FORKER socket of g, likewise.
HoldsForker(g) == forker[g] = "run" \/ \E n \in Nodes : StackAlive(g, n)

TypeOK ==
    /\ airline \in [Gens -> {"none", "started", "bound", "run", "dead"}]
    /\ forker \in [Gens -> {"none", "forked", "armed", "run", "dead"}]
    /\ stack \in [Gens -> [Nodes -> {"none", "forked", "armed", "up", "dead"}]]
    /\ forkerq \in [Gens -> Seq(Nodes)]
    /\ next \in [Gens -> 0..NumNodes]
    /\ sig \in [Gens -> SUBSET Procs]
    /\ lost \subseteq Gens \X Nodes
    /\ stray \subseteq Gens \X Procs

Init ==
    /\ airline = [g \in Gens |-> "none"]
    /\ forker = [g \in Gens |-> "none"]
    /\ stack = [g \in Gens |-> [n \in Nodes |-> "none"]]
    /\ forkerq = [g \in Gens |-> <<>>]
    /\ next = [g \in Gens |-> 0]
    /\ sig = [g \in Gens |-> {}]
    /\ lost = {}
    /\ stray = {}

-----------------------------------------------------------------------------
(* Deaths, and what they do to the processes around.                        *)

\* Mutant: the forker asks for the signal only once it runs.
AirlineGoneLate(g) ==
    /\ airline' = [airline EXCEPT ![g] = "dead"]
    /\ sig' = [sig EXCEPT ![g] =
                  (@ \ {AirlinePid}) \cup
                      (IF forker[g] = "run" THEN {ForkerPid} ELSE {})]
    /\ stray' = IF forker[g] = "forked" THEN stray \cup {<<g, ForkerPid>>}
                                        ELSE stray

\* Airline ends: the forker is signalled if it has asked for it.
AirlineGone(g) ==
    /\ airline' = [airline EXCEPT ![g] = "dead"]
    /\ sig' = [sig EXCEPT ![g] =
                  (@ \ {AirlinePid}) \cup
                      (IF forker[g] \in {"armed", "run"} THEN {ForkerPid} ELSE {})]
    /\ stray' = IF forker[g] = "forked" THEN stray \cup {<<g, ForkerPid>>}
                                        ELSE stray

\* Mutant: Airline does not handle SIGCHLD.
ForkerGoneUnnoticed(g, killed) ==
    /\ forker' = [forker EXCEPT ![g] = "dead"]
    /\ sig' = [sig EXCEPT ![g] =
                  (@ \ {ForkerPid}) \cup killed
                      \cup {n \in Nodes : stack[g][n] \in {"armed", "up"}}]
    /\ stray' = stray \cup {<<g, n>> : n \in {m \in Nodes \ killed :
                                                stack[g][m] = "forked"}}

\* The forker ends, having signalled the stacklines in killed: Airline gets
\* SIGCHLD, and every stackline that has asked for it SIGKILL.
ForkerGone(g, killed) ==
    /\ forker' = [forker EXCEPT ![g] = "dead"]
    /\ sig' = [sig EXCEPT ![g] =
                  (@ \ {ForkerPid}) \cup killed
                      \cup {n \in Nodes : stack[g][n] \in {"armed", "up"}}
                      \cup (IF AirlineAlive(g) THEN {AirlinePid} ELSE {})]
    /\ stray' = stray \cup {<<g, n>> : n \in {m \in Nodes \ killed :
                                                stack[g][m] = "forked"}}

StackGone(g, n) ==
    /\ stack' = [stack EXCEPT ![g][n] = "dead"]
    /\ sig' = [sig EXCEPT ![g] = @ \ {n}]

-----------------------------------------------------------------------------
(* Airline.                                                                 *)

Invoke(g) ==
    /\ airline[g] = "none"
    /\ airline' = [airline EXCEPT ![g] = "started"]
    /\ UNCHANGED <<forker, stack, forkerq, next, sig, lost, stray>>

\* Mutant: only a running Airline keeps the name (sockets closed on exec).
AirlineBindCloexec(g) ==
    /\ airline[g] = "started"
    /\ \/ /\ \A h \in Gens : airline[h] \notin {"bound", "run"}
          /\ airline' = [airline EXCEPT ![g] = "bound"]
       \/ /\ \E h \in Gens : airline[h] \in {"bound", "run"}
          /\ airline' = [airline EXCEPT ![g] = "dead"]
    /\ UNCHANGED <<forker, stack, forkerq, next, sig, lost, stray>>

\* cl_init(MTYPE(AIRLINE, CL_MGR_ID)): fails while the name is in use.
AirlineBind(g) ==
    /\ airline[g] = "started"
    /\ \/ /\ \A h \in Gens : ~HoldsAirline(h)
          /\ airline' = [airline EXCEPT ![g] = "bound"]
       \/ /\ \E h \in Gens : HoldsAirline(h)
          /\ airline' = [airline EXCEPT ![g] = "dead"]
    /\ UNCHANGED <<forker, stack, forkerq, next, sig, lost, stray>>

\* exec_forker, after the configuration was read.
exec_forker(g) ==
    /\ airline[g] = "bound"
    /\ airline' = [airline EXCEPT ![g] = "run"]
    /\ forker' = [forker EXCEPT ![g] = "forked"]
    /\ UNCHANGED <<stack, forkerq, next, sig, lost, stray>>

\* Mutant: start one node too many.
spawnStacklineOneMore(g) ==
    /\ airline[g] = "run"
    /\ next[g] <= NumNodes
    /\ next[g] \notin NoExec[g]
    /\ \/ /\ \A h \in Gens : ~HoldsForker(h)
          /\ lost' = lost \cup {<<g, next[g]>>}
          /\ UNCHANGED forkerq
       \/ \E h \in Gens :
             /\ HoldsForker(h)
             /\ Len(forkerq[h]) < QLen
             /\ forkerq' = [forkerq EXCEPT ![h] = Append(@, next[g])]
             /\ UNCHANGED lost
    /\ next' = [next EXCEPT ![g] = @ + 1]
    /\ UNCHANGED <<airline, forker, stack, sig, stray>>

\* spawnStackline for the next node.  The request goes to whoever has the
\* FORKER name; a failed send is logged and the simulation goes on.
spawnStackline(g) ==
    /\ airline[g] = "run"
    /\ next[g] \in Nodes
    /\ next[g] \notin NoExec[g]
    /\ \/ /\ \A h \in Gens : ~HoldsForker(h)
          /\ lost' = lost \cup {<<g, next[g]>>}
          /\ UNCHANGED forkerq
       \/ \E h \in Gens :
             /\ HoldsForker(h)
             /\ Len(forkerq[h]) < QLen
             /\ forkerq' = [forkerq EXCEPT ![h] = Append(@, next[g])]
             /\ UNCHANGED lost
    /\ next' = [next EXCEPT ![g] = @ + 1]
    /\ UNCHANGED <<airline, forker, stack, sig, stray>>

\* spawnStackline for a node without a nodeExec: WF_STOP raises SIGINT.
spawnNothing(g) ==
    /\ airline[g] = "run"
    /\ next[g] \in NoExec[g]
    /\ AirlineGone(g)
    /\ UNCHANGED <<forker, stack, forkerq, next, lost>>

\* A configuration error, an exception, or the user's SIGINT or SIGTERM.
AirlineDie(g) ==
    /\ AirlineAlive(g)
    /\ AirlineGone(g)
    /\ UNCHANGED <<forker, stack, forkerq, next, lost>>

\* SIGCHLD: sig_handler exits.
AirlineSigchld(g) ==
    /\ AirlineAlive(g)
    /\ AirlinePid \in sig[g]
    /\ AirlineGone(g)
    /\ UNCHANGED <<forker, stack, forkerq, next, lost>>

-----------------------------------------------------------------------------
(* The forker.                                                              *)

\* prctl(PR_SET_PDEATHSIG, SIGINT) in the forked child.
ForkerArm(g) ==
    /\ forker[g] = "forked"
    /\ forker' = [forker EXCEPT ![g] = "armed"]
    /\ UNCHANGED <<airline, stack, forkerq, next, sig, lost, stray>>

\* execv and main: bind FORKER and MONITOR.
ForkerMain(g) ==
    /\ forker[g] = "armed"
    /\ \A h \in Gens : ~HoldsForker(h)
    /\ forker' = [forker EXCEPT ![g] = "run"]
    /\ UNCHANGED <<airline, stack, forkerq, next, sig, lost, stray>>

\* Mutant: one wake-up empties the queue and serves its first request only.
wait_on_q_once(g) ==
    /\ forker[g] = "run"
    /\ forkerq[g] # <<>>
    /\ LET n == Head(forkerq[g])
       IN  \/ /\ n \in Missing
              /\ ForkerGone(g, {m \in Nodes : StackAlive(g, m)})
              /\ UNCHANGED stack
           \/ /\ n \notin Missing
              /\ stack' = [stack EXCEPT ![g][n] = "forked"]
              /\ UNCHANGED <<forker, sig, stray>>
    /\ forkerq' = [forkerq EXCEPT ![g] = <<>>]
    /\ UNCHANGED <<airline, next, lost>>

\* wait_on_q takes a request: fork_n_exec forks the stackline, or, when there
\* is no such binary, the forker kills all its children and quits.
wait_on_q(g) ==
    /\ forker[g] = "run"
    /\ forkerq[g] # <<>>
    /\ LET n == Head(forkerq[g])
       IN  \/ /\ n \in Missing
              /\ ForkerGone(g, {m \in Nodes : StackAlive(g, m)})
              /\ UNCHANGED stack
           \/ /\ n \notin Missing
              /\ stack' = [stack EXCEPT ![g][n] = "forked"]
              /\ UNCHANGED <<forker, sig, stray>>
    /\ forkerq' = [forkerq EXCEPT ![g] = Tail(@)]
    /\ UNCHANGED <<airline, next, lost>>

\* The forker returns from main because a name or the monitor's UDP port is
\* in use, crashes, or is killed by somebody else.
ForkerDie(g) ==
    /\ ForkerAlive(g)
    /\ ForkerGone(g, {})
    /\ UNCHANGED <<airline, stack, forkerq, next, lost>>

\* SIGINT, for which it has no handler.
ForkerSigint(g) ==
    /\ ForkerAlive(g)
    /\ ForkerPid \in sig[g]
    /\ ForkerGone(g, {})
    /\ UNCHANGED <<airline, stack, forkerq, next, lost>>

-----------------------------------------------------------------------------
(* Stacklines.                                                              *)

\* prctl(PR_SET_PDEATHSIG, SIGKILL) in the forked child.
StackArm(g, n) ==
    /\ stack[g][n] = "forked"
    /\ stack' = [stack EXCEPT ![g][n] = "armed"]
    /\ UNCHANGED <<airline, forker, forkerq, next, sig, lost, stray>>

\* execvpe.
StackExec(g, n) ==
    /\ stack[g][n] = "armed"
    /\ stack' = [stack EXCEPT ![g][n] = "up"]
    /\ UNCHANGED <<airline, forker, forkerq, next, sig, lost, stray>>

\* It exits (a failed execvpe exits too) or crashes.  Nobody takes notice.
StackDie(g, n) ==
    /\ StackAlive(g, n)
    /\ StackGone(g, n)
    /\ UNCHANGED <<airline, forker, forkerq, next, lost, stray>>

StackKilled(g, n) ==
    /\ StackAlive(g, n)
    /\ n \in sig[g]
    /\ StackGone(g, n)
    /\ UNCHANGED <<airline, forker, forkerq, next, lost, stray>>

-----------------------------------------------------------------------------
Airline(g) == \/ Invoke(g)
              \/ AirlineBind(g)
              \/ exec_forker(g)
              \/ spawnStackline(g)
              \/ spawnNothing(g)
              \/ AirlineDie(g)
              \/ AirlineSigchld(g)

Forker(g) == \/ ForkerArm(g)
             \/ ForkerMain(g)
             \/ wait_on_q(g)
             \/ ForkerDie(g)
             \/ ForkerSigint(g)

Stack(g, n) == \/ StackArm(g, n)
               \/ StackExec(g, n)
               \/ StackDie(g, n)
               \/ StackKilled(g, n)

Next == \E g \in Gens : \/ Airline(g)
                        \/ Forker(g)
                        \/ \E n \in Nodes : Stack(g, n)

Spec == Init /\ [][Next]_vars

\* A signal that was sent arrives, and the forker's receive loop runs.
Fairness ==
    \A g \in Gens : /\ WF_vars(AirlineSigchld(g))
                    /\ WF_vars(ForkerSigint(g))
                    /\ WF_vars(wait_on_q(g))
                    /\ \A n \in Nodes : WF_vars(StackKilled(g, n))

FairSpec == Spec /\ Fairness

-----------------------------------------------------------------------------
(* Properties.                                                              *)

AllGone(g) == ~AirlineAlive(g) /\ ~ForkerAlive(g) /\ \A n \in Nodes : ~StackAlive(g, n)

\* The forkers and stacklines of two invocations never run side by side, so no
\* stackline can take another's name or messages, however the earlier
\* invocation ended: the AIRLINE name is free only when the last process that
\* inherited its socket is gone (usock_init, exec_forker, fork_n_exec).
OneInvocation ==
    \A g, h \in Gens : HoldsAirline(g) /\ HoldsAirline(h) => g = h

\* A child whose parent is dead is about to be killed, or its parent died
\* between its fork and its prctl (exec_forker, fork_n_exec, wait_on_q).
ChildrenFollow ==
    \A g \in Gens :
        /\ airline[g] = "dead" /\ ForkerAlive(g)
               => ForkerPid \in sig[g] \/ <<g, ForkerPid>> \in stray
        /\ \A n \in Nodes : forker[g] = "dead" /\ StackAlive(g, n)
               => n \in sig[g] \/ <<g, n>> \in stray

\* When Airline or the forker is gone, everything of that invocation goes,
\* unless a child was caught between fork and prctl (sig_handler, exec_forker,
\* fork_n_exec).
EverythingStops ==
    \A g \in Gens :
        (airline[g] = "dead" \/ forker[g] = "dead")
            ~> (AllGone(g) \/ \E p \in Procs : <<g, p>> \in stray)

\* A request the forker has received is acted upon: the stackline is forked or
\* the forker ends (wait_on_q, fork_n_exec).
RequestsServed ==
    \A g \in Gens : \A n \in Nodes :
        (\E i \in DOMAIN forkerq[g] : forkerq[g][i] = n)
            ~> (stack[g][n] # "none" \/ ~ForkerAlive(g))

\* "All nodes started." is said when they were at least asked for
\* (spawnStackline).
AllNodesStarted == \A g \in Gens : next[g] = NumNodes => \A n \in Nodes : <<g, n>> \notin lost

=============================================================================
