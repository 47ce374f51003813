--------------------------- MODULE LifecycleProofs --------------------------
(***************************************************************************)
(* Two invocations of Whitefield never have processes side by side, for    *)
(* every number of invocations and nodes and every queue length.           *)
(***************************************************************************)
EXTENDS Lifecycle, TLAPS

\* What the deaths of Airline and the forker write stays well typed.
LEMMA DeathsTyped ==
    ASSUME TypeOK, NEW g \in Gens
    PROVE  /\ AirlineGone(g) => /\ airline' \in [Gens -> {"none", "started", "bound", "run", "dead"}]
                                /\ sig' \in [Gens -> SUBSET Procs]
                                /\ stray' \subseteq Gens \X Procs
           /\ \A killed \in SUBSET Nodes :
                ForkerGone(g, killed) =>
                    /\ forker' \in [Gens -> {"none", "forked", "armed", "run", "dead"}]
                    /\ sig' \in [Gens -> SUBSET Procs]
                    /\ stray' \subseteq Gens \X Procs
<1> USE DEF TypeOK, Procs
<1>1. ASSUME AirlineGone(g)
      PROVE  /\ airline' \in [Gens -> {"none", "started", "bound", "run", "dead"}]
             /\ sig' \in [Gens -> SUBSET Procs]
             /\ stray' \subseteq Gens \X Procs
  BY <1>1 DEF AirlineGone
<1>2. ASSUME NEW killed \in SUBSET Nodes, ForkerGone(g, killed)
      PROVE  /\ forker' \in [Gens -> {"none", "forked", "armed", "run", "dead"}]
             /\ sig' \in [Gens -> SUBSET Procs]
             /\ stray' \subseteq Gens \X Procs
  <2>1. forker' \in [Gens -> {"none", "forked", "armed", "run", "dead"}]
    BY <1>2 DEF ForkerGone
  <2>2. sig' \in [Gens -> SUBSET Procs]
    BY <1>2 DEF ForkerGone
  <2>3. stray' \subseteq Gens \X Procs
    BY <1>2 DEF ForkerGone
  <2> QED BY <2>1, <2>2, <2>3
<1> QED BY <1>1, <1>2

\* A step of a stackline writes its own entry of the table only.
LEMMA StackTyped ==
    ASSUME TypeOK, NEW g \in Gens, NEW n \in Nodes,
           NEW v \in {"none", "forked", "armed", "up", "dead"}
    PROVE  [stack EXCEPT ![g][n] = v]
               \in [Gens -> [Nodes -> {"none", "forked", "armed", "up", "dead"}]]
BY DEF TypeOK

\* The state always has the shape TypeOK says: no invocation starts more nodes
\* than the configuration has, and only requests for those reach the forker.
THEOREM TypeCorrect == Spec => []TypeOK
<1>1. Init => TypeOK
  <2> SUFFICES ASSUME Init PROVE TypeOK
    OBVIOUS
  <2>1. 0 \in 0..NumNodes
    BY LifecycleAssumption
  <2>2. forkerq \in [Gens -> Seq(Nodes)]
    <3>1. <<>> \in Seq(Nodes)
      OBVIOUS
    <3> QED BY <3>1 DEF Init
  <2> QED BY <2>1, <2>2 DEF Init, TypeOK
<1>2. TypeOK /\ [Next]_vars => TypeOK'
  <2> SUFFICES ASSUME TypeOK, [Next]_vars PROVE TypeOK'
    OBVIOUS
  <2>1. ASSUME NEW g \in Gens, Airline(g) PROVE TypeOK'
    <3>1. CASE Invoke(g)
      BY <3>1 DEF Invoke, TypeOK
    <3>2. CASE AirlineBind(g)
      BY <3>2 DEF AirlineBind, TypeOK
    <3>3. CASE exec_forker(g)
      BY <3>3 DEF exec_forker, TypeOK
    <3>4. CASE spawnStackline(g)
      <4>1. next[g] \in Nodes
        BY <3>4 DEF spawnStackline
      <4>2. next[g] + 1 \in 0..NumNodes
        BY <4>1, LifecycleAssumption DEF Nodes
      <4>3. next' \in [Gens -> 0..NumNodes]
        BY <3>4, <4>2 DEF spawnStackline, TypeOK
      <4>4. forkerq' \in [Gens -> Seq(Nodes)]
        <5>1. ASSUME NEW h \in Gens,
                     forkerq' = [forkerq EXCEPT ![h] = Append(@, next[g])]
              PROVE  forkerq' \in [Gens -> Seq(Nodes)]
          <6>1. Append(forkerq[h], next[g]) \in Seq(Nodes)
            BY <4>1 DEF TypeOK
          <6> QED BY <5>1, <6>1 DEF TypeOK
        <5>2. CASE UNCHANGED forkerq
          BY <5>2 DEF TypeOK
        <5> QED BY <3>4, <5>1, <5>2 DEF spawnStackline
      <4>5. lost' \subseteq Gens \X Nodes
        BY <3>4, <4>1 DEF spawnStackline, TypeOK
      <4> QED BY <3>4, <4>3, <4>4, <4>5 DEF spawnStackline, TypeOK
    <3>5. CASE spawnNothing(g)
      BY <3>5, DeathsTyped DEF spawnNothing, TypeOK
    <3>6. CASE AirlineDie(g)
      BY <3>6, DeathsTyped DEF AirlineDie, TypeOK
    <3>7. CASE AirlineSigchld(g)
      BY <3>7, DeathsTyped DEF AirlineSigchld, TypeOK
    <3> QED BY <2>1, <3>1, <3>2, <3>3, <3>4, <3>5, <3>6, <3>7 DEF Airline
  <2>2. ASSUME NEW g \in Gens, Forker(g) PROVE TypeOK'
    <3>1. CASE ForkerArm(g)
      BY <3>1 DEF ForkerArm, TypeOK
    <3>2. CASE ForkerMain(g)
      BY <3>2 DEF ForkerMain, TypeOK
    <3>3. CASE wait_on_q(g)
      <4>1. Head(forkerq[g]) \in Nodes /\ Tail(forkerq[g]) \in Seq(Nodes)
        BY <3>3 DEF wait_on_q, TypeOK
      <4>2. forkerq' \in [Gens -> Seq(Nodes)]
        BY <3>3, <4>1 DEF wait_on_q, TypeOK
      <4>3. CASE /\ ForkerGone(g, {m \in Nodes : StackAlive(g, m)})
                 /\ UNCHANGED stack
        <5> DEFINE killed == {m \in Nodes : StackAlive(g, m)}
        <5>1. killed \in SUBSET Nodes /\ ForkerGone(g, killed)
          BY <4>3
        <5> HIDE DEF killed
        <5> QED BY <3>3, <4>2, <4>3, <5>1, DeathsTyped DEF wait_on_q, TypeOK
      <4>4. CASE /\ stack' = [stack EXCEPT ![g][Head(forkerq[g])] = "forked"]
                 /\ UNCHANGED <<forker, sig, stray>>
        BY <3>3, <4>1, <4>2, <4>4, StackTyped DEF wait_on_q, TypeOK
      <4> QED BY <3>3, <4>3, <4>4 DEF wait_on_q
    <3>4. CASE ForkerDie(g)
      BY <3>4, {} \in SUBSET Nodes, DeathsTyped DEF ForkerDie, TypeOK
    <3>5. CASE ForkerSigint(g)
      BY <3>5, {} \in SUBSET Nodes, DeathsTyped DEF ForkerSigint, TypeOK
    <3> QED BY <2>2, <3>1, <3>2, <3>3, <3>4, <3>5 DEF Forker
  <2>3. ASSUME NEW g \in Gens, NEW n \in Nodes, Stack(g, n) PROVE TypeOK'
    <3>1. CASE StackArm(g, n)
      BY <3>1, StackTyped DEF StackArm, TypeOK
    <3>2. CASE StackExec(g, n)
      BY <3>2, StackTyped DEF StackExec, TypeOK
    <3>3. CASE StackDie(g, n) \/ StackKilled(g, n)
      <4>1. sig' \in [Gens -> SUBSET Procs]
        <5>1. sig' = [sig EXCEPT ![g] = @ \ {n}]
          BY <3>3 DEF StackDie, StackKilled, StackGone
        <5>2. sig \in [Gens -> SUBSET Procs]
          BY DEF TypeOK
        <5> QED BY <5>1, <5>2
      <4>2. stack' \in [Gens -> [Nodes -> {"none", "forked", "armed", "up", "dead"}]]
        <5>1. stack' = [stack EXCEPT ![g][n] = "dead"]
          BY <3>3 DEF StackDie, StackKilled, StackGone
        <5> QED BY <5>1, StackTyped
      <4>3. UNCHANGED <<airline, forker, forkerq, next, lost, stray>>
        BY <3>3 DEF StackDie, StackKilled
      <4> QED BY <4>1, <4>2, <4>3 DEF TypeOK
    <3> QED BY <2>3, <3>1, <3>2, <3>3 DEF Stack
  <2>4. CASE UNCHANGED vars
    BY <2>4 DEF vars, TypeOK
  <2> QED BY <2>1, <2>2, <2>3, <2>4 DEF Next
<1> QED BY <1>1, <1>2, PTL DEF Spec

\* Only a bind makes an invocation a holder of the AIRLINE name: a process is
\* forked by one that holds it already (exec_forker, fork_n_exec).
LEMMA HoldersBind ==
    ASSUME TypeOK, [Next]_vars, NEW h \in Gens, HoldsAirline(h)', ~HoldsAirline(h)
    PROVE  \A k \in Gens : ~HoldsAirline(k) /\ (HoldsAirline(k)' => k = h)
<1> USE DEF TypeOK
<1>1. ASSUME NEW g \in Gens, AirlineBind(g)
      PROVE  \A k \in Gens : ~HoldsAirline(k) /\ (HoldsAirline(k)' => k = h)
  <2>1. \A k \in Gens : k # g =>
            airline'[k] = airline[k] /\ forker'[k] = forker[k] /\ stack'[k] = stack[k]
    BY <1>1 DEF AirlineBind
  <2>2. \A k \in Gens : HoldsAirline(k)' /\ ~HoldsAirline(k) => k = g
    BY <2>1 DEF HoldsAirline, ForkerAlive, StackAlive
  <2>3. CASE airline' = [airline EXCEPT ![g] = "dead"]
    <3>1. ~(airline'[g] \in {"bound", "run"}) /\ forker' = forker /\ stack' = stack
      BY <1>1, <2>3 DEF AirlineBind
    <3>2. HoldsAirline(g)' => HoldsAirline(g)
      BY <3>1 DEF HoldsAirline, ForkerAlive, StackAlive
    <3> QED BY <2>2, <3>2
  <2>4. CASE \A k \in Gens : ~HoldsAirline(k)
    BY <2>2, <2>4
  <2> QED BY <1>1, <2>3, <2>4 DEF AirlineBind
<1>2. ASSUME NEW g \in Gens, Airline(g), ~AirlineBind(g) PROVE FALSE
  <2>1. CASE Invoke(g)
    BY <2>1 DEF Invoke, HoldsAirline, ForkerAlive, StackAlive
  <2>2. CASE exec_forker(g)
    BY <2>2 DEF exec_forker, HoldsAirline, ForkerAlive, StackAlive
  <2>3. CASE spawnStackline(g)
    BY <2>3 DEF spawnStackline, HoldsAirline, ForkerAlive, StackAlive
  <2>4. CASE spawnNothing(g) \/ AirlineDie(g) \/ AirlineSigchld(g)
    BY <2>4 DEF spawnNothing, AirlineDie, AirlineSigchld, AirlineGone,
                HoldsAirline, ForkerAlive, StackAlive
  <2> QED BY <1>2, <2>1, <2>2, <2>3, <2>4 DEF Airline
<1>3. ASSUME NEW g \in Gens, Forker(g) PROVE FALSE
  <2>1. CASE ForkerArm(g)
    BY <2>1 DEF ForkerArm, HoldsAirline, ForkerAlive, StackAlive
  <2>2. CASE ForkerMain(g)
    BY <2>2 DEF ForkerMain, HoldsAirline, ForkerAlive, StackAlive
  <2>3. CASE wait_on_q(g)
    <3>1. HoldsAirline(g)
      BY <2>3 DEF wait_on_q, HoldsAirline, ForkerAlive
    <3>2. h # g
      BY <3>1
    <3>3. airline'[h] = airline[h] /\ forker'[h] = forker[h] /\ stack'[h] = stack[h]
      BY <2>3, <3>2 DEF wait_on_q, ForkerGone
    <3> QED BY <3>3 DEF HoldsAirline, ForkerAlive, StackAlive
  <2>4. CASE ForkerDie(g) \/ ForkerSigint(g)
    BY <2>4 DEF ForkerDie, ForkerSigint, ForkerGone, HoldsAirline, ForkerAlive,
                StackAlive
  <2> QED BY <1>3, <2>1, <2>2, <2>3, <2>4 DEF Forker
<1>4. ASSUME NEW g \in Gens, NEW n \in Nodes, Stack(g, n) PROVE FALSE
  <2>1. CASE h # g
    <3>1. airline'[h] = airline[h] /\ forker'[h] = forker[h] /\ stack'[h] = stack[h]
      BY <1>4, <2>1
      DEF Stack, StackArm, StackExec, StackDie, StackKilled, StackGone
    <3> QED BY <3>1 DEF HoldsAirline, ForkerAlive, StackAlive
  <2>2. CASE h = g
    <3>1. airline' = airline /\ forker' = forker
      BY <1>4 DEF Stack, StackArm, StackExec, StackDie, StackKilled
    <3>2. \A m \in Nodes : StackAlive(g, m)' => StackAlive(g, m)
      <4>1. CASE StackArm(g, n)
        BY <4>1 DEF StackArm, StackAlive
      <4>2. CASE StackExec(g, n)
        BY <4>2 DEF StackExec, StackAlive
      <4>3. CASE StackDie(g, n) \/ StackKilled(g, n)
        BY <4>3 DEF StackDie, StackKilled, StackGone, StackAlive
      <4> QED BY <1>4, <4>1, <4>2, <4>3 DEF Stack
    <3> QED BY <2>2, <3>1, <3>2 DEF HoldsAirline, ForkerAlive
  <2> QED BY <2>1, <2>2
<1>5. CASE UNCHANGED vars
  BY <1>5 DEF vars, HoldsAirline, ForkerAlive, StackAlive
<1> QED BY <1>1, <1>2, <1>3, <1>4, <1>5 DEF Next

\* The processes of two invocations never run side by side, however the earlier
\* one ended (usock_init, exec_forker, fork_n_exec).
THEOREM OneInvocationAtATime == Spec => []OneInvocation
<1>1. Init => OneInvocation
  BY DEF Init, OneInvocation, HoldsAirline, ForkerAlive, StackAlive
<1>2. TypeOK /\ OneInvocation /\ [Next]_vars => OneInvocation'
  <2> SUFFICES ASSUME TypeOK, OneInvocation, [Next]_vars,
                      NEW g \in Gens, NEW h \in Gens,
                      HoldsAirline(g)', HoldsAirline(h)'
               PROVE  g = h
    BY DEF OneInvocation
  <2>1. CASE HoldsAirline(g) /\ HoldsAirline(h)
    BY <2>1 DEF OneInvocation
  <2>2. CASE ~HoldsAirline(g)
    BY <2>2, HoldersBind
  <2>3. CASE ~HoldsAirline(h)
    BY <2>3, HoldersBind
  <2> QED BY <2>1, <2>2, <2>3
<1> QED BY <1>1, <1>2, TypeCorrect, PTL DEF Spec

-----------------------------------------------------------------------------
\* Before Airline runs there is no forker.
NoForkerYet ==
    \A g \in Gens : airline[g] \in {"none", "started", "bound"} => forker[g] = "none"

\* Airline's death, whenever it comes, keeps the two.
LEMMA AirlineGoneFollowed ==
    ASSUME TypeOK, NoForkerYet, ChildrenFollow, NEW g \in Gens, AirlineGone(g),
           UNCHANGED <<forker, stack>>
    PROVE  NoForkerYet' /\ ChildrenFollow'
<1> USE DEF TypeOK
<1>1. AirlinePid \notin Nodes /\ AirlinePid # ForkerPid
  BY LifecycleAssumption DEF Nodes, AirlinePid, ForkerPid
<1>2. NoForkerYet'
  BY DEF AirlineGone, NoForkerYet
<1>3. /\ stray \subseteq stray'
      /\ \A h \in Gens : sig[h] \ {AirlinePid} \subseteq sig'[h]
      /\ \A h \in Gens : h # g => airline'[h] = airline[h]
  BY DEF AirlineGone
<1>4. ForkerAlive(g) => ForkerPid \in sig'[g] \/ <<g, ForkerPid>> \in stray'
  BY DEF AirlineGone, ForkerAlive
<1>5. ChildrenFollow'
  BY <1>1, <1>3, <1>4 DEF ChildrenFollow, ForkerAlive, StackAlive
<1> QED BY <1>2, <1>5

\* So does the forker's.
LEMMA ForkerGoneFollowed ==
    ASSUME TypeOK, NoForkerYet, ChildrenFollow, NEW g \in Gens,
           NEW killed \in SUBSET Nodes, ForkerGone(g, killed), ForkerAlive(g),
           UNCHANGED <<airline, stack>>
    PROVE  NoForkerYet' /\ ChildrenFollow'
<1> USE DEF TypeOK
<1>1. ForkerPid \notin Nodes
  BY LifecycleAssumption DEF Nodes, ForkerPid
<1>2. /\ stray \subseteq stray'
      /\ \A h \in Gens : sig[h] \ {ForkerPid} \subseteq sig'[h]
      /\ \A h \in Gens : h # g => forker'[h] = forker[h] /\ sig'[h] = sig[h]
      /\ forker'[g] = "dead"
  BY DEF ForkerGone
<1>3. NoForkerYet'
  BY <1>2 DEF NoForkerYet, ForkerAlive
<1>4. ASSUME NEW n \in Nodes, StackAlive(g, n)
      PROVE  n \in sig'[g] \/ <<g, n>> \in stray'
  <2>1. CASE stack[g][n] \in {"armed", "up"}
    BY <2>1 DEF ForkerGone
  <2>2. CASE stack[g][n] = "forked"
    BY <2>2 DEF ForkerGone
  <2> QED BY <1>4, <2>1, <2>2 DEF StackAlive
<1>5. ChildrenFollow'
  <2>1. ASSUME NEW h \in Gens, airline'[h] = "dead", ForkerAlive(h)'
        PROVE  ForkerPid \in sig'[h] \/ <<h, ForkerPid>> \in stray'
    BY <1>2, <2>1 DEF ChildrenFollow, ForkerAlive
  <2>2. ASSUME NEW h \in Gens, NEW n \in Nodes, forker'[h] = "dead", StackAlive(h, n)'
        PROVE  n \in sig'[h] \/ <<h, n>> \in stray'
    BY <1>2, <1>4, <2>2 DEF ChildrenFollow, StackAlive
  <2> QED BY <2>1, <2>2 DEF ChildrenFollow
<1> QED BY <1>3, <1>5

\* Steps that only move one stackline, or end it, keep them: a stackline is
\* forked by a living forker only.
LEMMA StackMoveFollowed ==
    ASSUME TypeOK, NoForkerYet, ChildrenFollow, NEW g \in Gens, NEW n \in Nodes,
           NEW v \in {"forked", "armed", "up", "dead"},
           stack' = [stack EXCEPT ![g][n] = v],
           v # "dead" => forker[g] # "dead" \/ StackAlive(g, n),
           \A h \in Gens : \A p \in sig[h] :
               p \in sig'[h] \/ (h = g /\ p = n /\ v = "dead"),
           UNCHANGED <<airline, forker, stray>>
    PROVE  NoForkerYet' /\ ChildrenFollow'
<1> USE DEF TypeOK
<1>1. ForkerPid \notin Nodes
  BY LifecycleAssumption DEF Nodes, ForkerPid
<1>2. NoForkerYet'
  BY DEF NoForkerYet
<1>3. ASSUME NEW h \in Gens, airline'[h] = "dead", ForkerAlive(h)'
      PROVE  ForkerPid \in sig'[h] \/ <<h, ForkerPid>> \in stray'
  <2>1. ForkerPid \in sig[h] \/ <<h, ForkerPid>> \in stray
    BY <1>3 DEF ChildrenFollow, ForkerAlive
  <2> QED BY <1>1, <2>1
<1>4. ASSUME NEW h \in Gens, NEW m \in Nodes, forker'[h] = "dead", StackAlive(h, m)'
      PROVE  m \in sig'[h] \/ <<h, m>> \in stray'
  <2>1. CASE h = g /\ m = n
    <3>1. stack'[g][n] = v
      OBVIOUS
    <3>2. v # "dead"
      BY <1>4, <2>1, <3>1 DEF StackAlive
    <3>3. StackAlive(g, n)
      BY <1>4, <2>1, <3>2
    <3>4. n \in sig[g] \/ <<g, n>> \in stray
      BY <1>4, <2>1, <3>3 DEF ChildrenFollow
    <3> QED BY <2>1, <3>2, <3>4
  <2>2. CASE ~(h = g /\ m = n)
    <3>1. stack'[h][m] = stack[h][m]
      BY <2>2
    <3>2. m \in sig[h] \/ <<h, m>> \in stray
      BY <1>4, <3>1 DEF ChildrenFollow, StackAlive
    <3> QED BY <2>2, <3>2
  <2> QED BY <2>1, <2>2
<1>5. ChildrenFollow'
  BY <1>3, <1>4 DEF ChildrenFollow
<1> QED BY <1>2, <1>5

\* No child outlives its parent unnoticed, except when the parent dies in the
\* window between fork and prctl (exec_forker, fork_n_exec, wait_on_q).
THEOREM ChildrenAlwaysFollow == Spec => []ChildrenFollow
<1> DEFINE IInv == NoForkerYet /\ ChildrenFollow
<1>1. Init => IInv
  BY DEF Init, NoForkerYet, ChildrenFollow, ForkerAlive, StackAlive
<1>2. TypeOK /\ IInv /\ [Next]_vars => IInv'
  <2> SUFFICES ASSUME TypeOK, NoForkerYet, ChildrenFollow, [Next]_vars
               PROVE  NoForkerYet' /\ ChildrenFollow'
    OBVIOUS
  <2> USE DEF TypeOK
  <2>1. ASSUME NEW g \in Gens, Airline(g) PROVE NoForkerYet' /\ ChildrenFollow'
    <3>1. CASE Invoke(g)
      BY <3>1 DEF Invoke, NoForkerYet, ChildrenFollow, ForkerAlive, StackAlive
    <3>2. CASE AirlineBind(g)
      <4>1. /\ forker[g] = "none" /\ UNCHANGED <<forker, stack, sig, stray>>
            /\ \A h \in Gens : h # g => airline'[h] = airline[h]
        BY <3>2 DEF AirlineBind, NoForkerYet
      <4> QED BY <4>1 DEF NoForkerYet, ChildrenFollow, ForkerAlive, StackAlive
    <3>3. CASE exec_forker(g)
      <4>1. /\ airline'[g] = "run" /\ forker'[g] = "forked"
            /\ UNCHANGED <<stack, sig, stray>>
            /\ \A h \in Gens : h # g => airline'[h] = airline[h] /\ forker'[h] = forker[h]
        BY <3>3 DEF exec_forker
      <4> QED BY <4>1 DEF NoForkerYet, ChildrenFollow, ForkerAlive, StackAlive
    <3>4. CASE spawnStackline(g)
      BY <3>4 DEF spawnStackline, NoForkerYet, ChildrenFollow, ForkerAlive, StackAlive
    <3>5. CASE spawnNothing(g) \/ AirlineDie(g) \/ AirlineSigchld(g)
      <4>1. AirlineGone(g) /\ UNCHANGED <<forker, stack>>
        BY <3>5 DEF spawnNothing, AirlineDie, AirlineSigchld
      <4> QED BY <4>1, AirlineGoneFollowed
    <3> QED BY <2>1, <3>1, <3>2, <3>3, <3>4, <3>5 DEF Airline
  <2>2. ASSUME NEW g \in Gens, Forker(g) PROVE NoForkerYet' /\ ChildrenFollow'
    <3>1. CASE ForkerArm(g) \/ ForkerMain(g)
      <4>1. /\ ForkerAlive(g) /\ forker'[g] \in {"armed", "run"}
            /\ UNCHANGED <<airline, stack, sig, stray>>
            /\ \A h \in Gens : h # g => forker'[h] = forker[h]
        BY <3>1 DEF ForkerArm, ForkerMain, ForkerAlive
      <4> QED BY <4>1 DEF NoForkerYet, ChildrenFollow, ForkerAlive, StackAlive
    <3>2. CASE wait_on_q(g)
      <4> DEFINE n == Head(forkerq[g])
      <4>1. n \in Nodes /\ forker[g] = "run" /\ airline' = airline
        BY <3>2 DEF wait_on_q
      <4>2. CASE /\ ForkerGone(g, {m \in Nodes : StackAlive(g, m)})
                 /\ UNCHANGED stack
        <5> DEFINE killed == {m \in Nodes : StackAlive(g, m)}
        <5>1. killed \in SUBSET Nodes /\ ForkerGone(g, killed) /\ ForkerAlive(g)
          BY <4>1, <4>2 DEF ForkerAlive
        <5> HIDE DEF killed
        <5> QED BY <4>1, <4>2, <5>1, ForkerGoneFollowed
      <4>3. CASE /\ stack' = [stack EXCEPT ![g][n] = "forked"]
                 /\ UNCHANGED <<forker, sig, stray>>
        <5>1. forker[g] # "dead"
          BY <4>1
        <5> QED BY <4>1, <4>3, <5>1, StackMoveFollowed
      <4> QED BY <3>2, <4>2, <4>3 DEF wait_on_q
    <3>3. CASE ForkerDie(g)
      <4>1. ForkerGone(g, {}) /\ ForkerAlive(g) /\ UNCHANGED <<airline, stack>>
        BY <3>3 DEF ForkerDie
      <4> QED BY <4>1, {} \in SUBSET Nodes, ForkerGoneFollowed
    <3>4. CASE ForkerSigint(g)
      <4>1. ForkerGone(g, {}) /\ ForkerAlive(g) /\ UNCHANGED <<airline, stack>>
        BY <3>4 DEF ForkerSigint
      <4> QED BY <4>1, {} \in SUBSET Nodes, ForkerGoneFollowed
    <3> QED BY <2>2, <3>1, <3>2, <3>3, <3>4 DEF Forker
  <2>3. ASSUME NEW g \in Gens, NEW n \in Nodes, Stack(g, n)
        PROVE  NoForkerYet' /\ ChildrenFollow'
    <3>1. CASE StackArm(g, n)
      BY <3>1, StackMoveFollowed DEF StackArm, StackAlive
    <3>2. CASE StackExec(g, n)
      BY <3>2, StackMoveFollowed DEF StackExec, StackAlive
    <3>3. CASE StackDie(g, n) \/ StackKilled(g, n)
      <4>1. /\ stack' = [stack EXCEPT ![g][n] = "dead"]
            /\ sig' = [sig EXCEPT ![g] = @ \ {n}]
            /\ UNCHANGED <<airline, forker, stray>>
        BY <3>3 DEF StackDie, StackKilled, StackGone
      <4> QED BY <4>1, StackMoveFollowed
    <3> QED BY <2>3, <3>1, <3>2, <3>3 DEF Stack
  <2>4. CASE UNCHANGED vars
    BY <2>4 DEF vars, NoForkerYet, ChildrenFollow, ForkerAlive, StackAlive
  <2> QED BY <2>1, <2>2, <2>3, <2>4 DEF Next
<1>3. IInv => ChildrenFollow
  OBVIOUS
<1> QED BY <1>1, <1>2, <1>3, TypeCorrect, PTL DEF Spec

=============================================================================
