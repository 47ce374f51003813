--------------------------- MODULE WhitefieldProofs -------------------------
(***************************************************************************)
(* What commands and packets make of the queues they share.  OAM runs over *)
(* them as if it had them for itself (Oam), and so nothing locks up before *)
(* more commands have run out of polls than the MONITOR socket holds       *)
(* replies.  The data plane runs over them as if it had them for itself,   *)
(* but for packets that wait because of commands, and so keeps what it     *)
(* promises (LinkService).                                                 *)
(***************************************************************************)
EXTENDS Whitefield, FiniteSetTheorems, SequenceTheorems, TLAPS

C == INSTANCE OamProofs WITH
    alq <- AlCmds, slq <- SlCmds, alOut <- alReply, slOut <- slReply

\* Oam is the same in Whitefield's properties and in its proofs.
LEMMA SameOam ==
    /\ C!Init <=> Commands!Init
    /\ C!vars = Commands!vars
    /\ C!Next <=> Commands!Next
<1> USE DEF C!targetVars, Commands!targetVars, C!MonIdle, Commands!MonIdle,
            C!Req, Commands!Req, C!Cmd, Commands!Cmd, C!SrcId, Commands!SrcId,
            C!Bound, Commands!Bound, C!CanReply, Commands!CanReply,
            C!Respond, Commands!Respond
<1>1. (C!Init <=> Commands!Init) /\ C!vars = Commands!vars
  BY DEF C!Init, Commands!Init, C!vars, Commands!vars
<1>2. \A c : C!ClientSend(c) <=> Commands!ClientSend(c)
  BY DEF C!ClientSend, Commands!ClientSend
<1>3. \A c : C!ClientTimeout(c) <=> Commands!ClientTimeout(c)
  BY DEF C!ClientTimeout, Commands!ClientTimeout
<1>4. C!MonitorRecv <=> Commands!MonitorRecv
  BY DEF C!MonitorRecv, Commands!MonitorRecv
<1>5. C!MonitorSend <=> Commands!MonitorSend
  BY DEF C!MonitorSend, Commands!MonitorSend
<1>6. C!MonitorPollHit <=> Commands!MonitorPollHit
  BY DEF C!MonitorPollHit, Commands!MonitorPollHit
<1>7. C!MonitorPollMiss <=> Commands!MonitorPollMiss
  BY DEF C!MonitorPollMiss, Commands!MonitorPollMiss
<1>8. \A cmd : C!Outcome(cmd) = Commands!Outcome(cmd)
  BY DEF C!Outcome, Commands!Outcome, C!CL_MGR_ID, Commands!CL_MGR_ID
<1>9. C!AirlineCmd <=> Commands!AirlineCmd
  BY <1>8, Zenon DEF C!AirlineCmd, Commands!AirlineCmd
<1>10. C!AirlineReplyUnblock <=> Commands!AirlineReplyUnblock
  BY DEF C!AirlineReplyUnblock, Commands!AirlineReplyUnblock
<1>11. \A n : /\ C!StackCmd(n) <=> Commands!StackCmd(n)
              /\ C!StackReplyUnblock(n) <=> Commands!StackReplyUnblock(n)
  BY DEF C!StackCmd, Commands!StackCmd, C!StackReplyUnblock, Commands!StackReplyUnblock
<1>12. \A n : /\ C!StackStart(n) <=> Commands!StackStart(n)
              /\ C!StackExit(n) <=> Commands!StackExit(n)
  BY DEF C!StackStart, Commands!StackStart, C!StackExit, Commands!StackExit
<1>13. C!Next <=> Commands!Next
  BY <1>2, <1>3, <1>4, <1>5, <1>6, <1>7, <1>9, <1>10, <1>11, <1>12
     DEF C!Next, Commands!Next, C!Monitor, Commands!Monitor, C!Airline, Commands!Airline,
         C!Stack, Commands!Stack
<1> QED BY <1>1, <1>13

-----------------------------------------------------------------------------
(* The commands of a queue, and the rest of it.                             *)

\* The position of a member of a set of positions.
Rank(P, i) == Cardinality({j \in P : j <= i})

LEMMA UpToFinite ==
    ASSUME NEW n \in Nat
    PROVE  IsFiniteSet(1..n) /\ Cardinality(1..n) = n
<1>1. 1 \in Int /\ n \in Int
  OBVIOUS
<1>2. /\ IsFiniteSet(1..n)
      /\ Cardinality(1..n) = IF 1 > n THEN 0 ELSE n - 1 + 1
  BY <1>1, FS_Interval
<1> QED BY <1>2

\* Members and their positions go together, in order.
LEMMA Ranks ==
    ASSUME NEW P \in SUBSET Nat, IsFiniteSet(P)
    PROVE  /\ Cardinality(P) \in Nat
           /\ \A i \in P : Rank(P, i) \in 1..Cardinality(P)
           /\ \A i, j \in P : i < j => Rank(P, i) < Rank(P, j)
           /\ \A k \in 1..Cardinality(P) : Nth(P, k) \in P /\ Rank(P, Nth(P, k)) = k
           /\ \A i \in P : Nth(P, Rank(P, i)) = i
<1> DEFINE N == Cardinality(P)
           upto(i) == {j \in P : j <= i}
<1>1. N \in Nat
  BY FS_CardinalityType
<1>2. ASSUME NEW i \in P
      PROVE  IsFiniteSet(upto(i)) /\ Cardinality(upto(i)) \in 1..N
  <2>1. upto(i) \in SUBSET P /\ i \in upto(i)
    OBVIOUS
  <2> HIDE DEF upto
  <2>2. IsFiniteSet(upto(i)) /\ Cardinality(upto(i)) <= N
    BY <2>1, FS_Subset
  <2>3. Cardinality(upto(i)) \in Nat /\ Cardinality(upto(i)) # 0
    BY <2>1, <2>2, FS_CardinalityType, FS_EmptySet
  <2> QED BY <1>1, <2>2, <2>3
<1>3. ASSUME NEW i \in P, NEW j \in P, i < j
      PROVE  Cardinality(upto(i)) < Cardinality(upto(j))
  <2>1. upto(i) \in SUBSET upto(j) /\ j \in upto(j) /\ j \notin upto(i)
    <3>1. i \in Nat /\ j \in Nat /\ P \subseteq Nat
      OBVIOUS
    <3>2. \A k \in P : k <= i => k <= j
      BY <1>3, <3>1
    <3>3. j <= j /\ ~(j <= i)
      BY <1>3, <3>1
    <3> QED BY <3>2, <3>3
  <2>2. /\ IsFiniteSet(upto(j))
        /\ Cardinality(upto(i)) \in Nat /\ Cardinality(upto(j)) \in Nat
    BY <1>1, <1>2
  <2> HIDE DEF upto
  <2>3. /\ Cardinality(upto(i)) <= Cardinality(upto(j))
        /\ Cardinality(upto(j)) = Cardinality(upto(i)) => upto(j) = upto(i)
    BY <2>1, <2>2, FS_Subset
  <2> QED BY <2>1, <2>2, <2>3
<1> DEFINE f == [i \in P |-> Cardinality(upto(i))]
<1>4. \A i, j \in P : f[i] = f[j] => i = j
  <2> SUFFICES ASSUME NEW i \in P, NEW j \in P, f[i] = f[j], i # j PROVE FALSE
    OBVIOUS
  <2>1. i < j \/ j < i
    OBVIOUS
  <2>2. Cardinality(upto(i)) \in Nat /\ Cardinality(upto(j)) \in Nat
    BY <1>1, <1>2
  <2>3. Cardinality(upto(i)) = Cardinality(upto(j))
    OBVIOUS
  <2>4. i < j => Cardinality(upto(i)) < Cardinality(upto(j))
    BY <1>3
  <2>5. j < i => Cardinality(upto(j)) < Cardinality(upto(i))
    BY <1>3
  <2> HIDE DEF f, upto
  <2> QED BY <2>1, <2>2, <2>3, <2>4, <2>5
<1>5. f \in [P -> 1..N]
  BY <1>2
<1>6. \A k \in 1..N : \E i \in P : f[i] = k
  <2>1. IsFiniteSet(1..N) /\ Cardinality(1..N) = N
    BY <1>1, UpToFinite
  <2>2. f \in Injection(P, 1..N)
    BY <1>4, <1>5 DEF Injection, IsInjective
  <2> HIDE DEF f
  <2>3. f \in Surjection(P, 1..N)
    BY <2>1, <2>2, FS_Injection
  <2> QED BY <2>3 DEF Surjection
<1>7. \A i \in P : f[i] = Rank(P, i)
  BY DEF Rank
<1>8. ASSUME NEW k \in 1..N PROVE Nth(P, k) \in P /\ Rank(P, Nth(P, k)) = k
  <2>1. \E i \in P : Rank(P, i) = k
    BY <1>6, <1>7
  <2>2. Nth(P, k) = CHOOSE i \in P : Rank(P, i) = k
    BY DEF Nth, Rank
  <2> QED BY <2>1, <2>2
<1>9. ASSUME NEW i \in P PROVE Nth(P, Rank(P, i)) = i
  <2>1. Rank(P, i) \in 1..N
    BY <1>5, <1>7
  <2>2. Nth(P, Rank(P, i)) \in P /\ Rank(P, Nth(P, Rank(P, i))) = Rank(P, i)
    BY <1>8, <2>1
  <2> HIDE DEF f
  <2> QED BY <1>4, <1>7, <2>2
<1> HIDE DEF f, upto, N
<1>10. \A i \in P : Rank(P, i) \in 1..N
  BY <1>5, <1>7
<1>11. \A i, j \in P : i < j => Rank(P, i) < Rank(P, j)
  BY <1>3 DEF Rank, upto
<1> QED BY <1>1, <1>8, <1>9, <1>10, <1>11 DEF N

\* Of a queue, what is a command, or what is not; CmdsIn takes the former.
IsA(w, m)      == IF w = "cmd" THEN IsCmd(m) ELSE ~IsCmd(m)
PlacesOf(w, q) == {i \in DOMAIN q : IsA(w, q[i])}
Only(w, q)     == [k \in 1..Cardinality(PlacesOf(w, q)) |-> q[Nth(PlacesOf(w, q), k)]]

DataIn(q) == Only("data", q)

LEMMA OnlyTyped ==
    ASSUME NEW w, NEW S, NEW q \in Seq(S)
    PROVE  /\ PlacesOf(w, q) \in SUBSET Nat /\ IsFiniteSet(PlacesOf(w, q))
           /\ PlacesOf(w, q) \subseteq 1..Len(q)
           /\ Cardinality(PlacesOf(w, q)) \in Nat
           /\ Only(w, q) \in Seq({m \in S : IsA(w, m)})
           /\ Len(Only(w, q)) = Cardinality(PlacesOf(w, q))
           /\ Len(Only(w, q)) <= Len(q)
<1> DEFINE P == PlacesOf(w, q)
           N == Cardinality(P)
<1>1. P \subseteq 1..Len(q) /\ Len(q) \in Nat /\ \A i \in P : q[i] \in S /\ IsA(w, q[i])
  BY DEF PlacesOf
<1>2. IsFiniteSet(1..Len(q)) /\ Cardinality(1..Len(q)) = Len(q)
  BY <1>1, UpToFinite
<1> HIDE DEF P
<1>3. IsFiniteSet(P) /\ N <= Len(q)
  BY <1>1, <1>2, FS_Subset
<1>4. N \in Nat /\ P \in SUBSET Nat
  BY <1>1, <1>3, FS_CardinalityType
<1>5. \A k \in 1..N : Nth(P, k) \in P
  BY <1>3, <1>4, Ranks
<1>6. Only(w, q) = [k \in 1..N |-> q[Nth(P, k)]]
  BY DEF Only, P
<1>7. Only(w, q) \in Seq({m \in S : IsA(w, m)}) /\ Len(Only(w, q)) = N
  <2> DEFINE T == {m \in S : IsA(w, m)}
  <2>1. \A k \in 1..N : q[Nth(P, k)] \in T
    BY <1>1, <1>5
  <2> HIDE DEF T, N
  <2>2. Only(w, q) \in [1..N -> T]
    BY <1>6, <2>1
  <2>3. Only(w, q) \in Seq(T) /\ Len(Only(w, q)) = N
    BY <1>4, <2>2
  <2> QED BY <2>3 DEF T
<1> QED BY <1>1, <1>3, <1>4, <1>7 DEF P

LEMMA OnlyNone ==
    ASSUME NEW w
    PROVE  Only(w, <<>>) = <<>>
<1>1. <<>> \in Seq({})
  OBVIOUS
<1>2. Only(w, <<>>) \in Seq({m \in {} : IsA(w, m)})
  BY <1>1, OnlyTyped
<1>3. \A m : m \notin {x \in {} : IsA(w, x)}
  OBVIOUS
<1> QED BY <1>2, <1>3

\* The last message of a queue is the last of its kind.
LEMMA OnlyAppend ==
    ASSUME NEW w, NEW S, NEW q \in Seq(S), NEW m \in S
    PROVE  /\ IsA(w, m) => Only(w, Append(q, m)) = Append(Only(w, q), m)
           /\ ~IsA(w, m) => Only(w, Append(q, m)) = Only(w, q)
<1> DEFINE P  == PlacesOf(w, q)
           N  == Cardinality(P)
           n  == Len(q)
           q2 == Append(q, m)
           P2 == PlacesOf(w, q2)
<1>1. /\ P \in SUBSET Nat /\ IsFiniteSet(P) /\ P \subseteq 1..n /\ N \in Nat
      /\ n \in Nat /\ q2 \in Seq(S)
  <2>1. P \in SUBSET Nat /\ IsFiniteSet(P) /\ P \subseteq 1..n /\ N \in Nat
    BY OnlyTyped
  <2>2. n \in Nat /\ q2 \in Seq(S)
    OBVIOUS
  <2> QED BY <2>1, <2>2
<1>2. /\ Only(w, q) = [k \in 1..N |-> q[Nth(P, k)]]
      /\ Only(w, q2) = [k \in 1..Cardinality(P2) |-> q2[Nth(P2, k)]]
  BY DEF Only
<1>3. \A i \in P : q2[i] = q[i]
  BY <1>1
<1>4. /\ q2[n + 1] = m /\ n + 1 \notin P
      /\ P2 = IF IsA(w, m) THEN P \cup {n + 1} ELSE P
  <2>1. DOMAIN q2 = 1..n \cup {n + 1} /\ q2[n + 1] = m
    BY <1>1
  <2>2. \A i \in 1..n : q2[i] = q[i]
    BY <1>1
  <2>3. n + 1 \notin 1..n /\ DOMAIN q = 1..n
    BY <1>1
  <2>4. \A i : i \in P2 <=> (i \in P \/ (i = n + 1 /\ IsA(w, m)))
    BY <2>1, <2>2, <2>3, Zenon DEF PlacesOf
  <2> HIDE DEF P2
  <2>5. P2 = IF IsA(w, m) THEN P \cup {n + 1} ELSE P
    BY <2>4
  <2>6. n + 1 \notin P
    BY <1>1
  <2> QED BY <2>1, <2>5, <2>6
<1>5. \A k \in 1..N : Nth(P, k) \in P /\ Rank(P, Nth(P, k)) = k
  BY <1>1, Ranks
<1> HIDE DEF P, P2, q2
<1>6. ASSUME ~IsA(w, m) PROVE Only(w, q2) = Only(w, q)
  BY <1>2, <1>3, <1>4, <1>5, <1>6
<1>7. ASSUME IsA(w, m) PROVE Only(w, q2) = Append(Only(w, q), m)
  <2>1. P2 = P \cup {n + 1}
    BY <1>4, <1>7
  <2>2. /\ P2 \in SUBSET Nat /\ IsFiniteSet(P2) /\ Cardinality(P2) = N + 1
    <3>1. /\ IsFiniteSet(P \cup {n + 1})
          /\ Cardinality(P \cup {n + 1}) = IF n + 1 \in P THEN N ELSE N + 1
      BY <1>1, FS_AddElement
    <3>2. n + 1 \in Nat
      BY <1>1
    <3>3. P2 \in SUBSET Nat
      BY <1>1, <2>1, <3>2
    <3> HIDE DEF N, n
    <3>4. IsFiniteSet(P2) /\ Cardinality(P2) = N + 1
      BY <1>4, <2>1, <3>1
    <3> QED BY <3>3, <3>4
  <2>3. ASSUME NEW k \in 1..N PROVE Nth(P2, k) = Nth(P, k)
    <3> DEFINE i == Nth(P, k)
    <3>1. i \in P /\ Rank(P, i) = k
      BY <1>5
    <3>2. {j \in P2 : j <= i} = {j \in P : j <= i}
      <4>1. i \in 1..n /\ n \in Nat
        BY <1>1, <3>1
      <4> HIDE DEF i, n
      <4>2. ~(n + 1 <= i)
        BY <4>1
      <4> QED BY <2>1, <4>2
    <3>3. Rank(P2, i) = k /\ i \in P2
      BY <2>1, <3>1, <3>2 DEF Rank
    <3>4. Nth(P2, Rank(P2, i)) = i
      BY <2>2, <3>3, Ranks
    <3> QED BY <3>3, <3>4
  <2>4. Nth(P2, N + 1) = n + 1
    <3>1. {j \in P2 : j <= n + 1} = P2
      <4>1. \A j \in P2 : j <= n + 1
        BY <1>1, <2>1
      <4> QED BY <4>1
    <3>2. Rank(P2, n + 1) = N + 1
      BY <2>2, <3>1 DEF Rank
    <3>3. n + 1 \in P2
      BY <2>1
    <3> QED BY <2>2, <3>2, <3>3, Ranks
  <2>5. ASSUME NEW k \in 1..(N + 1)
        PROVE  Only(w, q2)[k] = Append(Only(w, q), m)[k]
    <3>1. Only(w, q2)[k] = q2[Nth(P2, k)]
      BY <1>2, <2>2
    <3>2. Only(w, q) \in Seq(S) /\ Len(Only(w, q)) = N
      <4>1. Only(w, q) \in Seq({x \in S : IsA(w, x)}) /\ Len(Only(w, q)) = N
        BY OnlyTyped DEF P
      <4> QED BY <4>1
    <3>3. CASE k = N + 1
      <4>1. Append(Only(w, q), m)[N + 1] = m
        BY <3>2
      <4> QED BY <1>4, <2>4, <3>1, <3>3, <4>1
    <3>4. CASE k \in 1..N
      <4>1. Append(Only(w, q), m)[k] = Only(w, q)[k]
        BY <3>2, <3>4
      <4>2. Only(w, q)[k] = q[Nth(P, k)]
        BY <1>2, <3>4
      <4>3. q2[Nth(P, k)] = q[Nth(P, k)] /\ Nth(P2, k) = Nth(P, k)
        BY <1>3, <1>5, <2>3, <3>4
      <4> QED BY <3>1, <4>1, <4>2, <4>3
    <3>5. k = N + 1 \/ k \in 1..N
      <4> HIDE DEF N
      <4> QED BY <1>1
    <3> QED BY <3>3, <3>4, <3>5
  <2>6. /\ Only(w, q2) \in Seq(S) /\ Len(Only(w, q2)) = N + 1
        /\ Append(Only(w, q), m) \in Seq(S) /\ Len(Append(Only(w, q), m)) = N + 1
    <3>1. /\ Only(w, q) \in Seq({x \in S : IsA(w, x)}) /\ Len(Only(w, q)) = N
          /\ Only(w, q2) \in Seq({x \in S : IsA(w, x)}) /\ Len(Only(w, q2)) = N + 1
      BY <1>1, <2>2, OnlyTyped DEF P, P2
    <3>2. Only(w, q) \in Seq(S) /\ Only(w, q2) \in Seq(S)
      BY <3>1
    <3> QED BY <3>1, <3>2
  <2> QED BY <2>5, <2>6, SeqEqual
<1> QED BY <1>6, <1>7 DEF q2

\* What is at the front of a queue is the first of its kind.
LEMMA OnlyTail ==
    ASSUME NEW w, NEW S, NEW q \in Seq(S), q # <<>>
    PROVE  /\ ~IsA(w, Head(q)) => Only(w, Tail(q)) = Only(w, q)
           /\ IsA(w, Head(q)) => /\ Only(w, q) # <<>>
                                /\ Head(Only(w, q)) = Head(q)
                                /\ Only(w, Tail(q)) = Tail(Only(w, q))
<1> DEFINE P  == PlacesOf(w, q)
           N  == Cardinality(P)
           q2 == Tail(q)
           P2 == PlacesOf(w, q2)
           N2 == Cardinality(P2)
           R  == P \ {1}
           b  == IF IsA(w, Head(q)) THEN 1 ELSE 0
<1>1. /\ P \in SUBSET Nat /\ IsFiniteSet(P) /\ P \subseteq 1..Len(q) /\ N \in Nat
      /\ Len(q) \in Nat /\ q2 \in Seq(S)
  <2>1. P \in SUBSET Nat /\ IsFiniteSet(P) /\ P \subseteq 1..Len(q) /\ N \in Nat
    BY OnlyTyped
  <2>2. Len(q) \in Nat /\ q2 \in Seq(S)
    OBVIOUS
  <2> QED BY <2>1, <2>2
<1>2. P2 \in SUBSET Nat /\ IsFiniteSet(P2) /\ N2 \in Nat
  BY <1>1, OnlyTyped
<1>3. 1 \in P <=> IsA(w, Head(q))
  BY DEF PlacesOf
<1>4. /\ \A i \in P2 : i + 1 \in R /\ q2[i] = q[i + 1]
      /\ \A i \in R : i - 1 \in P2 /\ i \in Nat /\ q2[i - 1] = q[i]
  <2>1. \A i \in DOMAIN q2 : i \in Nat /\ i + 1 \in DOMAIN q /\ i + 1 # 1 /\ q2[i] = q[i + 1]
    OBVIOUS
  <2>2. \A i \in DOMAIN q \ {1} : i \in Nat /\ i - 1 \in DOMAIN q2 /\ q2[i - 1] = q[i]
    OBVIOUS
  <2> QED BY <2>1, <2>2 DEF PlacesOf
<1>5. R \in SUBSET Nat /\ IsFiniteSet(R) /\ Cardinality(R) = N - b
  <2>1. /\ IsFiniteSet(R)
        /\ Cardinality(R) = IF 1 \in P THEN N - 1 ELSE N
    BY <1>1, FS_RemoveElement
  <2>2. R \in SUBSET Nat
    BY <1>1
  <2> HIDE DEF P, N, R
  <2> QED BY <1>1, <1>3, <2>1, <2>2
<1> HIDE DEF P, P2, q2
<1>6. 1 \in P => Rank(P, 1) = 1
  <2>1. \A j \in P : j \in 1..Len(q)
    BY <1>1
  <2>2. \A j \in P : j <= 1 <=> j = 1
    BY <1>1, <2>1
  <2>3. 1 \in P => {j \in P : j <= 1} = {1}
    BY <2>2
  <2> QED BY <2>3, FS_Singleton DEF Rank
\* The positions from the second on, and the same one lower.
<1>7. ASSUME NEW A \in SUBSET P2, NEW B \in SUBSET R,
             \A i \in A : i + 1 \in B, \A i \in B : i - 1 \in A
      PROVE  Cardinality(A) = Cardinality(B)
  <2> DEFINE f == [i \in A |-> i + 1]
  <2>1. \A i \in A : i \in Nat
    BY <1>2
  <2>2. \A i \in B : i \in Nat
    BY <1>4
  <2>3. f \in [A -> B]
    BY <1>7
  <2>4. \A i, j \in A : f[i] = f[j] => i = j
    BY <2>1
  <2>5. \A k \in B : \E i \in A : f[i] = k
    <3> SUFFICES ASSUME NEW k \in B PROVE \E i \in A : f[i] = k
      OBVIOUS
    <3>1. k - 1 \in A /\ k \in Nat
      BY <1>7, <2>2
    <3>2. f[k - 1] = k
      BY <3>1
    <3> QED BY <3>1, <3>2
  <2> HIDE DEF f
  <2>6. f \in Bijection(A, B)
    BY <2>3, <2>4, <2>5 DEF Bijection, Injection, Surjection, IsInjective
  <2>7. IsFiniteSet(A)
    BY <1>2, FS_Subset
  <2> QED BY <2>6, <2>7, FS_Bijection DEF ExistsBijection
<1>8. N2 = N - b
  <2>1. Cardinality(P2) = Cardinality(R)
    BY <1>4, <1>7
  <2> QED BY <1>5, <2>1
<1>9. ASSUME NEW k \in 1..N2
      PROVE  /\ k + b \in 1..N
             /\ q2[Nth(P2, k)] = q[Nth(P, k + b)]
  <2> DEFINE i == Nth(P, k + b)
  <2>1. k + b \in 1..N
    BY <1>1, <1>2, <1>8
  <2>2. i \in P /\ Rank(P, i) = k + b
    <3> HIDE DEF b, N
    <3> QED BY <1>1, <2>1, Ranks DEF N
  <2>3. i # 1
    <3> SUFFICES ASSUME i = 1 PROVE FALSE
      OBVIOUS
    <3>1. 1 \in P /\ Rank(P, 1) = k + b /\ b = 1
      BY <1>3, <2>2
    <3> QED BY <1>2, <1>6, <3>1
  <2> HIDE DEF i
  <2>4. i \in R /\ i \in Nat /\ i - 1 \in P2 /\ q2[i - 1] = q[i]
    BY <1>4, <2>2, <2>3
  <2>5. Rank(P2, i - 1) = k
    <3> DEFINE A == {j \in P2 : j <= i - 1}
               B == {j \in R : j <= i}
               U == {j \in P : j <= i}
    <3>1. Cardinality(A) = Cardinality(B)
      <4>1. \A j \in P2 : j \in Nat
        BY <1>2
      <4>2. \A j \in A : j + 1 \in B
        BY <1>4, <2>4, <4>1
      <4>3. \A j \in B : j - 1 \in A
        BY <1>4, <2>4
      <4>4. A \in SUBSET P2 /\ B \in SUBSET R
        OBVIOUS
      <4> HIDE DEF A, B
      <4> QED BY <1>7, <4>2, <4>3, <4>4
    <3>2. IsFiniteSet(U) /\ Cardinality(U) = k + b
      <4>1. U \in SUBSET P
        OBVIOUS
      <4>2. Cardinality(U) = k + b
        BY <2>2 DEF Rank
      <4> HIDE DEF U
      <4>3. IsFiniteSet(U)
        BY <1>1, <4>1, FS_Subset
      <4> QED BY <4>2, <4>3
    <3>3. B = U \ {1} /\ (1 \in U <=> IsA(w, Head(q)))
      <4>1. 1 <= i
        BY <1>1, <2>2
      <4> QED BY <1>3, <4>1
    <3>4. Cardinality(B) = IF 1 \in U THEN Cardinality(U) - 1 ELSE Cardinality(U)
      <4> HIDE DEF U, B
      <4> QED BY <3>2, <3>3, FS_RemoveElement
    <3> HIDE DEF A, B, U
    <3>5. Cardinality(A) = k
      BY <1>2, <3>1, <3>2, <3>3, <3>4
    <3> QED BY <3>5 DEF Rank, A
  <2>6. Nth(P2, k) = i - 1
    BY <1>2, <2>4, <2>5, Ranks
  <2> QED BY <2>1, <2>4, <2>6 DEF i
<1>10. /\ Only(w, q) = [k \in 1..N |-> q[Nth(P, k)]]
      /\ Only(w, q2) = [k \in 1..N2 |-> q2[Nth(P2, k)]]
  BY DEF Only, P, P2
<1>11. /\ Only(w, q) \in Seq(S) /\ Len(Only(w, q)) = N
       /\ Only(w, q2) \in Seq(S) /\ Len(Only(w, q2)) = N2
  <2>1. /\ Only(w, q) \in Seq({x \in S : IsA(w, x)}) /\ Len(Only(w, q)) = N
        /\ Only(w, q2) \in Seq({x \in S : IsA(w, x)}) /\ Len(Only(w, q2)) = N2
    BY <1>1, OnlyTyped DEF P, P2
  <2> QED BY <2>1
<1> HIDE DEF N, N2
<1>12. ASSUME ~IsA(w, Head(q)) PROVE Only(w, q2) = Only(w, q)
  <2>1. N2 = N /\ b = 0
    BY <1>1, <1>8, <1>12
  <2>2. \A k \in 1..N : Only(w, q2)[k] = Only(w, q)[k]
    BY <1>9, <1>10, <2>1
  <2> QED BY <1>11, <2>1, <2>2, SeqEqual
<1>13. ASSUME IsA(w, Head(q))
       PROVE  /\ Only(w, q) # <<>> /\ Head(Only(w, q)) = Head(q)
              /\ Only(w, q2) = Tail(Only(w, q))
  <2>1. N2 = N - 1 /\ b = 1 /\ 1 \in P
    BY <1>3, <1>8, <1>13
  <2>2. N >= 1
    BY <1>1, <1>2, <2>1 DEF N2
  <2>3. Nth(P, 1) = 1
    BY <1>1, <1>6, <2>1, Ranks
  <2>4. Only(w, q) # <<>> /\ Head(Only(w, q)) = q[1] /\ q[1] = Head(q)
    BY <1>1, <1>10, <1>11, <2>2, <2>3 DEF N
  <2>5. \A k \in 1..N2 : Only(w, q2)[k] = Tail(Only(w, q))[k]
    <3> SUFFICES ASSUME NEW k \in 1..N2
                 PROVE  Only(w, q2)[k] = Tail(Only(w, q))[k]
      OBVIOUS
    <3>1. k + 1 \in 1..N /\ q2[Nth(P2, k)] = q[Nth(P, k + 1)]
      BY <1>9, <2>1
    <3>2. Tail(Only(w, q))[k] = Only(w, q)[k + 1]
      BY <1>11, <2>1, <2>2
    <3> QED BY <1>10, <3>1, <3>2
  <2>6. Tail(Only(w, q)) \in Seq(S) /\ Len(Tail(Only(w, q))) = N2
    BY <1>11, <2>1, <2>2
  <2> QED BY <1>11, <2>4, <2>5, <2>6, SeqEqual
<1> QED BY <1>12, <1>13 DEF q2

-----------------------------------------------------------------------------
(* The shared queues.                                                       *)

AnySeq(q) == q \in Seq({q[i] : i \in DOMAIN q})

\* What becomes of the messages of a kind when the queue grows or shrinks.
LEMMA QueueParts ==
    ASSUME NEW w, NEW q, AnySeq(q)
    PROVE  /\ Len(q) \in Nat /\ Len(Only(w, q)) \in Nat /\ Len(Only(w, q)) <= Len(q)
           /\ \A m : /\ AnySeq(Append(q, m))
                     /\ IsA(w, m) => Only(w, Append(q, m)) = Append(Only(w, q), m)
                     /\ ~IsA(w, m) => Only(w, Append(q, m)) = Only(w, q)
           /\ q # <<>> => /\ AnySeq(Tail(q))
                          /\ ~IsA(w, Head(q)) => Only(w, Tail(q)) = Only(w, q)
                          /\ IsA(w, Head(q)) => /\ Only(w, q) # <<>>
                                               /\ Head(Only(w, q)) = Head(q)
                                               /\ Only(w, Tail(q)) = Tail(Only(w, q))
<1> DEFINE S == {q[i] : i \in DOMAIN q}
<1>1. q \in Seq(S)
  BY DEF AnySeq
<1> HIDE DEF S
<1>2. /\ Only(w, q) \in Seq({m \in S : IsA(w, m)})
      /\ Len(Only(w, q)) <= Len(q)
  BY <1>1, OnlyTyped
<1>3. Len(q) \in Nat /\ Len(Only(w, q)) \in Nat
  BY <1>1, <1>2
<1>4. ASSUME NEW T, NEW r \in Seq(T) PROVE AnySeq(r)
  <2>1. r \in [1..Len(r) -> {r[i] : i \in DOMAIN r}] /\ Len(r) \in Nat
    BY <1>4
  <2>2. r \in Seq({r[i] : i \in DOMAIN r})
    BY <2>1
  <2> QED BY <2>2 DEF AnySeq
<1>5. ASSUME NEW m
      PROVE  /\ AnySeq(Append(q, m))
             /\ IsA(w, m) => Only(w, Append(q, m)) = Append(Only(w, q), m)
             /\ ~IsA(w, m) => Only(w, Append(q, m)) = Only(w, q)
  <2> DEFINE T == S \cup {m}
  <2>1. q \in Seq(T) /\ m \in T
    BY <1>1
  <2> HIDE DEF T
  <2>2. Append(q, m) \in Seq(T)
    BY <2>1
  <2>3. AnySeq(Append(q, m))
    BY <1>4, <2>2
  <2>4. /\ IsA(w, m) => Only(w, Append(q, m)) = Append(Only(w, q), m)
        /\ ~IsA(w, m) => Only(w, Append(q, m)) = Only(w, q)
    BY <2>1, OnlyAppend
  <2> QED BY <2>3, <2>4
<1>6. ASSUME q # <<>>
      PROVE  /\ AnySeq(Tail(q))
             /\ ~IsA(w, Head(q)) => Only(w, Tail(q)) = Only(w, q)
             /\ IsA(w, Head(q)) => /\ Only(w, q) # <<>>
                                  /\ Head(Only(w, q)) = Head(q)
                                  /\ Only(w, Tail(q)) = Tail(Only(w, q))
  <2>1. Tail(q) \in Seq(S)
    BY <1>1, <1>6
  <2> QED BY <1>1, <1>4, <1>6, <2>1, OnlyTail
<1> QED BY <1>2, <1>3, <1>5, <1>6

\* ... of its commands,
LEMMA QueueMoves ==
    ASSUME NEW q, AnySeq(q)
    PROVE  /\ Len(q) \in Nat /\ Len(CmdsIn(q)) \in Nat /\ Len(CmdsIn(q)) <= Len(q)
           /\ \A m : /\ AnySeq(Append(q, m))
                     /\ IsCmd(m) => CmdsIn(Append(q, m)) = Append(CmdsIn(q), m)
                     /\ ~IsCmd(m) => CmdsIn(Append(q, m)) = CmdsIn(q)
           /\ q # <<>> => /\ AnySeq(Tail(q))
                          /\ ~IsCmd(Head(q)) => CmdsIn(Tail(q)) = CmdsIn(q)
                          /\ IsCmd(Head(q)) => /\ CmdsIn(q) # <<>>
                                               /\ Head(CmdsIn(q)) = Head(q)
                                               /\ CmdsIn(Tail(q)) = Tail(CmdsIn(q))
<1>1. \A r : CmdsIn(r) = Only("cmd", r)
  BY DEF CmdsIn, CmdsAt, Only, PlacesOf, IsA
<1>2. \A m : IsA("cmd", m) <=> IsCmd(m)
  BY DEF IsA
<1>3. Len(q) \in Nat /\ Len(CmdsIn(q)) \in Nat /\ Len(CmdsIn(q)) <= Len(q)
  BY <1>1, QueueParts
<1>4. ASSUME NEW m
      PROVE  /\ AnySeq(Append(q, m))
             /\ IsCmd(m) => CmdsIn(Append(q, m)) = Append(CmdsIn(q), m)
             /\ ~IsCmd(m) => CmdsIn(Append(q, m)) = CmdsIn(q)
  <2>1. /\ AnySeq(Append(q, m))
        /\ IsA("cmd", m) => Only("cmd", Append(q, m)) = Append(Only("cmd", q), m)
        /\ ~IsA("cmd", m) => Only("cmd", Append(q, m)) = Only("cmd", q)
    BY QueueParts
  <2> QED BY <1>1, <1>2, <2>1
<1>5. ASSUME q # <<>>
      PROVE  /\ AnySeq(Tail(q))
             /\ ~IsCmd(Head(q)) => CmdsIn(Tail(q)) = CmdsIn(q)
             /\ IsCmd(Head(q)) => /\ CmdsIn(q) # <<>>
                                  /\ Head(CmdsIn(q)) = Head(q)
                                  /\ CmdsIn(Tail(q)) = Tail(CmdsIn(q))
  BY <1>1, <1>2, <1>5, QueueParts
<1> QED BY <1>3, <1>4, <1>5

\* ... and of everything else.
LEMMA DataMoves ==
    ASSUME NEW q, AnySeq(q)
    PROVE  /\ Len(q) \in Nat /\ Len(DataIn(q)) \in Nat /\ Len(DataIn(q)) <= Len(q)
           /\ \A m : /\ AnySeq(Append(q, m))
                     /\ ~IsCmd(m) => DataIn(Append(q, m)) = Append(DataIn(q), m)
                     /\ IsCmd(m) => DataIn(Append(q, m)) = DataIn(q)
           /\ q # <<>> => /\ AnySeq(Tail(q))
                          /\ IsCmd(Head(q)) => DataIn(Tail(q)) = DataIn(q)
                          /\ ~IsCmd(Head(q)) => /\ DataIn(q) # <<>>
                                               /\ Head(DataIn(q)) = Head(q)
                                               /\ DataIn(Tail(q)) = Tail(DataIn(q))
<1>1. \A m : IsA("data", m) <=> ~IsCmd(m)
  BY DEF IsA
<1>2. \A r : DataIn(r) = Only("data", r)
  BY DEF DataIn
<1>3. Len(q) \in Nat /\ Len(DataIn(q)) \in Nat /\ Len(DataIn(q)) <= Len(q)
  BY <1>2, QueueParts
<1>4. ASSUME NEW m
      PROVE  /\ AnySeq(Append(q, m))
             /\ ~IsCmd(m) => DataIn(Append(q, m)) = Append(DataIn(q), m)
             /\ IsCmd(m) => DataIn(Append(q, m)) = DataIn(q)
  <2>1. /\ AnySeq(Append(q, m))
        /\ IsA("data", m) => Only("data", Append(q, m)) = Append(Only("data", q), m)
        /\ ~IsA("data", m) => Only("data", Append(q, m)) = Only("data", q)
    BY QueueParts
  <2> QED BY <1>1, <1>2, <2>1
<1>5. ASSUME q # <<>>
      PROVE  /\ AnySeq(Tail(q))
             /\ IsCmd(Head(q)) => DataIn(Tail(q)) = DataIn(q)
             /\ ~IsCmd(Head(q)) => /\ DataIn(q) # <<>>
                                   /\ Head(DataIn(q)) = Head(q)
                                   /\ DataIn(Tail(q)) = Tail(DataIn(q))
  BY <1>1, <1>2, <1>5, QueueParts
<1> QED BY <1>3, <1>4, <1>5

LEMMA NoQueue == AnySeq(<<>>) /\ CmdsIn(<<>>) = <<>> /\ DataIn(<<>>) = <<>>
<1>1. CmdsIn(<<>>) = Only("cmd", <<>>)
  BY DEF CmdsIn, CmdsAt, Only, PlacesOf, IsA
<1> QED BY <1>1, OnlyNone DEF AnySeq, DataIn

\* What Oam and the data plane assume of the constants is what OAM over the
\* shared queues assumes.
LEMMA Assumptions == C!OamAssumption /\ C!CmdsAssumption
<1>1. Nodes \subseteq Ids
  BY WhitefieldAssumption, DataPlaneAssumption
<1> QED
  BY <1>1, WhitefieldAssumption, DataPlaneAssumption
  DEF C!OamAssumption, C!CmdsAssumption, C!CmdType, C!CmdLines, C!CmdArgs, Ids, C!Ids

\* Queues of anything, and senders that wait: with no command in the data
\* plane's hands.
Shared ==
    /\ AnySeq(alq)
    /\ slq = [s \in Stacks |-> slq[s]]
    /\ slOut = [s \in Stacks |-> slOut[s]]
    /\ \A s \in Stacks : /\ AnySeq(slq[s])
                         /\ slOut[s] # <<>> => ~IsCmd(Head(slOut[s]))
    /\ alOut # <<>> => ~IsCmd(Head(alOut).msg)

WInv == C!TypeOK /\ C!MonHolds /\ Shared

LEMMA DataHasNoCmd ==
    /\ \A a, b, c, d : ~IsCmd([src |-> a, dst |-> b, fits |-> c, seq |-> d])
    /\ \A a, b, c : ~IsCmd([kind |-> "data", src |-> a, dst |-> b, seq |-> c])
    /\ \A a, b, c, d, e : ~IsCmd([kind |-> "ack", src |-> a, dst |-> b, seq |-> c,
                                  status |-> d, retries |-> e])
    /\ \A a : a \in C!Requests => IsCmd(a)
BY DEF IsCmd, C!Requests

\* A queue of one stackline changes, and no command comes or goes unless the
\* queue's commands do.
LEMMA SlCmdsMove ==
    ASSUME slq = [s \in Stacks |-> slq[s]], NEW s \in Stacks, NEW q,
           slq' = [slq EXCEPT ![s] = q]
    PROVE  /\ SlCmds' = [SlCmds EXCEPT ![s] = CmdsIn(q)]
           /\ CmdsIn(q) = CmdsIn(slq[s]) => SlCmds' = SlCmds
           /\ slq' = [t \in Stacks |-> slq'[t]]
           /\ slq'[s] = q /\ \A t \in Stacks : t # s => slq'[t] = slq[t]
<1>1. /\ slq' = [t \in Stacks |-> slq'[t]]
      /\ slq'[s] = q /\ \A t \in Stacks : t # s => slq'[t] = slq[t]
  <2> DEFINE f == slq
  <2>1. f = [t \in Stacks |-> f[t]] /\ slq' = [f EXCEPT ![s] = q]
    OBVIOUS
  <2> HIDE DEF f
  <2>2. \A g : g = [f EXCEPT ![s] = q] =>
           /\ g = [t \in Stacks |-> g[t]]
           /\ g[s] = q /\ \A t \in Stacks : t # s => g[t] = f[t]
    BY <2>1
  <2> QED BY <2>1, <2>2 DEF f
<1>2. SlCmds = [t \in Stacks |-> CmdsIn(slq[t])]
  BY DEF SlCmds
<1>3. SlCmds' = [t \in Stacks |-> CmdsIn(slq'[t])]
  BY DEF SlCmds
<1>4. SlCmds' = [t \in Stacks |-> IF t = s THEN CmdsIn(q) ELSE SlCmds[t]]
  BY <1>1, <1>2, <1>3
<1>5. SlCmds' = [SlCmds EXCEPT ![s] = CmdsIn(q)]
  BY <1>2, <1>4
<1>6. CmdsIn(q) = CmdsIn(slq[s]) => SlCmds' = SlCmds
  BY <1>2, <1>4
<1> QED BY <1>1, <1>5, <1>6

-----------------------------------------------------------------------------
(* Every step of the whole is a step of OAM, or leaves OAM alone.           *)

Step == Shared' /\ (C!Next \/ UNCHANGED C!vars)

\* The shared queues and what is sent on them stay as they are, or only what
\* is no command comes and goes.
LEMMA DataSteps ==
    ASSUME Shared, UNCHANGED oamVars, stack' = stack,
           AnySeq(alq'), CmdsIn(alq') = CmdsIn(alq),
           slq' = slq \/ \E s \in Stacks : \E q : /\ slq' = [slq EXCEPT ![s] = q]
                                                 /\ AnySeq(q)
                                                 /\ CmdsIn(q) = CmdsIn(slq[s]),
           slOut' = slOut \/ \E s \in Stacks : \E q :
                                /\ slOut' = [slOut EXCEPT ![s] = q]
                                /\ q # <<>> => ~IsCmd(Head(q)),
           alOut' # <<>> => ~IsCmd(Head(alOut').msg)
    PROVE  Step
<1>1. AlCmds' = AlCmds
  BY DEF AlCmds
<1>2. /\ SlCmds' = SlCmds
      /\ slq' = [s \in Stacks |-> slq'[s]]
      /\ \A s \in Stacks : AnySeq(slq'[s])
  <2>1. CASE slq' = slq
    BY <2>1 DEF SlCmds, Shared
  <2>2. ASSUME NEW s \in Stacks, NEW q, slq' = [slq EXCEPT ![s] = q],
               AnySeq(q), CmdsIn(q) = CmdsIn(slq[s])
        PROVE  /\ SlCmds' = SlCmds
               /\ slq' = [t \in Stacks |-> slq'[t]]
               /\ \A t \in Stacks : AnySeq(slq'[t])
    <3>1. /\ SlCmds' = SlCmds
          /\ slq' = [t \in Stacks |-> slq'[t]]
          /\ slq'[s] = q /\ \A t \in Stacks : t # s => slq'[t] = slq[t]
      BY <2>2, SlCmdsMove DEF Shared
    <3> QED BY <2>2, <3>1 DEF Shared
  <2> QED BY <2>1, <2>2
<1>3. /\ slOut' = [s \in Stacks |-> slOut'[s]]
      /\ \A s \in Stacks : slOut'[s] # <<>> => ~IsCmd(Head(slOut'[s]))
  <2>1. CASE slOut' = slOut
    BY <2>1 DEF Shared
  <2>2. ASSUME NEW s \in Stacks, NEW q, slOut' = [slOut EXCEPT ![s] = q],
               q # <<>> => ~IsCmd(Head(q))
        PROVE  /\ slOut' = [t \in Stacks |-> slOut'[t]]
               /\ \A t \in Stacks : slOut'[t] # <<>> => ~IsCmd(Head(slOut'[t]))
    <3>1. /\ slOut' = [t \in Stacks |-> slOut'[t]]
          /\ slOut'[s] = q /\ \A t \in Stacks : t # s => slOut'[t] = slOut[t]
      BY <2>2 DEF Shared
    <3> QED BY <2>2, <3>1 DEF Shared
  <2> QED BY <2>1, <2>2
<1>4. Shared'
  BY <1>2, <1>3 DEF Shared
<1>5. UNCHANGED C!vars
  BY <1>1, <1>2 DEF C!vars, oamVars
<1> QED BY <1>4, <1>5 DEF Step

\* The monitor sends commands.
LEMMA MonitorSends ==
    ASSUME WInv, O!MonitorSend
    PROVE  IsCmd(O!Req)
<1>1. mon.req \in Seq(C!Requests) /\ mon.req # <<>>
  <2>1. mon \in [pc : {"recv", "send", "poll"}, req : Seq(C!Requests), c : 0..(PollMax - 1)]
    BY DEF WInv, C!TypeOK
  <2>2. mon.pc = "send"
    BY DEF O!MonitorSend
  <2> QED BY <2>1, <2>2 DEF WInv, C!MonHolds
<1>2. Head(mon.req) \in C!Requests
  BY <1>1
<1> QED BY <1>2, DataHasNoCmd DEF O!Req

\* The monitor's send: one more command in Airline's or a stackline's queue.
LEMMA MonitorSendStep ==
    ASSUME WInv, UNCHANGED <<dataRest, stack>>, O!MonitorSend
    PROVE  Step
<1> DEFINE r == O!Req
           s == O!SrcId(O!Cmd)
<1>1. /\ C!Req = r /\ C!Cmd = r.cmd /\ O!Cmd = r.cmd /\ C!SrcId(C!Cmd) = s
      /\ C!Bound(s) <=> O!Bound(s)
  BY DEF O!Req, C!Req, O!Cmd, C!Cmd, O!SrcId, C!SrcId, O!Bound, C!Bound
<1>2. IsCmd(r)
  BY MonitorSends
<1>3. /\ running /\ mon.pc = "send" /\ mon' = [mon EXCEPT !.pc = "poll"]
      /\ UNCHANGED <<client, answer, udpq, moq, alReply, slReply, running, stack,
                     timeouts>>
  BY DEF O!MonitorSend
<1>4. UNCHANGED <<slOut, alOut>>
  BY DEF dataRest
<1>5. /\ AnySeq(alq) /\ slq = [t \in Stacks |-> slq[t]]
      /\ \A t \in Stacks : AnySeq(slq[t])
  BY DEF WInv, Shared
<1>6. O!Bound(s) => s \in Stacks
  BY WhitefieldAssumption DEF O!Bound
<1>7. QLen \in Nat
  BY DataPlaneAssumption
<1>8. \/ r.cmd.line = "AL" /\ Len(alq) < QLen /\ alq' = Append(alq, r) /\ UNCHANGED slq
      \/ /\ r.cmd.line = "SL" /\ O!Bound(s) /\ Len(slq[s]) < QLen
         /\ slq' = [slq EXCEPT ![s] = Append(@, r)]
         /\ UNCHANGED alq
      \/ r.cmd.line = "SL" /\ ~O!Bound(s) /\ UNCHANGED <<alq, slq>>
  BY <1>1 DEF O!MonitorSend
<1> HIDE DEF r, s
<1>9. CASE r.cmd.line = "AL" /\ Len(alq) < QLen /\ alq' = Append(alq, r) /\ UNCHANGED slq
  <2>1. /\ AnySeq(Append(alq, r)) /\ CmdsIn(Append(alq, r)) = Append(CmdsIn(alq), r)
        /\ Len(alq) \in Nat /\ Len(CmdsIn(alq)) \in Nat /\ Len(CmdsIn(alq)) <= Len(alq)
    BY <1>2, <1>5, QueueMoves
  <2>2. AlCmds' = Append(AlCmds, r) /\ Len(AlCmds) < QLen
    BY <1>7, <1>9, <2>1 DEF AlCmds
  <2>3. SlCmds' = SlCmds
    BY <1>9 DEF SlCmds
  <2>4. C!MonitorSend
    BY <1>1, <1>3, <1>9, <2>2, <2>3 DEF C!MonitorSend
  <2>5. Shared'
    BY <1>4, <1>9, <2>1 DEF Shared, WInv
  <2> QED BY <2>4, <2>5 DEF Step, C!Next, C!Monitor
<1>10. CASE /\ r.cmd.line = "SL" /\ O!Bound(s) /\ Len(slq[s]) < QLen
            /\ slq' = [slq EXCEPT ![s] = Append(@, r)]
            /\ UNCHANGED alq
  <2> DEFINE q == Append(slq[s], r)
  <2>1. AnySeq(slq[s])
    BY <1>5, <1>6, <1>10
  <2>2. /\ AnySeq(q) /\ CmdsIn(q) = Append(CmdsIn(slq[s]), r)
        /\ Len(slq[s]) \in Nat /\ Len(CmdsIn(slq[s])) \in Nat
        /\ Len(CmdsIn(slq[s])) <= Len(slq[s])
    BY <1>2, <2>1, QueueMoves
  <2>3. slq' = [slq EXCEPT ![s] = q] /\ s \in Stacks
    BY <1>6, <1>10
  <2> HIDE DEF q
  <2>4. /\ SlCmds' = [SlCmds EXCEPT ![s] = CmdsIn(q)]
        /\ slq' = [t \in Stacks |-> slq'[t]]
        /\ slq'[s] = q /\ \A t \in Stacks : t # s => slq'[t] = slq[t]
    BY <1>5, <2>3, SlCmdsMove
  <2>5. SlCmds[s] = CmdsIn(slq[s]) /\ AlCmds' = AlCmds
    BY <1>10, <2>3 DEF SlCmds, AlCmds
  <2>6. /\ SlCmds' = [SlCmds EXCEPT ![s] = Append(SlCmds[s], r)]
        /\ Len(SlCmds[s]) < QLen
    BY <1>7, <1>10, <2>2, <2>4, <2>5
  <2>7. C!MonitorSend
    BY <1>1, <1>3, <1>10, <2>5, <2>6 DEF C!MonitorSend
  <2>8. Shared'
    BY <1>4, <1>10, <2>2, <2>4 DEF Shared, WInv
  <2> QED BY <2>7, <2>8 DEF Step, C!Next, C!Monitor
<1>11. CASE r.cmd.line = "SL" /\ ~O!Bound(s) /\ UNCHANGED <<alq, slq>>
  <2>1. AlCmds' = AlCmds /\ SlCmds' = SlCmds
    BY <1>11 DEF AlCmds, SlCmds
  <2>2. C!MonitorSend
    BY <1>1, <1>3, <1>11, <2>1 DEF C!MonitorSend
  <2>3. Shared'
    BY <1>4, <1>11 DEF Shared, WInv
  <2> QED BY <2>2, <2>3 DEF Step, C!Next, C!Monitor
<1> QED BY <1>8, <1>9, <1>10, <1>11

\* The clients and the monitor thread.
LEMMA ClientAndMonitorSteps ==
    ASSUME WInv
    PROVE  /\ \A c \in Clients : ClientStep(c) => Step
           /\ MonitorStep => Step
<1> USE DEF C!targetVars, O!targetVars, C!MonIdle, O!MonIdle, C!Req, O!Req,
            C!Cmd, O!Cmd, C!SrcId, O!SrcId, C!Bound, O!Bound,
            C!Respond, O!Respond
<1>0. UNCHANGED vars => Shared' /\ AlCmds' = AlCmds /\ SlCmds' = SlCmds
  BY DEF WInv, Shared, vars, AlCmds, SlCmds
<1>1. ASSUME NEW c \in Clients, ClientStep(c) PROVE Step
  <2>1. UNCHANGED vars /\ (O!ClientSend(c) \/ O!ClientTimeout(c))
    BY <1>1 DEF ClientStep
  <2>2. C!ClientSend(c) \/ C!ClientTimeout(c)
    BY <1>0, <2>1 DEF C!ClientSend, O!ClientSend, C!ClientTimeout, O!ClientTimeout
  <2>3. C!Next
    BY <2>2 DEF C!Next
  <2> QED BY <1>0, <2>1, <2>3 DEF Step
<1>2. ASSUME UNCHANGED vars, O!MonitorRecv PROVE Step
  <2>1. C!MonitorRecv
    BY <1>0, <1>2 DEF C!MonitorRecv, O!MonitorRecv
  <2> QED BY <1>0, <1>2, <2>1 DEF Step, C!Next, C!Monitor
<1>3. ASSUME UNCHANGED vars, O!MonitorPollHit PROVE Step
  <2>1. C!MonitorPollHit
    BY <1>0, <1>3 DEF C!MonitorPollHit, O!MonitorPollHit
  <2> QED BY <1>0, <1>3, <2>1 DEF Step, C!Next, C!Monitor
<1>4. ASSUME UNCHANGED vars, O!MonitorPollMiss PROVE Step
  <2>1. C!MonitorPollMiss
    BY <1>0, <1>4 DEF C!MonitorPollMiss, O!MonitorPollMiss
  <2> QED BY <1>0, <1>4, <2>1 DEF Step, C!Next, C!Monitor
<1>5. UNCHANGED <<dataRest, stack>> /\ O!MonitorSend => Step
  BY MonitorSendStep
<1> QED BY <1>1, <1>2, <1>3, <1>4, <1>5 DEF MonitorStep

\* What Airline sends to a stackline is no command.
LEMMA SendStep ==
    ASSUME Shared, NEW to, NEW m, ~IsCmd(m), SendToStackline(to, m)
    PROVE  /\ slq' = slq \/ \E s \in Stacks : \E q : /\ slq' = [slq EXCEPT ![s] = q]
                                                     /\ AnySeq(q)
                                                     /\ CmdsIn(q) = CmdsIn(slq[s])
           /\ alOut' # <<>> => ~IsCmd(Head(alOut').msg)
<1>1. CASE UNCHANGED <<alOut, slq>>
  BY <1>1 DEF Shared
<1>2. CASE /\ to \in Stacks /\ slq' = [slq EXCEPT ![to] = Append(@, m)]
           /\ UNCHANGED alOut
  <2>1. AnySeq(slq[to])
    BY <1>2 DEF Shared
  <2>2. AnySeq(Append(slq[to], m)) /\ CmdsIn(Append(slq[to], m)) = CmdsIn(slq[to])
    BY <2>1, QueueMoves
  <2> QED BY <1>2, <2>2 DEF Shared
<1>3. CASE alOut' = <<[to |-> to, msg |-> m]>> /\ UNCHANGED slq
  BY <1>3
<1> QED BY <1>1, <1>2, <1>3 DEF SendToStackline, Bound

\* Airline's events: msgReader's packets, what waits to be sent, and the MAC.
LEMMA AirlineDataSteps ==
    ASSUME Shared
    PROVE  /\ AirlineMsgReader => Step
           /\ AirlineUnblock /\ UNCHANGED oamVars => Step
           /\ Radio /\ UNCHANGED oamVars => Step
<1> DEFINE SlqData == slq' = slq \/ \E s \in Stacks : \E q :
                                      /\ slq' = [slq EXCEPT ![s] = q]
                                      /\ AnySeq(q)
                                      /\ CmdsIn(q) = CmdsIn(slq[s])
           OutData == alOut' # <<>> => ~IsCmd(Head(alOut').msg)
<1>1. ASSUME AirlineMsgReader PROVE Step
  <2>1. /\ UNCHANGED oamVars /\ stack' = stack /\ slq' = slq /\ slOut' = slOut
        /\ alOut' = alOut
        /\ alq' = alq \/ (DataNext(alq) /\ alq' = Tail(alq))
    BY <1>1 DEF AirlineMsgReader, MsgReaderStart, MsgReaderStop, MsgReaderDrop,
                MsgReaderSend, stackVars
  <2>2. AnySeq(alq') /\ CmdsIn(alq') = CmdsIn(alq)
    <3>1. CASE alq' = alq
      BY <3>1 DEF Shared
    <3>2. CASE DataNext(alq) /\ alq' = Tail(alq)
      BY <3>2, QueueMoves DEF Shared, DataNext
    <3> QED BY <2>1, <3>1, <3>2
  <2>3. alOut' # <<>> => ~IsCmd(Head(alOut').msg)
    BY <2>1 DEF Shared
  <2> QED BY <2>1, <2>2, <2>3, DataSteps
<1>2. ASSUME UNCHANGED oamVars, stack' = stack, alq' = alq, slOut' = slOut,
             SlqData, OutData
      PROVE  Step
  BY <1>2, DataSteps DEF Shared
<1>3. ASSUME AirlineUnblock, UNCHANGED oamVars PROVE Step
  <2> DEFINE o == Head(alOut)
  <2>1. /\ alOut # <<>> /\ stack' = stack /\ alq' = alq /\ slOut' = slOut
        /\ alOut' = <<>>
        /\ \/ slq' = slq
           \/ Bound(o.to) /\ slq' = [slq EXCEPT ![o.to] = Append(@, o.msg)]
    BY <1>3 DEF AirlineUnblock, stackVars
  <2>2. ~IsCmd(o.msg)
    BY <2>1 DEF Shared
  <2> HIDE DEF o
  <2>3. ASSUME Bound(o.to), slq' = [slq EXCEPT ![o.to] = Append(@, o.msg)]
        PROVE  SlqData
    <3>1. o.to \in Stacks /\ AnySeq(slq[o.to])
      BY <2>3 DEF Bound, Shared
    <3>2. /\ AnySeq(Append(slq[o.to], o.msg))
          /\ CmdsIn(Append(slq[o.to], o.msg)) = CmdsIn(slq[o.to])
      BY <2>2, <3>1, QueueMoves
    <3> QED BY <2>3, <3>1, <3>2
  <2>4. SlqData
    BY <2>1, <2>3
  <2>5. OutData
    BY <2>1
  <2> HIDE DEF SlqData, OutData
  <2> QED BY <1>2, <1>3, <2>1, <2>4, <2>5
<1>4. ASSUME NEW to, NEW m, ~IsCmd(m), SendToStackline(to, m) PROVE SlqData /\ OutData
  BY <1>4, SendStep
<1>5. ASSUME UNCHANGED <<slq, alOut>> PROVE SlqData /\ OutData
  BY <1>5 DEF Shared
<1> HIDE DEF SlqData, OutData
<1>6. ASSUME NEW n, NEW r, DataIndication(n, r), UNCHANGED oamVars PROVE Step
  <2>1. stack' = stack /\ alq' = alq /\ slOut' = slOut
    BY <1>6 DEF DataIndication, stackVars
  <2>2. SlqData /\ OutData
    BY <1>4, <1>6, DataHasNoCmd DEF DataIndication, SendPacketToStackline
  <2> QED BY <1>2, <1>6, <2>1, <2>2
<1>7. ASSUME NEW n, NEW f, NEW st, DataConfirm(n, f, st) PROVE SlqData /\ OutData
  <2>1. CASE UNCHANGED <<stats, alOut, slq, refused>>
    BY <1>5, <2>1
  <2>2. CASE SendAckToStackline(n, f, wf_ack_status(st), tries[n] + 1)
    BY <1>4, <2>2, DataHasNoCmd DEF SendAckToStackline
  <2> QED BY <1>7, <2>1, <2>2 DEF DataConfirm
<1>8. ASSUME NEW n, MacStep(n), UNCHANGED oamVars PROVE Step
  <2>1. stack' = stack /\ alq' = alq /\ slOut' = slOut
    BY <1>8 DEF MacStep, MacRetry, MacDone, MacReject, stackVars
  <2>2. SlqData /\ OutData
    BY <1>5, <1>7, <1>8 DEF MacStep, MacRetry, MacDone, MacReject
  <2> QED BY <1>2, <1>8, <2>1, <2>2
<1> QED BY <1>1, <1>3, <1>6, <1>8 DEF Radio

\* What stacklines do with packets.
LEMMA StackDataSteps ==
    ASSUME Shared, NEW s \in Stacks
    PROVE  WStackSend(s) \/ WStackUnblock(s) \/ WStackRecv(s) => Step
<1>0. AnySeq(alq) /\ AnySeq(slq[s])
  BY DEF Shared
<1>1. ASSUME UNCHANGED oamVars, stack' = stack, slq' = slq, alOut' = alOut,
             NEW m, ~IsCmd(m),
             alq' = alq \/ alq' = Append(alq, m),
             slOut' = slOut \/ slOut' = [slOut EXCEPT ![s] = <<>>]
               \/ slOut' = [slOut EXCEPT ![s] = <<m>>]
      PROVE  Step
  <2>1. AnySeq(alq') /\ CmdsIn(alq') = CmdsIn(alq)
    BY <1>0, <1>1, QueueMoves
  <2>2. slOut' = slOut \/ \E t \in Stacks : \E q :
                            /\ slOut' = [slOut EXCEPT ![t] = q]
                            /\ q # <<>> => ~IsCmd(Head(q))
    <3>1. <<m>> # <<>> => ~IsCmd(Head(<<m>>))
      BY <1>1
    <3> QED BY <1>1, <3>1
  <2>3. alOut' # <<>> => ~IsCmd(Head(alOut').msg)
    BY <1>1 DEF Shared
  <2> QED BY <1>1, <2>1, <2>2, <2>3, DataSteps
<1>2. ASSUME WStackSend(s) PROVE Step
  <2>1. PICK dst \in Dsts \ {s}, fits \in Sizes :
           LET m == [src |-> s, dst |-> dst, fits |-> fits, seq |-> Len(sent[s]) + 1]
           IN  \/ alq' = Append(alq, m) /\ UNCHANGED slOut
               \/ slOut' = [slOut EXCEPT ![s] = <<m>>] /\ UNCHANGED alq
    BY <1>2 DEF WStackSend, StackSend
  <2>2. UNCHANGED oamVars /\ stack' = stack /\ slq' = slq /\ alOut' = alOut
    BY <1>2 DEF WStackSend, StackSend
  <2> DEFINE m == [src |-> s, dst |-> dst, fits |-> fits, seq |-> Len(sent[s]) + 1]
  <2>3. ~IsCmd(m)
    BY DataHasNoCmd
  <2>4. \/ alq' = Append(alq, m) /\ UNCHANGED slOut
        \/ slOut' = [slOut EXCEPT ![s] = <<m>>] /\ UNCHANGED alq
    BY <2>1
  <2> HIDE DEF m
  <2> QED BY <1>1, <2>2, <2>3, <2>4
<1>3. ASSUME WStackUnblock(s) PROVE Step
  <2>1. /\ slOut[s] # <<>> /\ alq' = Append(alq, Head(slOut[s]))
        /\ slOut' = [slOut EXCEPT ![s] = <<>>]
        /\ UNCHANGED oamVars /\ stack' = stack /\ slq' = slq /\ alOut' = alOut
    BY <1>3 DEF WStackUnblock, StackUnblock
  <2>2. ~IsCmd(Head(slOut[s]))
    BY <2>1 DEF Shared
  <2> QED BY <1>1, <2>1, <2>2
<1>4. ASSUME WStackRecv(s) PROVE Step
  <2>1. /\ DataNext(slq[s]) /\ slq' = [slq EXCEPT ![s] = Tail(@)]
        /\ UNCHANGED oamVars /\ stack' = stack /\ alq' = alq /\ slOut' = slOut
        /\ alOut' = alOut
    BY <1>4 DEF WStackRecv, StackRecv, stackVars
  <2>2. AnySeq(Tail(slq[s])) /\ CmdsIn(Tail(slq[s])) = CmdsIn(slq[s])
    BY <1>0, <2>1, QueueMoves DEF DataNext
  <2>3. alOut' # <<>> => ~IsCmd(Head(alOut').msg)
    BY <2>1 DEF Shared
  <2> QED BY <1>0, <2>1, <2>2, <2>3, DataSteps
<1> QED BY <1>2, <1>3, <1>4

\* Airline handles a command from the queue it shares with the packets.
LEMMA AirlineCommandSteps ==
    ASSUME WInv
    PROVE  AirlineCmd \/ AirlineReplyUnblock => Step
<1>1. ASSUME AirlineCmd PROVE Step
  <2>1. /\ alq # <<>> /\ IsCmd(Head(alq)) /\ alq' = Tail(alq)
        /\ UNCHANGED <<slq, slOut, alOut>>
        /\ O!AirlineCmd
    BY <1>1 DEF AirlineCmd, CmdNext, stackVars, O!AirlineCmd
  <2>2. /\ AlCmds # <<>> /\ Head(AlCmds) = Head(alq) /\ AlCmds' = Tail(AlCmds)
        /\ AnySeq(alq')
    BY <2>1, QueueMoves DEF WInv, Shared, AlCmds
  <2>3. SlCmds' = SlCmds
    BY <2>1 DEF SlCmds
  <2>4. \A cmd : C!Outcome(cmd) = O!Outcome(cmd)
    BY DEF C!Outcome, O!Outcome, C!CL_MGR_ID, O!CL_MGR_ID, C!SrcId, O!SrcId
  <2>5. C!AirlineCmd
    <3>1. C!CanReply <=> O!CanReply
      BY DEF C!CanReply, O!CanReply
    <3> QED BY <2>1, <2>2, <2>3, <2>4, <3>1, Zenon DEF C!AirlineCmd, O!AirlineCmd
  <2>6. Shared'
    BY <2>1, <2>2 DEF Shared, WInv
  <2> QED BY <2>5, <2>6 DEF Step, C!Next, C!Airline
<1>2. ASSUME AirlineReplyUnblock PROVE Step
  <2>1. UNCHANGED vars /\ O!AirlineReplyUnblock
    BY <1>2 DEF AirlineReplyUnblock
  <2>2. Shared' /\ AlCmds' = AlCmds /\ SlCmds' = SlCmds
    BY <2>1 DEF WInv, Shared, vars, AlCmds, SlCmds
  <2>3. C!AirlineReplyUnblock
    BY <2>1, <2>2 DEF C!AirlineReplyUnblock, O!AirlineReplyUnblock, C!CanReply, O!CanReply
  <2> QED BY <2>2, <2>3 DEF Step, C!Next, C!Airline
<1> QED BY <1>1, <1>2

\* Stacklines start, die and handle commands.
LEMMA StackCommandSteps ==
    ASSUME WInv, running, NEW s \in Stacks
    PROVE  WStackStart(s) \/ WStackDie(s) \/ StackCmd(s) \/ StackReplyUnblock(s) => Step
<1>0. s \in Nodes
  BY WhitefieldAssumption
<1>a. /\ slq = [t \in Stacks |-> slq[t]] /\ slOut = [t \in Stacks |-> slOut[t]]
      /\ SlCmds[s] = CmdsIn(slq[s])
      /\ \A t \in Stacks : /\ AnySeq(slq[t])
                           /\ slOut[t] # <<>> => ~IsCmd(Head(slOut[t]))
  BY DEF WInv, Shared, SlCmds
<1>1. ASSUME WStackStart(s) PROVE Step
  <2>1. /\ UNCHANGED <<alq, slq, slOut, alOut>> /\ UNCHANGED oamVars
        /\ stack[s] = "new" /\ stack' = [stack EXCEPT ![s] = "up"]
    BY <1>1 DEF WStackStart, StackStart
  <2>2. Shared' /\ AlCmds' = AlCmds /\ SlCmds' = SlCmds
    BY <2>1 DEF WInv, Shared, AlCmds, SlCmds
  <2>3. C!StackStart(s)
    BY <2>1, <2>2 DEF C!StackStart, oamVars
  <2> QED BY <1>0, <2>2, <2>3 DEF Step, C!Next
<1>2. ASSUME WStackDie(s) PROVE Step
  <2>1. /\ stack[s] = "up" /\ stack' = [stack EXCEPT ![s] = "dead"]
        /\ slOut' = [slOut EXCEPT ![s] = <<>>]
        /\ slq' = [slq EXCEPT ![s] = <<>>]
        /\ slReply' = [slReply EXCEPT ![s] = <<>>]
        /\ alq' = alq /\ alOut' = alOut
        /\ UNCHANGED <<client, answer, udpq, mon, moq, running, timeouts, alReply>>
    BY <1>2 DEF WStackDie, StackDie
  <2>2. /\ SlCmds' = [SlCmds EXCEPT ![s] = CmdsIn(<<>>)]
        /\ slq' = [t \in Stacks |-> slq'[t]]
        /\ slq'[s] = <<>> /\ \A t \in Stacks : t # s => slq'[t] = slq[t]
    BY <1>a, <2>1, SlCmdsMove
  <2>3. SlCmds' = [SlCmds EXCEPT ![s] = <<>>] /\ AlCmds' = AlCmds
    BY <2>1, <2>2, NoQueue DEF AlCmds
  <2>4. Shared'
    <3>1. /\ slOut' = [t \in Stacks |-> slOut'[t]]
          /\ \A t \in Stacks : slOut'[t] # <<>> => ~IsCmd(Head(slOut'[t]))
      <4>1. /\ slOut' = [t \in Stacks |-> slOut'[t]]
            /\ slOut'[s] = <<>> /\ \A t \in Stacks : t # s => slOut'[t] = slOut[t]
        BY <1>a, <2>1
      <4> QED BY <1>a, <4>1
    <3>2. \A t \in Stacks : AnySeq(slq'[t])
      BY <1>a, <2>2, NoQueue
    <3> QED BY <2>1, <2>2, <3>1, <3>2 DEF Shared, WInv
  <2>5. C!StackExit(s)
    BY <2>1, <2>3 DEF C!StackExit
  <2> QED BY <1>0, <2>4, <2>5 DEF Step, C!Next
<1>3. ASSUME StackCmd(s) PROVE Step
  <2> DEFINE q == Tail(slq[s])
  <2>1. /\ slq[s] # <<>> /\ IsCmd(Head(slq[s])) /\ slq' = [slq EXCEPT ![s] = q]
        /\ UNCHANGED <<slOut, alOut, alq>>
        /\ O!StackCmd(s)
    BY <1>3 DEF StackCmd, CmdNext, stackVars, O!StackCmd
  <2>2. /\ AnySeq(q) /\ CmdsIn(slq[s]) # <<>>
        /\ Head(CmdsIn(slq[s])) = Head(slq[s])
        /\ CmdsIn(q) = Tail(CmdsIn(slq[s]))
    BY <1>a, <2>1, QueueMoves
  <2> HIDE DEF q
  <2>3. /\ SlCmds' = [SlCmds EXCEPT ![s] = CmdsIn(q)]
        /\ slq' = [t \in Stacks |-> slq'[t]]
        /\ slq'[s] = q /\ \A t \in Stacks : t # s => slq'[t] = slq[t]
    BY <1>a, <2>1, SlCmdsMove
  <2>4. /\ SlCmds' = [SlCmds EXCEPT ![s] = Tail(SlCmds[s])] /\ AlCmds' = AlCmds
        /\ SlCmds[s] # <<>> /\ Head(SlCmds[s]) = Head(slq[s])
    BY <1>a, <2>1, <2>2, <2>3 DEF AlCmds
  <2>5. C!StackCmd(s)
    BY <2>1, <2>4 DEF C!StackCmd, O!StackCmd, C!CanReply, O!CanReply
  <2>6. Shared'
    BY <1>a, <2>1, <2>2, <2>3 DEF Shared, WInv
  <2> QED BY <1>0, <2>5, <2>6 DEF Step, C!Next, C!Stack
<1>4. ASSUME StackReplyUnblock(s) PROVE Step
  <2>1. UNCHANGED vars /\ O!StackReplyUnblock(s)
    BY <1>4 DEF StackReplyUnblock
  <2>2. Shared' /\ AlCmds' = AlCmds /\ SlCmds' = SlCmds
    BY <2>1 DEF WInv, Shared, vars, AlCmds, SlCmds
  <2>3. C!StackReplyUnblock(s)
    BY <2>1, <2>2 DEF C!StackReplyUnblock, O!StackReplyUnblock, C!CanReply, O!CanReply
  <2> QED BY <1>0, <2>2, <2>3 DEF Step, C!Next, C!Stack
<1> QED BY <1>1, <1>2, <1>3, <1>4

\* ... and so is every step.
LEMMA EveryStep == WInv /\ [WNext]_wfVars => Step
<1> SUFFICES ASSUME WInv, [WNext]_wfVars PROVE Step
  OBVIOUS
<1>1. CASE UNCHANGED wfVars
  <2>1. UNCHANGED vars /\ UNCHANGED oamVars
    BY <1>1 DEF wfVars
  <2>2. Shared' /\ AlCmds' = AlCmds /\ SlCmds' = SlCmds /\ stack' = stack
    BY <2>1 DEF WInv, Shared, vars, AlCmds, SlCmds
  <2> QED BY <2>1, <2>2 DEF Step, C!vars, oamVars
<1>2. CASE WNext
  <2>1. Shared
    BY DEF WInv
  <2> QED
    BY <1>2, <2>1, ClientAndMonitorSteps, AirlineDataSteps, AirlineCommandSteps,
       StackDataSteps, StackCommandSteps
    DEF WNext, WStack
<1> QED BY <1>1, <1>2

LEMMA WInit0 == WInit => C!Init /\ Shared
<1> SUFFICES ASSUME WInit PROVE C!Init /\ Shared
  OBVIOUS
<1>1. AlCmds = <<>> /\ SlCmds = [n \in Nodes |-> <<>>]
  BY NoQueue, WhitefieldAssumption DEF WInit, Init, AlCmds, SlCmds
<1>2. C!Init
  BY <1>1, WhitefieldAssumption DEF WInit, Init, O!Init, C!Init, O!MonIdle, C!MonIdle
<1>3. Shared
  BY NoQueue DEF WInit, Init, Shared
<1> QED BY <1>2, <1>3

\* The queues stay as OAM has them.
LEMMA WInvAlways == WSpec => []WInv
<1>1. WInit => WInv
  <2>1. C!Init => C!TypeOK /\ C!MonHolds
    BY Assumptions, C!InitTyped
  <2> QED BY <2>1, WInit0 DEF WInv
<1>2. WInv /\ [WNext]_wfVars => WInv'
  <2> SUFFICES ASSUME WInv, [WNext]_wfVars PROVE WInv'
    OBVIOUS
  <2>1. Shared' /\ [C!Next]_(C!vars)
    BY EveryStep DEF Step
  <2>2. C!TypeOK /\ C!MonHolds /\ [C!Next]_(C!vars) => C!TypeOK' /\ C!MonHolds'
    BY Assumptions, C!StepTyped
  <2> QED BY <2>1, <2>2 DEF WInv
<1> QED BY <1>1, <1>2, PTL DEF WSpec

\* OAM over the sockets it shares with the packets is OAM: a command, its
\* reply and its client fare as if there were no packets (msgReader,
\* msgrecvCallback, fwd_cmd_on_commline, sl_handle_cmd).
THEOREM WhitefieldImplementsOam == WSpec => ImplementsOam
<1>1. WInit => Commands!Init
  BY WInit0, SameOam
<1>2. WInv /\ [WNext]_wfVars => [Commands!Next]_(Commands!vars)
  <2> SUFFICES ASSUME WInv, [WNext]_wfVars
               PROVE  Commands!Next \/ UNCHANGED C!vars
    BY DEF C!vars, Commands!vars
  <2> QED BY EveryStep, SameOam DEF Step
<1> QED BY <1>1, <1>2, WInvAlways, PTL DEF WSpec, ImplementsOam, Commands!Spec

LEMMA IsOam == WSpec => C!Spec
<1>1. WInv /\ [WNext]_wfVars => [C!Next]_(C!vars)
  BY EveryStep DEF Step
<1> QED BY <1>1, WInit0, WInvAlways, PTL DEF WSpec, C!Spec

\* What clients are promised holds with packets in the sockets: no response
\* reaches two of them, and as long as no command has run out of polls every
\* response is the one to the client's own command (fwd_cmd_on_commline).
THEOREM WhitefieldAnswers == WSpec => [](O!NoSharedAnswer /\ O!AnswerIsMineUnlessTimeout)
<1>1. C!Spec => []C!NoSharedAnswer /\ []C!AnswerIsMineUnlessTimeout
  BY Assumptions, C!OamNoSharedAnswer, C!OamAnswerIsMine
<1>2. C!NoSharedAnswer /\ C!AnswerIsMineUnlessTimeout
        => O!NoSharedAnswer /\ O!AnswerIsMineUnlessTimeout
  BY DEF C!NoSharedAnswer, O!NoSharedAnswer, C!AnswerIsMineUnlessTimeout,
         O!AnswerIsMineUnlessTimeout, C!AnswerIsMine, O!AnswerIsMine,
         C!Answered, O!Answered
<1> QED BY <1>1, <1>2, IsOam, PTL

-----------------------------------------------------------------------------
(* Nothing waits for ever.                                                  *)

\* Two ends of Commline never share a socket name, and the line of an end is
\* read back from its message type (MTYPE, GET_LINE, usock_setabsaddr).
THEOREM NamesAreDistinct ==
    ASSUME NEW l1 \in Lines, NEW l2 \in Lines, NEW i1 \in Ids, NEW i2 \in Ids
    PROVE  /\ GET_LINE(MTYPE(l1, i1)) = l1
           /\ usock_setabsaddr(MTYPE(l1, i1)) = usock_setabsaddr(MTYPE(l2, i2))
                => l1 = l2 /\ i1 = i2
<1>1. /\ l1 \in Nat /\ l2 \in Nat
      /\ i1 \in Nat /\ i1 <= 65535 /\ i2 \in Nat /\ i2 <= 65535
  BY DEF Lines, Ids, STACKLINE, MONITOR
<1>2. GET_LINE(MTYPE(l1, i1)) = l1 /\ GET_LINE(MTYPE(l2, i2)) = l2
  BY <1>1 DEF GET_LINE, MTYPE
<1>3. MTYPE(l1, i1) = MTYPE(l2, i2) => l1 = l2 /\ i1 = i2
  BY <1>1 DEF MTYPE
<1> QED BY <1>2, <1>3 DEF usock_setabsaddr

\* Airline, the monitor and the stacklines receive on names of their own.
LEMMA ProcessNames ==
    /\ Airline # Monitor
    /\ \A s \in Stacks : Stack(s) # Airline /\ Stack(s) # Monitor
<1>1. /\ {STACKLINE, AIRLINE, MONITOR} \subseteq Lines
      /\ STACKLINE # AIRLINE /\ AIRLINE # MONITOR /\ STACKLINE # MONITOR
      /\ CL_MGR_ID \in Ids /\ \A s \in Stacks : s \in Ids
  BY DataPlaneAssumption DEF STACKLINE, AIRLINE, MONITOR, Lines, CL_MGR_ID, Ids
<1>2. \A l1, l2 \in Lines, i1, i2 \in Ids : l1 # l2 => MTYPE(l1, i1) # MTYPE(l2, i2)
  BY NamesAreDistinct
<1> QED BY <1>1, <1>2 DEF Airline, Monitor, Stack

\* Who can wait for whom when stacklines receive while they send.
LEMMA Edges ==
    ASSUME Threaded, NEW p, NEW q, <<p, q>> \in Waits
    PROVE  \/ p = Airline /\ \E s \in Stacks : q = Stack(s)
           \/ p = Airline /\ q = Monitor /\ alReply # <<>> /\ Full(moq)
           \/ /\ p = Monitor /\ mon.pc = "send"
              /\ q = Airline \/ \E s \in Stacks : q = Stack(s)
           \/ \E s \in Stacks : /\ p = Stack(s) /\ q = Monitor
                                /\ slReply[s] # <<>> /\ Full(moq)
BY DEF Waits, Bound

\* A cycle goes through the monitor, which waits to send, and a process that
\* waits with a reply to it.
LEMMA CycleHolds ==
    ASSUME Threaded, WaitCycle
    PROVE  /\ mon.pc = "send" /\ Full(moq)
           /\ alReply # <<>> \/ \E s \in Stacks : slReply[s] # <<>>
<1>1. PICK P \in (SUBSET Processes) \ {{}} : \A p \in P : \E q \in P : <<p, q>> \in Waits
  BY DEF WaitCycle
<1>2. /\ Airline # Monitor
      /\ \A s \in Stacks : Stack(s) # Airline /\ Stack(s) # Monitor
  BY ProcessNames
<1>3. ASSUME NEW s \in Stacks, Stack(s) \in P
      PROVE  Monitor \in P /\ Full(moq) /\ \E t \in Stacks : slReply[t] # <<>>
  <2>1. PICK q \in P : <<Stack(s), q>> \in Waits
    BY <1>1, <1>3
  <2> QED BY <1>2, <2>1, Edges
<1>4. ASSUME Airline \in P
      PROVE  /\ Monitor \in P /\ Full(moq)
             /\ alReply # <<>> \/ \E s \in Stacks : slReply[s] # <<>>
  <2>1. PICK q \in P : <<Airline, q>> \in Waits
    BY <1>1, <1>4
  <2>2. \/ \E s \in Stacks : q = Stack(s)
        \/ q = Monitor /\ alReply # <<>> /\ Full(moq)
    <3> DEFINE p == Airline
    <3>1. <<p, q>> \in Waits /\ p # Monitor /\ \A s \in Stacks : p # Stack(s)
      BY <1>2, <2>1
    <3> HIDE DEF p
    <3> QED BY <3>1, Edges
  <2> QED BY <1>3, <2>1, <2>2
<1>5. Monitor \in P
  <2>1. PICK p : p \in P
    BY <1>1, Zenon
  <2>2. p \in {Airline, Monitor} \cup {Stack(s) : s \in Stacks}
    BY <1>1, <2>1 DEF Processes
  <2> QED BY <1>3, <1>4, <2>1, <2>2
<1>6. PICK q \in P : <<Monitor, q>> \in Waits
  BY <1>1, <1>5
<1>7. mon.pc = "send" /\ (q = Airline \/ \E s \in Stacks : q = Stack(s))
  <2> DEFINE p == Monitor
  <2>1. <<p, q>> \in Waits /\ p # Airline /\ \A s \in Stacks : p # Stack(s)
    <3>1. Monitor # Airline /\ \A s \in Stacks : Monitor # Stack(s)
      BY <1>2
    <3> QED BY <1>6, <3>1
  <2> HIDE DEF p
  <2> QED BY <2>1, Edges
<1> QED BY <1>3, <1>4, <1>6, <1>7

\* Sizes of sets are the same in OAM's module.
LEMMA SameSizes ==
    \A S : (C!IsFiniteSet(S) <=> IsFiniteSet(S)) /\ C!Cardinality(S) = Cardinality(S)
BY DEF C!IsFiniteSet, IsFiniteSet, C!Cardinality, Cardinality

\* Replies that fill the MONITOR socket, and one that waits for room, are a
\* backlog of more messages than the socket holds.
LEMMA HeldReplyIsBacklog ==
    ASSUME WInv, Full(moq), IsFiniteSet(C!Outstanding),
           alReply # <<>> \/ \E s \in Stacks : slReply[s] # <<>>
    PROVE  QLen < Cardinality(C!Outstanding)
<1>0. moq \in Seq(C!Replies) /\ alReply \in Seq(C!Replies)
      /\ slReply \in [Nodes -> Seq(C!Replies)]
  BY DEF WInv, C!TypeOK
<1>1. PICK h : h \in C!Outstanding /\ \A i : h # <<"moq", 0, i>>
  <2>1. ASSUME alReply # <<>> PROVE <<"alOut", 0, 1>> \in C!Outstanding
    <3>1. 1 \in DOMAIN alReply
      BY <1>0, <2>1
    <3> QED BY <3>1 DEF C!Outstanding, C!Positions
  <2>2. ASSUME NEW s \in Stacks, slReply[s] # <<>>
        PROVE  <<"slOut", s, 1>> \in C!Outstanding
    <3>1. s \in Nodes /\ 1 \in DOMAIN slReply[s]
      BY <1>0, <2>2, WhitefieldAssumption
    <3> QED BY <3>1 DEF C!Outstanding, C!Positions
  <2>3. \A n, i : <<"alOut", 0, 1>> # <<"moq", 0, i>> /\ <<"slOut", n, 1>> # <<"moq", 0, i>>
    OBVIOUS
  <2> QED BY <2>1, <2>2, <2>3
<1>2. QLen \in Nat /\ Len(moq) \in Nat /\ QLen <= Len(moq)
  BY <1>0, DataPlaneAssumption DEF Full
<1> DEFINE f == [i \in 1..(QLen + 1) |-> IF i <= QLen THEN <<"moq", 0, i>> ELSE h]
<1>3. f \in [1..(QLen + 1) -> C!Outstanding]
  <2>1. ASSUME NEW i \in 1..(QLen + 1), i <= QLen PROVE <<"moq", 0, i>> \in C!Outstanding
    <3>1. i \in DOMAIN moq
      BY <1>0, <1>2, <2>1
    <3> QED BY <3>1 DEF C!Outstanding, C!Positions
  <2> QED BY <1>1, <2>1
<1>4. \A i, j \in 1..(QLen + 1) : f[i] = f[j] => i = j
  BY <1>1, <1>2
<1>5. IsFiniteSet(1..(QLen + 1)) /\ Cardinality(1..(QLen + 1)) = QLen + 1
  BY <1>2, UpToFinite
<1>6. Cardinality(C!Outstanding) \in Nat
  BY FS_CardinalityType
<1> HIDE DEF f
<1>7. ~(Cardinality(C!Outstanding) < Cardinality(1..(QLen + 1)))
  <2> SUFFICES ASSUME Cardinality(C!Outstanding) < Cardinality(1..(QLen + 1))
               PROVE  FALSE
    OBVIOUS
  <2> DEFINE D == 1..(QLen + 1)
  <2>1. /\ IsFiniteSet(D) /\ IsFiniteSet(C!Outstanding)
        /\ Cardinality(C!Outstanding) < Cardinality(D) /\ f \in [D -> C!Outstanding]
    BY <1>3, <1>5
  <2> HIDE DEF D
  <2>2. \E x, y \in D : x # y /\ f[x] = f[y]
    BY <2>1, FS_PigeonHole
  <2> QED BY <1>4, <2>2 DEF D
<1> QED BY <1>2, <1>5, <1>6, <1>7

\* Commands and packets in the same sockets do not lock the processes up
\* before more commands have run out of polls than the MONITOR socket holds
\* replies: a reply that waits for room there is one of a backlog that large,
\* and the monitor waits with nothing else (cl_sendto_q, fwd_cmd_on_commline).
THEOREM WhitefieldNoWaitCycle == WSpec => []NoWaitCycle
<1>1. WInv /\ C!Backlog => NoWaitCycle
  <2> SUFFICES ASSUME WInv, C!Backlog, Threaded, Cardinality(timeouts) <= QLen, WaitCycle
               PROVE  FALSE
    BY DEF NoWaitCycle
  <2>1. /\ mon.pc = "send" /\ Full(moq)
        /\ alReply # <<>> \/ \E s \in Stacks : slReply[s] # <<>>
    BY CycleHolds
  <2>2. IsFiniteSet(C!Outstanding) /\ IsFiniteSet(timeouts)
    BY SameSizes DEF C!Backlog
  <2>3. QLen < Cardinality(C!Outstanding)
    BY <2>1, <2>2, HeldReplyIsBacklog
  <2>4. Cardinality(C!Outstanding) <= Cardinality(timeouts) + 0
    BY <2>1, SameSizes DEF C!Backlog, C!BacklogBounded
  <2>5. Cardinality(C!Outstanding) \in Nat /\ Cardinality(timeouts) \in Nat /\ QLen \in Nat
    BY <2>2, FS_CardinalityType, DataPlaneAssumption
  <2> QED BY <2>3, <2>4, <2>5
<1>2. C!Spec => []C!Backlog
  BY Assumptions, C!BacklogHolds
<1> QED BY <1>1, <1>2, IsOam, WInvAlways, PTL

-----------------------------------------------------------------------------
(* The data plane over the sockets it shares with commands: the packets and *)
(* reports of a queue, in their order, are the queue of a data plane that   *)
(* has it for itself.                                                       *)

AlData == DataIn(alq)
SlData == [s \in Stacks |-> DataIn(slq[s])]

D == INSTANCE DataPlaneProofs WITH alq <- AlData, slq <- SlData

\* Commands may fill a socket that holds few packets, so that a packet waits
\* for room where the data plane alone would have some: that is a step of a data
\* plane whose sockets hold nothing at all.
B == INSTANCE DataPlaneProofs WITH QLen <- 0, alq <- AlData, slq <- SlData

LEMMA DataAssumptions ==
    /\ D!DataPlaneAssumption /\ D!AttemptCapAssumption
    /\ B!DataPlaneAssumption /\ B!AttemptCapAssumption
BY DataPlaneAssumption, AttemptCapAssumption
   DEF D!DataPlaneAssumption, D!Ids, Ids, D!Nodes, Nodes, D!AttemptCapAssumption,
       B!DataPlaneAssumption, B!Ids, B!Nodes, B!AttemptCapAssumption

LEMMA SameCounting ==
    /\ \A S : B!Cardinality(S) = Cardinality(S) /\ D!Cardinality(S) = Cardinality(S)
    /\ \A f : B!SumFunction(f) = SumFunction(f) /\ D!SumFunction(f) = SumFunction(f)
<1>1. \A S : B!Cardinality(S) = Cardinality(S) /\ D!Cardinality(S) = Cardinality(S)
  BY DEF B!Cardinality, D!Cardinality, Cardinality
<1>2. \A f : B!SumFunction(f) = SumFunction(f) /\ D!SumFunction(f) = SumFunction(f)
  BY DEF B!SumFunction, D!SumFunction, SumFunction,
         B!SumFunctionOnSet, D!SumFunctionOnSet, SumFunctionOnSet,
         B!FoldFunctionOnSet, D!FoldFunctionOnSet, FoldFunctionOnSet,
         B!MapThenFoldSet, D!MapThenFoldSet, MapThenFoldSet
<1> QED BY <1>1, <1>2

\* How much the sockets hold is nothing that the promises depend on: first what
\* they are made of, ...
LEMMA SameSets ==
    /\ B!Nodes = D!Nodes
    /\ B!Frames = D!Frames
    /\ B!DataMsgs = D!DataMsgs
    /\ B!AckMsgs = D!AckMsgs
    /\ B!ToStack = D!ToStack
    /\ B!Reports = D!Reports
    /\ \A s : B!DataOf(s) = D!DataOf(s) /\ B!FramesOf(s) = D!FramesOf(s)
    /\ \A q, S : B!Keys(q, S) = D!Keys(q, S)
    /\ \A q, S, R : B!Sorted(q, S, R) <=> D!Sorted(q, S, R)
    /\ B!Inbox = D!Inbox /\ B!Inbox' = D!Inbox'
    /\ B!MacOf = D!MacOf /\ B!MacOf' = D!MacOf'
    /\ B!AsSent = D!AsSent /\ B!AsSent' = D!AsSent'
    /\ B!SentBy = D!SentBy /\ B!SentBy' = D!SentBy'
    /\ B!TakenBy = D!TakenBy /\ B!TakenBy' = D!TakenBy'
    /\ B!ToReport = D!ToReport /\ B!ToReport' = D!ToReport'
    /\ B!AckFor = D!AckFor /\ B!AckFor' = D!AckFor'
    /\ B!DataFor = D!DataFor /\ B!DataFor' = D!DataFor'
    /\ B!ReportFor = D!ReportFor /\ B!ReportFor' = D!ReportFor'
    /\ B!GotFor = D!GotFor /\ B!GotFor' = D!GotFor'
    /\ B!Earlier = D!Earlier /\ B!Earlier' = D!Earlier'
    /\ B!Pending = D!Pending /\ B!Pending' = D!Pending'
    /\ B!NotLater = D!NotLater /\ B!NotLater' = D!NotLater'
    /\ B!PassedOn = D!PassedOn /\ B!PassedOn' = D!PassedOn'
    /\ B!Waiting = D!Waiting /\ B!Waiting' = D!Waiting'
    /\ B!AckSound = D!AckSound /\ B!AckSound' = D!AckSound'
    /\ B!ReportSound = D!ReportSound /\ B!ReportSound' = D!ReportSound'
<1> USE DEF B!Ids, D!Ids, B!Nodes, D!Nodes, B!BCAST, D!BCAST, B!CL_DSTID_MACHDR_PRESENT,
            D!CL_DSTID_MACHDR_PRESENT, B!IN_RANGE, D!IN_RANGE, B!Statuses, D!Statuses,
            B!Frames, D!Frames, B!DataMsgs, D!DataMsgs, B!AckMsgs, D!AckMsgs, B!ToStack,
            D!ToStack, B!Reports, D!Reports, B!Keys, D!Keys, B!DataOf, D!DataOf,
            B!FramesOf, D!FramesOf
<1>1. \A q, S, R : B!Sorted(q, S, R) <=> D!Sorted(q, S, R)
  BY DEF B!Sorted, D!Sorted
<1>2. B!Inbox = D!Inbox /\ B!Inbox' = D!Inbox'
  BY DEF B!Inbox, D!Inbox
<1>3. B!MacOf = D!MacOf /\ B!MacOf' = D!MacOf'
  BY DEF B!MacOf, D!MacOf
<1>4. B!AsSent = D!AsSent /\ B!AsSent' = D!AsSent'
  BY DEF B!AsSent, D!AsSent
<1>5. B!SentBy = D!SentBy /\ B!SentBy' = D!SentBy'
  BY DEF B!SentBy, D!SentBy, B!AsSent, D!AsSent
<1>6. B!TakenBy = D!TakenBy /\ B!TakenBy' = D!TakenBy'
  BY DEF B!TakenBy, D!TakenBy, B!Acceptable, D!Acceptable, B!AsSent, D!AsSent
<1>7. B!ToReport = D!ToReport /\ B!ToReport' = D!ToReport'
  BY DEF B!ToReport, D!ToReport, B!Reportable, D!Reportable, B!Service!Reportable,
         D!Service!Reportable, B!Service!IN_RANGE, D!Service!IN_RANGE, B!Service!BCAST,
         D!Service!BCAST, B!Service!CL_DSTID_MACHDR_PRESENT,
         D!Service!CL_DSTID_MACHDR_PRESENT, B!Service!Accepted, D!Service!Accepted
<1>8. B!AckFor = D!AckFor /\ B!AckFor' = D!AckFor'
  BY DEF B!AckFor, D!AckFor, B!ToReport, D!ToReport, B!Reportable, D!Reportable,
         B!Service!Reportable, D!Service!Reportable, B!Service!IN_RANGE,
         D!Service!IN_RANGE, B!Service!BCAST, D!Service!BCAST,
         B!Service!CL_DSTID_MACHDR_PRESENT, D!Service!CL_DSTID_MACHDR_PRESENT,
         B!Service!Accepted, D!Service!Accepted
<1>9. B!DataFor = D!DataFor /\ B!DataFor' = D!DataFor'
  BY DEF B!DataFor, D!DataFor, B!Acceptable, D!Acceptable, B!Addressed, D!Addressed
<1>10. B!ReportFor = D!ReportFor /\ B!ReportFor' = D!ReportFor'
  BY DEF B!ReportFor, D!ReportFor, B!ToReport, D!ToReport, B!Reportable, D!Reportable,
         B!Service!Reportable, D!Service!Reportable, B!Service!IN_RANGE,
         D!Service!IN_RANGE, B!Service!BCAST, D!Service!BCAST,
         B!Service!CL_DSTID_MACHDR_PRESENT, D!Service!CL_DSTID_MACHDR_PRESENT,
         B!Service!Accepted, D!Service!Accepted
<1>11. B!GotFor = D!GotFor /\ B!GotFor' = D!GotFor'
  BY DEF B!GotFor, D!GotFor
<1>12. B!Earlier = D!Earlier /\ B!Earlier' = D!Earlier'
  BY DEF B!Earlier, D!Earlier
<1>13. B!Pending = D!Pending /\ B!Pending' = D!Pending'
  BY DEF B!Pending, D!Pending, B!MacOf, D!MacOf, B!InSend, D!InSend, B!InMac, D!InMac,
         B!InQueue, D!InQueue
<1>14. B!NotLater = D!NotLater /\ B!NotLater' = D!NotLater'
  BY DEF B!NotLater, D!NotLater
<1>15. B!PassedOn = D!PassedOn /\ B!PassedOn' = D!PassedOn'
  BY DEF B!PassedOn, D!PassedOn
<1>16. B!Waiting = D!Waiting /\ B!Waiting' = D!Waiting'
  BY DEF B!Waiting, D!Waiting
<1>17. B!AckSound = D!AckSound /\ B!AckSound' = D!AckSound'
  BY DEF B!AckSound, D!AckSound, B!Ackable, D!Ackable, B!PassedOn, D!PassedOn
<1>18. B!ReportSound = D!ReportSound /\ B!ReportSound' = D!ReportSound'
  BY DEF B!ReportSound, D!ReportSound, B!Ackable, D!Ackable, B!PassedOn, D!PassedOn
<1> QED BY <1>1, <1>2, <1>3, <1>4, <1>5, <1>6, <1>7, <1>8, <1>9, <1>10, <1>11, <1>12,
           <1>13, <1>14, <1>15, <1>16, <1>17, <1>18

\* ... and so the promises.
LEMMA SameServed == (B!Served <=> D!Served) /\ (B!Served' <=> D!Served')
<1>1. (B!TypeOK <=> D!TypeOK) /\ (B!TypeOK' <=> D!TypeOK')
  BY DEF B!TypeOK, D!TypeOK, B!OutMsgs, D!OutMsgs, B!ToStack, D!ToStack, B!DataMsgs,
         D!DataMsgs, B!AckMsgs, D!AckMsgs, B!Statuses, D!Statuses, B!Nodes, D!Nodes,
         B!Ids, D!Ids, B!Frames, D!Frames, B!StatsType, D!StatsType, B!Attempts,
         D!Attempts, B!Packets, D!Packets
<1>2. (B!Truthful <=> D!Truthful) /\ (B!Truthful' <=> D!Truthful')
  BY SameSets DEF B!Truthful, D!Truthful, B!Genuine, D!Genuine
<1>3. (B!InOrder <=> D!InOrder) /\ (B!InOrder' <=> D!InOrder')
  BY SameSets DEF B!InOrder, D!InOrder, B!Line, D!Line, B!Told, D!Told, B!Coming,
         D!Coming, B!InMac, D!InMac, B!InQueue, D!InQueue, B!InSend, D!InSend
<1>4. (B!OneHeld <=> D!OneHeld) /\ (B!OneHeld' <=> D!OneHeld')
  BY SameSets DEF B!OneHeld, D!OneHeld
<1>5. (B!Covered <=> D!Covered) /\ (B!Covered' <=> D!Covered')
  BY SameSets DEF B!Covered, D!Covered, B!OnTheWay, D!OnTheWay, B!Told, D!Told,
         B!Coming, D!Coming, B!InMac, D!InMac, B!InQueue, D!InQueue, B!InSend, D!InSend
<1>6. (B!DataInOrder <=> D!DataInOrder) /\ (B!DataInOrder' <=> D!DataInOrder')
  BY SameSets DEF B!DataInOrder, D!DataInOrder, B!DataLine, D!DataLine, B!GotFrom,
         D!GotFrom
<1>7. (B!HeardFits <=> D!HeardFits) /\ (B!HeardFits' <=> D!HeardFits')
  BY SameSets DEF B!HeardFits, D!HeardFits
<1>8. (B!HeardPassedOn <=> D!HeardPassedOn) /\ (B!HeardPassedOn' <=> D!HeardPassedOn')
  BY SameSets DEF B!HeardPassedOn, D!HeardPassedOn
<1>9. (B!AcksPassedOn <=> D!AcksPassedOn) /\ (B!AcksPassedOn' <=> D!AcksPassedOn')
  BY SameSets DEF B!AcksPassedOn, D!AcksPassedOn
<1>10. \A n : /\ B!UnicastsInMac(n) = D!UnicastsInMac(n) /\ B!TxSucc(stats[n]) = D!TxSucc(stats[n])
             /\ (B!UnicastsInMac(n))' = (D!UnicastsInMac(n))' /\ (B!TxSucc(stats[n]))' = (D!TxSucc(stats[n]))'
  BY SameCounting DEF B!UnicastsInMac, D!UnicastsInMac, B!TxSucc, D!TxSucc, B!BCAST, D!BCAST
<1>11. \A n : /\ B!AttemptsAndMac(n) = D!AttemptsAndMac(n)
             /\ (B!AttemptsAndMac(n))' = (D!AttemptsAndMac(n))'
  BY <1>10, SameCounting DEF B!AttemptsAndMac, D!AttemptsAndMac
<1>12. (B!NeverOvercounted <=> D!NeverOvercounted) /\ (B!NeverOvercounted' <=> D!NeverOvercounted')
  BY <1>10, <1>11, SameSets DEF B!NeverOvercounted, D!NeverOvercounted
<1>13. (B!StatsBalance <=> D!StatsBalance) /\ (B!StatsBalance' <=> D!StatsBalance')
  BY <1>10, SameCounting, SameSets DEF B!StatsBalance, D!StatsBalance
<1>14. B!AttemptsFit <=> D!AttemptsFit
  BY DEF B!AttemptsFit, D!AttemptsFit
<1>15. (B!Sound <=> D!Sound) /\ (B!Sound' <=> D!Sound')
  BY <1>1, <1>2, <1>3, <1>4, <1>5, <1>6 DEF B!Sound, D!Sound
<1> QED BY <1>7, <1>8, <1>9, <1>12, <1>13, <1>14, <1>15 DEF B!Served, D!Served

\* What is not a command moves as in a queue of its own.
LEMMA SlDataMove ==
    ASSUME slq = [s \in Stacks |-> slq[s]], NEW s \in Stacks, NEW q,
           slq' = [slq EXCEPT ![s] = q]
    PROVE  /\ SlData' = [SlData EXCEPT ![s] = DataIn(q)]
           /\ SlData[s] = DataIn(slq[s])
           /\ DataIn(q) = DataIn(slq[s]) => SlData' = SlData
<1>1. slq'[s] = q /\ \A t \in Stacks : t # s => slq'[t] = slq[t]
  BY SlCmdsMove
<1>2. SlData = [t \in Stacks |-> DataIn(slq[t])]
  BY DEF SlData
<1>3. SlData' = [t \in Stacks |-> DataIn(slq'[t])]
  BY DEF SlData
<1>4. SlData' = [t \in Stacks |-> IF t = s THEN DataIn(q) ELSE SlData[t]]
  BY <1>1, <1>2, <1>3
<1> QED BY <1>2, <1>4

\* A step of the data plane over what is not a command, with room or without;
\* msgReader may also leave its loop, or enter it.
LoopMoves ==
    /\ reading' \in BOOLEAN
    /\ UNCHANGED <<stack, sent, slOut, AlData, mac, tries, heard, stats, alOut, SlData,
                   got, reports, refused>>

DataStep == D!Next \/ B!Next \/ LoopMoves

\* What is sent to a stackline waits for room, or finds it.
LEMMA DataSends ==
    ASSUME Shared, NEW to, NEW m, ~IsCmd(m), SendToStackline(to, m)
    PROVE  D!SendToStackline(to, m) \/ B!SendToStackline(to, m)
<1> USE DEF D!Bound, B!Bound, D!Refuse, B!Refuse
<1>1. CASE ~Bound(to)
  <2>1. Refuse(to, m) /\ UNCHANGED <<alOut, slq>>
    BY <1>1 DEF SendToStackline
  <2>2. SlData' = SlData
    BY <2>1 DEF SlData
  <2> QED BY <1>1, <2>1, <2>2 DEF D!SendToStackline, Bound, Refuse
<1>2. CASE Bound(to)
  <2>1. /\ to \in Stacks /\ AnySeq(slq[to]) /\ slq = [s \in Stacks |-> slq[s]]
        /\ SlData[to] = DataIn(slq[to])
    BY <1>2 DEF Bound, Shared, SlData
  <2>2. /\ Len(slq[to]) \in Nat /\ Len(SlData[to]) \in Nat
        /\ Len(SlData[to]) <= Len(slq[to])
        /\ DataIn(Append(slq[to], m)) = Append(SlData[to], m)
    BY <2>1, DataMoves
  <2>3. CASE /\ Len(slq[to]) < QLen
             /\ slq' = [slq EXCEPT ![to] = Append(@, m)]
             /\ UNCHANGED <<alOut, refused>>
    <3> DEFINE q == Append(slq[to], m)
    <3>0. slq' = [slq EXCEPT ![to] = q] /\ DataIn(q) = Append(SlData[to], m)
      BY <2>2, <2>3
    <3> HIDE DEF q
    <3>1. SlData' = [SlData EXCEPT ![to] = Append(@, m)]
      <4>1. SlData' = [SlData EXCEPT ![to] = DataIn(q)]
        BY <2>1, <3>0, SlDataMove
      <4> QED BY <3>0, <4>1
    <3>2. Len(SlData[to]) < QLen
      BY <2>2, <2>3, DataPlaneAssumption
    <3> QED BY <1>2, <2>3, <3>1, <3>2 DEF D!SendToStackline, Bound
  <2>4. CASE /\ alOut' = <<[to |-> to, msg |-> m]>>
             /\ UNCHANGED <<slq, refused>>
    <3>1. SlData' = SlData
      BY <2>4 DEF SlData
    <3>2. Len(SlData[to]) >= 0
      BY <2>2
    <3> QED BY <1>2, <2>4, <3>1, <3>2 DEF B!SendToStackline, Bound
  <2> QED BY <1>2, <2>3, <2>4 DEF SendToStackline
<1> QED BY <1>1, <1>2

\* msgReader's packets.
LEMMA ReaderSteps ==
    ASSUME Shared, AirlineMsgReader
    PROVE  DataStep
<1>1. SlData' = SlData
  BY DEF SlData, AirlineMsgReader, MsgReaderStart, MsgReaderStop, MsgReaderDrop, MsgReaderSend
<1>2. CASE MsgReaderStart \/ MsgReaderStop
  <2>1. AlData' = AlData
    BY <1>2 DEF AlData, MsgReaderStart, MsgReaderStop
  <2>2. LoopMoves
    BY <1>1, <1>2, <2>1
    DEF LoopMoves, MsgReaderStart, MsgReaderStop, stackVars, macVars, historyVars
  <2> QED BY <2>2 DEF DataStep
<1>3. CASE DataNext(alq) /\ (MsgReaderDrop \/ MsgReaderSend)
  <2>1. AnySeq(alq) /\ alq # <<>> /\ ~IsCmd(Head(alq)) /\ alq' = Tail(alq)
    BY <1>3 DEF Shared, DataNext, MsgReaderDrop, MsgReaderSend
  <2>2. AlData # <<>> /\ Head(AlData) = Head(alq) /\ AlData' = Tail(AlData)
    BY <2>1, DataMoves DEF AlData
  <2>3. \A m : D!Acceptable(m) <=> Acceptable(m)
    BY DEF D!Acceptable, Acceptable, D!IN_RANGE, IN_RANGE, D!CL_DSTID_MACHDR_PRESENT,
           CL_DSTID_MACHDR_PRESENT
  <2>4. \A st, dst : D!set_tx_stats(st, dst) = set_tx_stats(st, dst)
    BY DEF D!set_tx_stats, set_tx_stats, D!BCAST, BCAST
  <2> USE DEF stackVars, macVars, historyVars, D!stackVars, D!macVars, D!historyVars
  <2>5. CASE MsgReaderDrop
    <3>1. D!MsgReaderDrop
      BY <1>1, <2>2, <2>3, <2>5 DEF MsgReaderDrop, D!MsgReaderDrop
    <3> QED BY <3>1 DEF DataStep, D!Next, D!MsgReader
  <2>6. CASE MsgReaderSend
    <3>1. D!MsgReaderSend
      BY <1>1, <2>2, <2>3, <2>4, <2>6 DEF MsgReaderSend, D!MsgReaderSend
    <3> QED BY <3>1 DEF DataStep, D!Next, D!MsgReader
  <2> QED BY <1>3, <2>5, <2>6
<1> QED BY <1>2, <1>3 DEF AirlineMsgReader

\* Airline's other events: a packet is handed up, an outcome reported, a frame
\* transmitted again, and what waits to be sent.
LEMMA SameOperators ==
    /\ B!Nodes = Nodes /\ D!Nodes = Nodes
    /\ B!MacStatuses = MacStatuses /\ D!MacStatuses = MacStatuses
    /\ \A st, dst : /\ B!set_data_stats(st, dst) = set_data_stats(st, dst)
                    /\ D!set_data_stats(st, dst) = set_data_stats(st, dst)
    /\ \A st, status, n : /\ B!set_ack_stats(st, status, n) = set_ack_stats(st, status, n)
                          /\ D!set_ack_stats(st, status, n) = set_ack_stats(st, status, n)
    /\ \A st : B!wf_ack_status(st) = wf_ack_status(st) /\ D!wf_ack_status(st) = wf_ack_status(st)
    /\ \A f, r : (B!Addressed(f, r) <=> Addressed(f, r)) /\ (D!Addressed(f, r) <=> Addressed(f, r))
    /\ \A f : (B!AckRequested(f) <=> AckRequested(f)) /\ (D!AckRequested(f) <=> AckRequested(f))
    /\ \A q, i : B!RemoveAt(q, i) = RemoveAt(q, i) /\ D!RemoveAt(q, i) = RemoveAt(q, i)
<1> USE DEF B!BCAST, D!BCAST, BCAST, B!IN_RANGE, D!IN_RANGE, IN_RANGE,
            B!CL_DSTID_MACHDR_PRESENT, D!CL_DSTID_MACHDR_PRESENT, CL_DSTID_MACHDR_PRESENT
<1>1. B!Nodes = Nodes /\ D!Nodes = Nodes
  BY DEF B!Nodes, D!Nodes, Nodes
<1>2. B!MacStatuses = MacStatuses /\ D!MacStatuses = MacStatuses
  BY DEF B!MacStatuses, D!MacStatuses, MacStatuses
<1>3. \A st, dst : /\ B!set_data_stats(st, dst) = set_data_stats(st, dst)
                   /\ D!set_data_stats(st, dst) = set_data_stats(st, dst)
  BY DEF B!set_data_stats, D!set_data_stats, set_data_stats
<1>4. \A st, status, n : /\ B!set_ack_stats(st, status, n) = set_ack_stats(st, status, n)
                         /\ D!set_ack_stats(st, status, n) = set_ack_stats(st, status, n)
  BY DEF B!set_ack_stats, D!set_ack_stats, set_ack_stats
<1>5. \A st : B!wf_ack_status(st) = wf_ack_status(st) /\ D!wf_ack_status(st) = wf_ack_status(st)
  BY DEF B!wf_ack_status, D!wf_ack_status, wf_ack_status
<1>6. \A f, r : (B!Addressed(f, r) <=> Addressed(f, r)) /\ (D!Addressed(f, r) <=> Addressed(f, r))
  BY DEF B!Addressed, D!Addressed, Addressed
<1>7. \A f : (B!AckRequested(f) <=> AckRequested(f)) /\ (D!AckRequested(f) <=> AckRequested(f))
  BY DEF B!AckRequested, D!AckRequested, AckRequested
<1>8. \A q, i : B!RemoveAt(q, i) = RemoveAt(q, i) /\ D!RemoveAt(q, i) = RemoveAt(q, i)
  BY DEF B!RemoveAt, D!RemoveAt, RemoveAt
<1> QED BY <1>1, <1>2, <1>3, <1>4, <1>5, <1>6, <1>7, <1>8

LEMMA IndicationSteps ==
    ASSUME Shared, NEW n \in Nodes, NEW r \in Nodes, DataIndication(n, r)
    PROVE  DataStep
<1> DEFINE f == Head(mac[n])
           m == [kind |-> "data", src |-> f.src, dst |-> f.dst, seq |-> f.seq]
<1>1. D!SendToStackline(r, m) \/ B!SendToStackline(r, m)
  <2>1. SendToStackline(r, m)
    BY DEF DataIndication, SendPacketToStackline
  <2>2. ~IsCmd(m)
    BY DataHasNoCmd
  <2> HIDE DEF m
  <2> QED BY <2>1, <2>2, DataSends
<1>2. AlData' = AlData
  BY DEF DataIndication, AlData
<1> HIDE DEF m
<1>3. /\ Idle /\ mac[n] # <<>> /\ f.fits /\ r # n /\ r \notin heard[n] /\ Addressed(f, r)
      /\ stats' = [stats EXCEPT ![f.src] = set_data_stats(@, f.dst)]
      /\ heard' = [heard EXCEPT ![n] = @ \cup {r}]
      /\ UNCHANGED <<stack, sent, slOut, reading, mac, tries, got, reports>>
  BY DEF DataIndication, SendPacketToStackline, stackVars
<1>4. CASE D!SendToStackline(r, m)
  <2>1. D!DataIndication(n, r)
    BY <1>2, <1>3, <1>4, SameOperators
    DEF D!DataIndication, D!SendPacketToStackline, D!Idle, Idle, D!stackVars, m
  <2> QED BY <2>1, SameOperators DEF DataStep, D!Next
<1>5. CASE B!SendToStackline(r, m)
  <2>1. B!DataIndication(n, r)
    BY <1>2, <1>3, <1>5, SameOperators
    DEF B!DataIndication, B!SendPacketToStackline, B!Idle, Idle, B!stackVars, m
  <2> QED BY <2>1, SameOperators DEF DataStep, B!Next
<1> QED BY <1>1, <1>4, <1>5

LEMMA ConfirmSteps ==
    ASSUME Shared, NEW n, NEW f, NEW st, DataConfirm(n, f, st)
    PROVE  D!DataConfirm(n, f, st) \/ B!DataConfirm(n, f, st)
<1> DEFINE status  == wf_ack_status(st)
           retries == IF status = "ACK_OK" THEN tries[n] + 1 ELSE 0
           m == [kind |-> "ack", src |-> n, dst |-> f.dst, seq |-> f.seq,
                 status |-> status, retries |-> retries]
<1> USE DEF D!BCAST, B!BCAST, BCAST
<1>1. CASE f.dst = BCAST
  <2>1. UNCHANGED <<stats, alOut, slq, refused>>
    BY <1>1 DEF DataConfirm
  <2>2. SlData' = SlData
    BY <2>1 DEF SlData
  <2> QED BY <1>1, <2>1, <2>2 DEF D!DataConfirm
<1>2. CASE f.dst # BCAST
  <2>1. /\ stats' = [stats EXCEPT ![n] = set_ack_stats(@, status, retries)]
        /\ SendToStackline(n, m)
    BY <1>2 DEF DataConfirm, SendAckToStackline
  <2>2. ~IsCmd(m)
    BY DataHasNoCmd
  <2>3. D!SendToStackline(n, m) \/ B!SendToStackline(n, m)
    <3> HIDE DEF m
    <3> QED BY <2>1, <2>2, DataSends
  <2>4. CASE D!SendToStackline(n, m)
    <3>1. D!SendAckToStackline(n, f, status, tries[n] + 1)
      <4>1. stats' = [stats EXCEPT ![n] = D!set_ack_stats(@, status, retries)]
        BY <2>1, SameOperators
      <4> HIDE DEF status
      <4> QED BY <2>4, <4>1 DEF D!SendAckToStackline
    <3>2. D!wf_ack_status(st) = status
      BY SameOperators
    <3> HIDE DEF status
    <3> QED BY <1>2, <3>1, <3>2 DEF D!DataConfirm
  <2>5. CASE B!SendToStackline(n, m)
    <3>1. B!SendAckToStackline(n, f, status, tries[n] + 1)
      <4>1. stats' = [stats EXCEPT ![n] = B!set_ack_stats(@, status, retries)]
        BY <2>1, SameOperators
      <4> HIDE DEF status
      <4> QED BY <2>5, <4>1 DEF B!SendAckToStackline
    <3>2. B!wf_ack_status(st) = status
      BY SameOperators
    <3> HIDE DEF status
    <3> QED BY <1>2, <3>1, <3>2 DEF B!DataConfirm
  <2> QED BY <2>3, <2>4, <2>5
<1> QED BY <1>1, <1>2

LEMMA MacSteps ==
    ASSUME Shared, NEW n \in Nodes, MacStep(n)
    PROVE  DataStep
<1> USE DEF stackVars, historyVars, D!stackVars, B!stackVars, D!historyVars, Idle, D!Idle, B!Idle
<1>1. AlData' = AlData
  BY DEF MacStep, MacRetry, MacDone, MacReject, AlData
<1>2. CASE MacRetry(n)
  <2>1. SlData' = SlData
    BY <1>2 DEF MacRetry, SlData
  <2>2. D!MacRetry(n)
    BY <1>1, <1>2, <2>1, SameOperators DEF MacRetry, D!MacRetry
  <2> QED BY <2>2, SameOperators DEF DataStep, D!Next, D!MacStep
<1>3. ASSUME NEW st \in MacStatuses, MacDone(n, st) PROVE DataStep
  <2>1. D!DataConfirm(n, Head(mac[n]), st) \/ B!DataConfirm(n, Head(mac[n]), st)
    BY <1>3, ConfirmSteps DEF MacDone
  <2>2. (D!Outcome(n, st) <=> Outcome(n, st)) /\ (B!Outcome(n, st) <=> Outcome(n, st))
    BY SameOperators DEF D!Outcome, B!Outcome, Outcome, D!CL_DSTID_MACHDR_PRESENT,
       B!CL_DSTID_MACHDR_PRESENT, CL_DSTID_MACHDR_PRESENT
  <2>3. D!MacDone(n, st) \/ B!MacDone(n, st)
    BY <1>1, <1>3, <2>1, <2>2 DEF MacDone, D!MacDone, B!MacDone
  <2> QED BY <2>3, SameOperators DEF DataStep, D!Next, D!MacStep, B!Next, B!MacStep
<1>4. ASSUME NEW i \in DOMAIN mac[n], MacReject(n, i) PROVE DataStep
  <2>1. \/ D!DataConfirm(n, mac[n][i], "FRAME_TOO_LONG")
        \/ B!DataConfirm(n, mac[n][i], "FRAME_TOO_LONG")
    BY <1>4, ConfirmSteps DEF MacReject
  <2>2. D!MacReject(n, i) \/ B!MacReject(n, i)
    BY <1>1, <1>4, <2>1, SameOperators DEF MacReject, D!MacReject, B!MacReject
  <2> QED BY <2>2, SameOperators DEF DataStep, D!Next, D!MacStep, B!Next, B!MacStep
<1> QED BY <1>2, <1>3, <1>4 DEF MacStep

LEMMA UnblockSteps ==
    ASSUME Shared, AirlineUnblock
    PROVE  DataStep
<1> DEFINE o == Head(alOut)
<1> USE DEF D!Refuse, Refuse, D!Bound, Bound, D!stackVars, stackVars, D!macVars, macVars
<1>1. alOut # <<>> /\ ~IsCmd(o.msg) /\ AlData' = AlData
  BY DEF AirlineUnblock, Shared, AlData
<1>2. CASE ~Bound(o.to)
  <2>1. SlData' = SlData
    BY <1>2 DEF AirlineUnblock, SlData
  <2>2. D!AirlineUnblock
    BY <1>1, <1>2, <2>1 DEF AirlineUnblock, D!AirlineUnblock
  <2> QED BY <2>2 DEF DataStep, D!Next
<1>3. CASE Bound(o.to)
  <2>1. /\ o.to \in Stacks /\ AnySeq(slq[o.to]) /\ slq = [s \in Stacks |-> slq[s]]
        /\ SlData[o.to] = DataIn(slq[o.to])
    BY <1>3 DEF Shared, SlData
  <2>2. /\ Len(slq[o.to]) < QLen
        /\ slq' = [slq EXCEPT ![o.to] = Append(@, o.msg)]
    BY <1>3 DEF AirlineUnblock
  <2>3. /\ Len(slq[o.to]) \in Nat /\ Len(SlData[o.to]) \in Nat
        /\ Len(SlData[o.to]) <= Len(slq[o.to])
        /\ DataIn(Append(slq[o.to], o.msg)) = Append(SlData[o.to], o.msg)
    BY <1>1, <2>1, DataMoves
  <2> DEFINE q == Append(slq[o.to], o.msg)
  <2>4. slq' = [slq EXCEPT ![o.to] = q] /\ DataIn(q) = Append(SlData[o.to], o.msg)
    BY <2>2, <2>3
  <2> HIDE DEF q
  <2>5. SlData' = [SlData EXCEPT ![o.to] = Append(@, o.msg)]
    <3>1. SlData' = [SlData EXCEPT ![o.to] = DataIn(q)]
      BY <2>1, <2>4, SlDataMove
    <3> QED BY <2>4, <3>1, SMTT(30)
  <2>6. Len(SlData[o.to]) < QLen
    <3> DEFINE j == Len(slq[o.to])
               k == Len(SlData[o.to])
    <3>1. j \in Nat /\ k \in Nat /\ k <= j /\ j < QLen /\ QLen \in Nat
      BY <2>2, <2>3, DataPlaneAssumption
    <3> HIDE DEF j, k
    <3>2. k < QLen
      BY <3>1
    <3> QED BY <3>2 DEF k
  <2>7. D!AirlineUnblock
    BY <1>1, <1>3, <2>5, <2>6 DEF AirlineUnblock, D!AirlineUnblock
  <2> QED BY <2>7 DEF DataStep, D!Next
<1> QED BY <1>2, <1>3

\* Stacklines and their packets.
LEMMA StackSendSteps ==
    ASSUME Shared, NEW s \in Stacks, StackSend(s)
    PROVE  DataStep
<1>1. PICK dst \in Dsts \ {s}, fits \in Sizes :
         LET m == [src |-> s, dst |-> dst, fits |-> fits, seq |-> Len(sent[s]) + 1]
         IN  /\ sent' = [sent EXCEPT ![s] = Append(@, [dst |-> dst, fits |-> fits])]
             /\ \/ Len(alq) < QLen /\ alq' = Append(alq, m) /\ UNCHANGED slOut
                \/ slOut' = [slOut EXCEPT ![s] = <<m>>] /\ UNCHANGED alq
  BY DEF StackSend
<1> DEFINE m == [src |-> s, dst |-> dst, fits |-> fits, seq |-> Len(sent[s]) + 1]
<1>2. /\ stack[s] = "up" /\ slOut[s] = <<>> /\ Len(sent[s]) < MaxPkts[s]
      /\ UNCHANGED <<stack, reading, macVars, stats, alOut, slq, historyVars>>
  BY DEF StackSend
<1>3. SlData' = SlData
  BY <1>2 DEF SlData
<1>4. /\ Len(alq) \in Nat /\ Len(AlData) \in Nat /\ Len(AlData) <= Len(alq)
      /\ DataIn(Append(alq, m)) = Append(AlData, m)
  <2>1. AnySeq(alq) /\ ~IsCmd(m)
    BY DataHasNoCmd DEF Shared
  <2> HIDE DEF m
  <2> QED BY <2>1, DataMoves DEF AlData
<1> USE DEF macVars, historyVars
<1>5. CASE Len(alq) < QLen /\ alq' = Append(alq, m) /\ UNCHANGED slOut
  <2>1. Len(AlData) < QLen /\ AlData' = Append(AlData, m)
    BY <1>4, <1>5, DataPlaneAssumption DEF AlData
  <2>2. D!StackSend(s)
    BY <1>1, <1>2, <1>3, <1>5, <2>1 DEF D!StackSend, D!macVars, D!historyVars
  <2> QED BY <2>2 DEF DataStep, D!Next, D!StackStep
<1>6. CASE slOut' = [slOut EXCEPT ![s] = <<m>>] /\ UNCHANGED alq
  <2>1. Len(AlData) >= 0 /\ AlData' = AlData
    BY <1>4, <1>6 DEF AlData
  <2>2. B!StackSend(s)
    BY <1>1, <1>2, <1>3, <1>6, <2>1 DEF B!StackSend, B!macVars, B!historyVars
  <2> QED BY <2>2 DEF DataStep, B!Next, B!StackStep
<1> QED BY <1>1, <1>5, <1>6

LEMMA StackDataMoves ==
    ASSUME Shared, NEW s \in Stacks
    PROVE  /\ WStackStart(s) => DataStep
           /\ WStackDie(s) => DataStep
           /\ WStackSend(s) => DataStep
           /\ WStackUnblock(s) => DataStep
           /\ WStackRecv(s) => DataStep
<1> USE DEF macVars, D!macVars, stackVars, D!stackVars, historyVars, D!historyVars
<1>0. /\ slq = [t \in Stacks |-> slq[t]]
      /\ SlData[s] = DataIn(slq[s])
      /\ AnySeq(alq) /\ AnySeq(slq[s])
      /\ slOut[s] # <<>> => ~IsCmd(Head(slOut[s]))
  BY DEF Shared, SlData
<1>1. ASSUME WStackStart(s) PROVE DataStep
  <2>1. AlData' = AlData /\ SlData' = SlData
    BY <1>1 DEF WStackStart, StackStart, AlData, SlData
  <2>2. D!StackStart(s)
    BY <1>1, <2>1 DEF WStackStart, StackStart, D!StackStart
  <2> QED BY <2>2 DEF DataStep, D!Next, D!StackStep
<1>2. ASSUME WStackDie(s) PROVE DataStep
  <2>1. AlData' = AlData
    BY <1>2 DEF WStackDie, StackDie, AlData
  <2>2. SlData' = [SlData EXCEPT ![s] = <<>>]
    <3>1. slq' = [slq EXCEPT ![s] = <<>>]
      BY <1>2 DEF WStackDie, StackDie
    <3> QED BY <1>0, <3>1, SlDataMove, NoQueue
  <2>3. D!StackDie(s)
    BY <1>2, <2>1, <2>2 DEF WStackDie, StackDie, D!StackDie
  <2> QED BY <2>3 DEF DataStep, D!Next, D!StackStep
<1>3. ASSUME WStackSend(s) PROVE DataStep
  BY <1>3, StackSendSteps DEF WStackSend
<1>4. ASSUME WStackUnblock(s) PROVE DataStep
  <2>1. SlData' = SlData
    BY <1>4 DEF WStackUnblock, StackUnblock, SlData
  <2>2. /\ slOut[s] # <<>> /\ Len(alq) < QLen /\ alq' = Append(alq, Head(slOut[s]))
    BY <1>4 DEF WStackUnblock, StackUnblock
  <2>3. /\ Len(alq) \in Nat /\ Len(AlData) \in Nat /\ Len(AlData) <= Len(alq)
        /\ AlData' = Append(AlData, Head(slOut[s]))
    <3> DEFINE m == Head(slOut[s])
    <3>1. ~IsCmd(m) /\ AlData = DataIn(alq) /\ AlData' = DataIn(Append(alq, m))
      BY <1>0, <2>2 DEF AlData
    <3> HIDE DEF m
    <3>2. DataIn(Append(alq, m)) = Append(DataIn(alq), m)
      BY <1>0, <3>1, DataMoves
    <3>3. Len(alq) \in Nat /\ Len(AlData) \in Nat /\ Len(AlData) <= Len(alq)
      BY <1>0, <3>1, DataMoves
    <3> QED BY <3>1, <3>2, <3>3 DEF m
  <2>4. Len(AlData) < QLen
    BY <2>2, <2>3, DataPlaneAssumption
  <2>5. D!StackUnblock(s)
    BY <1>4, <2>1, <2>3, <2>4 DEF WStackUnblock, StackUnblock, D!StackUnblock
  <2> QED BY <2>5 DEF DataStep, D!Next, D!StackStep
<1>5. ASSUME WStackRecv(s) PROVE DataStep
  <2> DEFINE q == Tail(slq[s])
  <2>1. slq[s] # <<>> /\ ~IsCmd(Head(slq[s])) /\ slq' = [slq EXCEPT ![s] = q]
    BY <1>5 DEF WStackRecv, StackRecv, DataNext
  <2>2. /\ SlData[s] # <<>> /\ Head(SlData[s]) = Head(slq[s])
        /\ DataIn(q) = Tail(SlData[s])
    BY <1>0, <2>1, DataMoves
  <2> HIDE DEF q
  <2>3. SlData' = [SlData EXCEPT ![s] = Tail(@)]
    <3>1. SlData' = [SlData EXCEPT ![s] = DataIn(q)]
      BY <1>0, <2>1, SlDataMove
    <3> QED BY <2>2, <3>1
  <2>4. AlData' = AlData
    BY <1>5 DEF WStackRecv, StackRecv, AlData
  <2>5. D!StackRecv(s)
    BY <1>5, <2>2, <2>3, <2>4 DEF WStackRecv, StackRecv, D!StackRecv
  <2> QED BY <2>5 DEF DataStep, D!Next, D!StackStep
<1> QED BY <1>1, <1>2, <1>3, <1>4, <1>5

\* Commands and replies leave the packets alone.
LEMMA CommandMoves ==
    ASSUME WInv, D!TypeOK
    PROVE  /\ \A c \in Clients : ClientStep(c) => DataStep
           /\ MonitorStep => DataStep
           /\ AirlineCmd => DataStep
           /\ AirlineReplyUnblock => DataStep
           /\ \A s \in Stacks : StackCmd(s) \/ StackReplyUnblock(s) => DataStep
<1>1. reading \in BOOLEAN /\ Shared
  BY DEF D!TypeOK, WInv
<1>2. ASSUME UNCHANGED <<stack, sent, slOut, macVars, stats, alOut, historyVars>>,
             AlData' = AlData, SlData' = SlData, reading' \in BOOLEAN
      PROVE  DataStep
  BY <1>2 DEF DataStep, LoopMoves, macVars, historyVars
<1>3. ASSUME UNCHANGED vars PROVE DataStep
  BY <1>1, <1>2, <1>3 DEF vars, AlData, SlData, macVars, historyVars
<1>4. ASSUME NEW q, AnySeq(q), NEW m, IsCmd(m)
      PROVE  DataIn(Append(q, m)) = DataIn(q)
  BY <1>4, DataMoves
<1>5. ASSUME NEW q, AnySeq(q), q # <<>>, IsCmd(Head(q))
      PROVE  DataIn(Tail(q)) = DataIn(q)
  BY <1>5, DataMoves
<1>6. ASSUME MonitorStep PROVE DataStep
  <2>1. CASE UNCHANGED vars
    BY <1>3, <2>1
  <2>2. CASE UNCHANGED <<dataRest, stack>> /\ O!MonitorSend
    <3> DEFINE r == O!Req
               s == O!SrcId(O!Cmd)
    <3>1. IsCmd(r)
      BY <2>2, MonitorSends
    <3>2. \/ alq' = Append(alq, r) /\ UNCHANGED slq
          \/ /\ s \in Stacks /\ slq' = [slq EXCEPT ![s] = Append(@, r)]
             /\ UNCHANGED alq
          \/ UNCHANGED <<alq, slq>>
      BY <2>2, WhitefieldAssumption DEF O!MonitorSend, O!Bound
    <3> HIDE DEF r, s
    <3>3. AlData' = AlData
      BY <1>1, <1>4, <3>1, <3>2 DEF AlData, Shared
    <3>4. SlData' = SlData
      <4>1. ASSUME s \in Stacks, slq' = [slq EXCEPT ![s] = Append(@, r)]
            PROVE  SlData' = SlData
        <5> DEFINE q == Append(slq[s], r)
        <5>1. slq' = [slq EXCEPT ![s] = q]
          BY <4>1
        <5>2. DataIn(q) = DataIn(slq[s])
          BY <1>1, <1>4, <3>1, <4>1 DEF Shared
        <5> HIDE DEF q
        <5> QED BY <1>1, <4>1, <5>1, <5>2, SlDataMove DEF Shared
      <4>2. UNCHANGED slq => SlData' = SlData
        BY DEF SlData
      <4> QED BY <3>2, <4>1, <4>2
    <3>5. UNCHANGED <<stack, sent, slOut, reading, macVars, stats, alOut, historyVars>>
      BY <2>2 DEF dataRest
    <3> QED BY <1>1, <1>2, <3>3, <3>4, <3>5
  <2> QED BY <1>6, <2>1, <2>2 DEF MonitorStep
<1>7. ASSUME AirlineCmd PROVE DataStep
  <2>1. /\ alq # <<>> /\ IsCmd(Head(alq)) /\ alq' = Tail(alq) /\ UNCHANGED slq
        /\ reading' \in BOOLEAN
        /\ UNCHANGED <<stack, sent, slOut, macVars, stats, alOut, historyVars>>
    BY <1>7 DEF AirlineCmd, CmdNext, stackVars, O!AirlineCmd
  <2>2. AlData' = AlData
    BY <1>1, <1>5, <2>1 DEF AlData, Shared
  <2>3. SlData' = SlData
    BY <2>1 DEF SlData
  <2> QED BY <1>2, <2>1, <2>2, <2>3
<1>8. ASSUME NEW s \in Stacks, StackCmd(s) PROVE DataStep
  <2> DEFINE q == Tail(slq[s])
  <2>1. /\ slq[s] # <<>> /\ IsCmd(Head(slq[s])) /\ slq' = [slq EXCEPT ![s] = q]
        /\ UNCHANGED <<stack, sent, slOut, alq, reading, macVars, stats, alOut, historyVars>>
    BY <1>8 DEF StackCmd, CmdNext, stackVars, O!StackCmd
  <2>2. DataIn(q) = DataIn(slq[s])
    BY <1>1, <1>5, <2>1 DEF Shared
  <2> HIDE DEF q
  <2>3. SlData' = SlData
    BY <1>1, <2>1, <2>2, SlDataMove DEF Shared
  <2>4. AlData' = AlData
    BY <2>1 DEF AlData
  <2> QED BY <1>1, <1>2, <2>1, <2>3, <2>4
<1> QED BY <1>3, <1>6, <1>7, <1>8 DEF ClientStep, AirlineReplyUnblock, StackReplyUnblock

LEMMA EveryDataStep ==
    ASSUME WInv, D!TypeOK, [WNext]_wfVars
    PROVE  DataStep
<1>0. Shared
  BY DEF WInv
<1>1. CASE UNCHANGED wfVars
  BY <1>1 DEF wfVars, vars, DataStep, LoopMoves, D!TypeOK, AlData, SlData
<1>2. CASE WNext
  BY <1>0, <1>2, CommandMoves, ReaderSteps, UnblockSteps, IndicationSteps, MacSteps,
     StackDataMoves
  DEF WNext, WStack, Radio
<1> QED BY <1>1, <1>2

-----------------------------------------------------------------------------
(* What the data plane promises holds with commands in the sockets.         *)

LEMMA SameService ==
    /\ B!Service!SNext <=> Service!SNext
    /\ D!Service!SNext <=> Service!SNext
<1> USE DEF B!Service!IN_RANGE, D!Service!IN_RANGE, Service!IN_RANGE,
            B!Service!BCAST, D!Service!BCAST, Service!BCAST,
            B!Service!CL_DSTID_MACHDR_PRESENT, D!Service!CL_DSTID_MACHDR_PRESENT,
            Service!CL_DSTID_MACHDR_PRESENT,
            B!Service!Accepted, D!Service!Accepted, Service!Accepted,
            B!Service!Reportable, D!Service!Reportable, Service!Reportable,
            B!Service!Reported, D!Service!Reported, Service!Reported
<1>1. \A s : /\ B!Service!Start(s) <=> Service!Start(s)
             /\ D!Service!Start(s) <=> Service!Start(s)
  BY DEF B!Service!Start, D!Service!Start, Service!Start
<1>2. \A s : /\ B!Service!Die(s) <=> Service!Die(s)
             /\ D!Service!Die(s) <=> Service!Die(s)
  BY DEF B!Service!Die, D!Service!Die, Service!Die
<1>3. \A s : /\ B!Service!Submit(s) <=> Service!Submit(s)
             /\ D!Service!Submit(s) <=> Service!Submit(s)
  BY DEF B!Service!Submit, D!Service!Submit, Service!Submit
<1>4. \A r, s, k : /\ B!Service!Deliver(r, s, k) <=> Service!Deliver(r, s, k)
                   /\ D!Service!Deliver(r, s, k) <=> Service!Deliver(r, s, k)
  BY DEF B!Service!Deliver, D!Service!Deliver, Service!Deliver
<1>5. \A s, k, st : /\ B!Service!Report(s, k, st) <=> Service!Report(s, k, st)
                    /\ D!Service!Report(s, k, st) <=> Service!Report(s, k, st)
  BY DEF B!Service!Report, D!Service!Report, Service!Report
<1> QED BY <1>1, <1>2, <1>3, <1>4, <1>5 DEF B!Service!SNext, D!Service!SNext, Service!SNext

LEMMA DataFirst == WInit => D!Served
<1> SUFFICES ASSUME WInit PROVE D!Served
  OBVIOUS
<1>1. AlData = <<>> /\ SlData = [s \in Stacks |-> <<>>]
  BY NoQueue DEF WInit, Init, AlData, SlData
<1>2. D!NoStats = NoStats
  BY DEF D!NoStats, NoStats, D!Attempts, Attempts
<1>3. D!Init
  BY <1>1, <1>2, SameOperators DEF WInit, Init, D!Init
<1> QED BY <1>3, DataAssumptions, D!ServedFirst

LEMMA DataKept ==
    ASSUME WInv, D!Served, [WNext]_wfVars
    PROVE  D!Served' /\ (Service!SNext \/ UNCHANGED <<stack, sent, got, reports>>)
<1>1. DataStep
  BY EveryDataStep DEF D!Served, D!Sound
<1>2. CASE D!Next
  <2>1. [D!Next]_(D!vars)
    BY <1>2
  <2> QED BY <2>1, DataAssumptions, D!ServedKept, SameService
<1>3. CASE B!Next
  <2>1. [B!Next]_(B!vars) /\ B!Served
    BY <1>3, SameServed
  <2>2. B!Served' /\ (B!Service!SNext \/ UNCHANGED <<stack, sent, got, reports>>)
    BY <2>1, DataAssumptions, B!ServedKept
  <2> QED BY <2>2, SameServed, SameService
<1>4. CASE LoopMoves
  BY <1>4, DataAssumptions, D!LoopAlone DEF LoopMoves
<1> QED BY <1>1, <1>2, <1>3, <1>4 DEF DataStep

LEMMA DataHolds == WSpec => []D!Served
<1>1. WInv /\ D!Served /\ [WNext]_wfVars => D!Served'
  BY DataKept
<1> QED BY <1>1, DataFirst, WInvAlways, PTL DEF WSpec

\* Packets and reports that share their sockets with commands and replies are
\* served as if they had them for themselves: whatever waits for what, packets
\* of one sender arrive in order, and every unicast is reported once at most
\* and, if the PHY can carry it, after the earlier ones (msgReader,
\* msgrecvCallback, DataIndication, DataConfirm, fwd_cmd_on_commline).
THEOREM WhitefieldImplementsService == WSpec => ImplementsService
<1>1. WInit => Service!SInit
  BY DEF WInit, Init, Service!SInit
<1>2. WInv /\ D!Served /\ [WNext]_wfVars => [Service!SNext]_(Service!serviceVars)
  BY DataKept DEF Service!serviceVars
<1> QED BY <1>1, <1>2, DataHolds, WInvAlways, PTL
        DEF WSpec, ImplementsService, Service!ServiceSpec

\* A packet of the data plane's queue is one of the socket.
LEMMA DataHeld ==
    ASSUME WInv, NEW r \in Stacks, NEW s, NEW k, D!Holds(r, s, k)
    PROVE  Holds(r, s, k)
<1> DEFINE q == slq[r]
           S == {q[i] : i \in DOMAIN q}
<1>1. AnySeq(q) /\ SlData[r] = DataIn(q)
  BY DEF WInv, Shared, SlData
<1>2. q \in Seq(S)
  BY <1>1 DEF AnySeq
<1>3. \A j \in DOMAIN DataIn(q) : DataIn(q)[j] \in S
  <2> HIDE DEF q, S
  <2>1. DataIn(q) \in Seq({m \in S : IsA("data", m)})
    BY <1>2, OnlyTyped DEF DataIn
  <2> QED BY <2>1
<1> QED BY <1>1, <1>3 DEF D!Holds, Holds

\* A packet that is acknowledged has been passed on, also when commands keep
\* Airline or the addressee's stackline busy, or fill its socket: Airline waits
\* in SendPacketToStackline before the sender's DataConfirm runs.
THEOREM WhitefieldAcksArePassedOn == WSpec => []AckedIsPassedOn
<1>1. D!Served => D!AckedIsPassedOn
  BY DataAssumptions, D!AcksSound DEF D!Served
<1>2. WInv /\ D!AckedIsPassedOn => AckedIsPassedOn
  BY DataHeld, SMTT(30) DEF AckedIsPassedOn, D!AckedIsPassedOn,
                  CL_DSTID_MACHDR_PRESENT, D!CL_DSTID_MACHDR_PRESENT
<1> QED BY <1>1, <1>2, DataHolds, WInvAlways, PTL

\* A node's counters balance with commands in the same sockets: msgReader counts
\* no command, and a command does no more to the counters than print them.
THEOREM WhitefieldStatsAreBalanced ==
    ASSUME D!AttemptsFit
    PROVE  WSpec => []StatsBalance
<1>1. D!Served => StatsBalance
  <2> SUFFICES ASSUME D!StatsBalance PROVE StatsBalance
    BY DEF D!Served
  <2> QED BY SameCounting, SameOperators
          DEF D!StatsBalance, StatsBalance, D!UnicastsInMac, UnicastsInMac,
              D!TxSucc, TxSucc, D!BCAST, BCAST
<1> QED BY <1>1, DataHolds, PTL

=============================================================================
