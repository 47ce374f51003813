----------------------------- MODULE ConfigProofs ---------------------------
(***************************************************************************)
(* The configuration parser never writes past the end of its table of      *)
(* nodes, and before the start only for a negative index; until then it    *)
(* gives every node the setting of the last line about it, and accepts no  *)
(* configuration with a line it refuses.  All for every configuration,     *)
(* however long and however its files include each other.                  *)
(***************************************************************************)
EXTENDS Config, TLAPS

\* A line's fields.
LEMMA LineTyped ==
    ASSUME NEW l \in Lines
    PROVE  /\ l \in LineType
           /\ l.val \in Vals /\ l.val # "unset"
           /\ l.key \in Keys /\ l.form \in {"all", "one", "span"}
           /\ l.beg \in Int /\ l.end \in Int /\ l.num \in Int
           /\ l.key \in {"numOfNodes", "include"} => l.form = "all"
BY ConfigAssumption DEF LineType, Vals

\* A range that passes the check does not go beyond the table's end, and starts
\* before the table only if the line's index is negative.
LEMMA RangeEnds ==
    ASSUME numOfNodes \in Nat, NEW l \in Lines, ~OutOfBounds(l), NEW n \in Selected(l)
    PROVE  /\ n \in Int /\ n <= numOfNodes - 1
           /\ n < 0 => l.form # "all" /\ l.beg <= n
<1>1. l.beg \in Int /\ l.end \in Int /\ l.form \in {"all", "one", "span"}
  BY LineTyped
<1>2. End(l) \in Int
  BY <1>1 DEF End, Dash, AfterDash
<1>3. Beg(l) \in Int /\ Beg(l) <= n /\ n <= End(l) /\ n \in Int
  BY <1>1, <1>2 DEF Beg, Selected
<1>4. End(l) <= numOfNodes - 1
  BY <1>2 DEF OutOfBounds
<1>5. Beg(l) = IF l.form = "all" THEN 0 ELSE l.beg
  BY DEF Beg
<1> QED BY <1>1, <1>2, <1>3, <1>4, <1>5

\* A negative index gives a range that starts with it.
LEMMA NegativeRange ==
    ASSUME numOfNodes \in Nat, numOfNodes # 0, NEW l \in Lines, ~OutOfBounds(l),
           l.form # "all", l.beg < 0
    PROVE  l.beg \in Selected(l) /\ Key(l) = l.key
<1>1. l.beg \in Int /\ l.form \in {"one", "span"}
  BY LineTyped
<1>2. Dash(l) /\ AfterDash(l) = 0 - l.beg
  BY <1>1 DEF Dash, AfterDash
<1>3. ~BadSpan(l)
  BY <1>1, <1>2 DEF BadSpan
<1>4. End(l) = IF 0 - l.beg >= numOfNodes THEN numOfNodes - 1 ELSE 0 - l.beg
  BY <1>1, <1>2, <1>3 DEF End
<1>5. End(l) >= l.beg /\ End(l) \in Int /\ Beg(l) = l.beg
  BY <1>1, <1>4 DEF Beg
<1> QED BY <1>1, <1>3, <1>5 DEF Selected, Key

\* Any other range is the set of nodes the line names, as far as they exist.
LEMMA RangeIsNamed ==
    ASSUME numOfNodes \in Nat, NEW l \in Lines, ~OutOfBounds(l),
           l.form = "all" \/ l.beg >= 0
    PROVE  \A n \in 0..(numOfNodes - 1) :
              Key(l) # NoKey => (n \in Selected(l) <=> Names(l, n))
<1>1. l.beg \in Int /\ l.end \in Int /\ l.form \in {"all", "one", "span"} /\ l.key \in Keys
  BY LineTyped
<1>2. CASE l.form = "all"
  <2>1. Beg(l) = 0 /\ End(l) = numOfNodes - 1
    BY <1>2 DEF Beg, End, Dash
  <2>2. \A n \in 0..(numOfNodes - 1) : Names(l, n)
    BY <1>2 DEF Names
  <2> QED BY <2>1, <2>2 DEF Selected
<1>3. CASE l.form = "one"
  <2>1. Beg(l) = l.beg /\ End(l) = l.beg
    BY <1>1, <1>3 DEF Beg, End, Dash
  <2>2. \A n \in 0..(numOfNodes - 1) : Names(l, n) <=> n = l.beg
    BY <1>3 DEF Names
  <2> QED BY <1>1, <2>1, <2>2 DEF Selected
<1>4. CASE l.form = "span"
  <2>1. Beg(l) = l.beg /\ l.beg \in Nat
    BY <1>1, <1>4 DEF Beg
  <2>2. \A n \in 0..(numOfNodes - 1) : Names(l, n) <=> l.beg < l.end /\ n >= l.beg /\ n <= l.end
    BY <1>4 DEF Names
  <2>3. Dash(l) /\ AfterDash(l) = l.end /\ (BadSpan(l) <=> l.end <= l.beg)
    BY <1>1, <1>4 DEF Dash, AfterDash, BadSpan
  <2>4. CASE l.end <= l.beg
    BY <2>3, <2>4 DEF Key
  <2>5. CASE l.end > l.beg /\ l.end >= numOfNodes
    <3>1. ~BadSpan(l)
      BY <1>1, <2>3, <2>5
    <3>2. End(l) = numOfNodes - 1
      BY <1>4, <2>3, <2>5, <3>1 DEF End
    <3>3. \A n \in 0..(numOfNodes - 1) : n \in Selected(l) <=> n >= l.beg
      BY <1>1, <2>1, <3>2 DEF Selected
    <3>4. \A n \in 0..(numOfNodes - 1) : Names(l, n) <=> n >= l.beg
      BY <1>1, <2>2, <2>5
    <3> QED BY <3>3, <3>4
  <2>6. CASE l.end > l.beg /\ l.end < numOfNodes
    <3>1. End(l) = l.end
      BY <1>1, <1>4, <2>3, <2>6 DEF End
    <3> QED BY <1>1, <2>1, <2>2, <2>6, <3>1 DEF Selected
  <2> QED BY <1>1, <2>4, <2>5, <2>6
<1> QED BY <1>1, <1>2, <1>3, <1>4

-----------------------------------------------------------------------------
\* A configuration being read, or failing, has a file open: TypeOK is not
\* inductive without it.
FilesOpen == status \in {"reading", "failing"} => depth > 0

Inv == TypeOK /\ FilesOpen

LEMMA InvHolds == Spec => []Inv
<1>1. Init => Inv
  <2> SUFFICES ASSUME Init PROVE Inv
    OBVIOUS
  <2>1. nodeArray \in [0..(numOfNodes - 1) -> [NodeKeys -> Vals]]
    BY DEF Init, Nodeinfo, Vals
  <2>2. keyval \in [KvKeys -> Vals]
    BY DEF Init, Vals
  <2>3. depth \in 0..MaxOpen
    BY ConfigAssumption DEF Init
  <2> QED BY <2>1, <2>2, <2>3 DEF Init, Inv, TypeOK, FilesOpen
<1>2. Inv /\ [Next]_vars => Inv'
  <2> SUFFICES ASSUME Inv, [Next]_vars PROVE Inv'
    OBVIOUS
  <2> USE DEF Inv, TypeOK, FilesOpen
  <2>1. ASSUME NEW l \in Lines, ReadLine(l) PROVE Inv'
    <3>1. log' \in Seq(Lines) /\ status = "reading"
      BY <2>1 DEF ReadLine
    <3>2. l.val \in Vals /\ l.key \in Keys /\ l.num \in Int
      BY LineTyped
    <3>3. Stray(l) \subseteq Int
      BY DEF Stray, Selected
    <3>4. CASE Fail
      BY <2>1, <3>1, <3>4 DEF ReadLine, Fail
    <3>5. CASE SetNodes(l) /\ l.key \in NodeKeys
      <4>1. nodeArray' \in [0..(numOfNodes - 1) -> [NodeKeys -> Vals]]
        BY <3>2, <3>5 DEF SetNodes
      <4> QED BY <3>1, <3>3, <3>5, <4>1 DEF SetNodes
    <3>6. CASE setNumberOfNodes(l) /\ ~Fail
      <4>1. /\ numOfNodes' = IF l.num < 0 THEN 0 ELSE l.num
            /\ nodeArray' = [n \in 0..(l.num - 1) |-> Nodeinfo]
            /\ status' = IF l.num < 0 THEN "failing" ELSE status
            /\ UNCHANGED <<keyval, depth, astray>>
        BY <3>6 DEF setNumberOfNodes
      <4>2. Nodeinfo \in [NodeKeys -> Vals]
        BY DEF Nodeinfo, Vals
      <4>3. 0..(l.num - 1) = 0..(numOfNodes' - 1) /\ numOfNodes' \in Nat
        BY <3>2, <4>1
      <4>4. nodeArray' \in [0..(numOfNodes' - 1) -> [NodeKeys -> Vals]]
        BY <4>1, <4>2, <4>3
      <4>5. status' \in {"reading", "failing"}
        BY <3>1, <4>1
      <4> QED BY <3>1, <4>1, <4>3, <4>4, <4>5
    <3>7. CASE setNodeSetting(l) /\ ~Fail
      <4>1. CASE SetNodes(l)
        <5>1. l.key \in NodeKeys
          BY <3>7 DEF setNodeSetting, NodeKeys, SetterKeys, Key, NoKey
        <5> QED BY <3>5, <4>1, <5>1
      <4>2. CASE UNCHANGED <<numOfNodes, nodeArray, keyval, depth, status, astray>>
        BY <3>1, <4>2
      <4> QED BY <3>7, <4>1, <4>2 DEF setNodeSetting
    <3>8. CASE setkv(l)
      <4>1. CASE Key(l) # NoKey /\ SetNodes(l)
        BY <3>5, <3>8, <4>1 DEF setkv, NodeKeys, Key
      <4>2. CASE /\ Key(l) # NoKey /\ l.form = "all"
                 /\ keyval' = [keyval EXCEPT ![l.key] = l.val]
                 /\ UNCHANGED <<numOfNodes, nodeArray, depth, status, astray>>
        BY <3>1, <3>2, <4>2
      <4>3. CASE astray' = astray \cup Stray(l) /\ UNCHANGED <<numOfNodes, nodeArray, keyval, depth, status>>
        BY <3>1, <3>3, <4>3
      <4> QED BY <3>8, <4>1, <4>2, <4>3 DEF setkv
    <3>9. CASE include(l) /\ ~Fail
      <4>1. /\ depth < MaxOpen /\ depth' = depth + 1
            /\ UNCHANGED <<numOfNodes, nodeArray, keyval, status, astray>>
        BY <3>9 DEF include
      <4>2. depth' \in 0..MaxOpen
        BY <4>1, ConfigAssumption
      <4> QED BY <3>1, <4>1, <4>2
    <3> QED BY <2>1, <3>4, <3>6, <3>7, <3>8, <3>9 DEF ReadLine, RejectLine
  <2>2. CASE EndOfFile \/ ReturnFailure
    <3>1. /\ UNCHANGED <<numOfNodes, nodeArray, keyval, astray, log>>
          /\ depth' = depth - 1 /\ depth > 0
          /\ status' \in {"reading", "failing", "done", "failed"}
          /\ status' \in {"reading", "failing"} => depth # 1
      BY <2>2 DEF EndOfFile, ReturnFailure
    <3>2. depth' \in 0..MaxOpen /\ (depth # 1 => depth' > 0)
      BY <3>1, ConfigAssumption
    <3> QED BY <3>1, <3>2
  <2>3. CASE Crash
    BY <2>3 DEF Crash
  <2>4. CASE UNCHANGED vars
    BY <2>4 DEF vars
  <2> QED BY <2>1, <2>2, <2>3, <2>4 DEF Next
<1> QED BY <1>1, <1>2, PTL DEF Spec

\* The table always has numOfNodes entries, each with a setting or none for
\* every key (setNumberOfNodes, setNode*, setNodeKV).
THEOREM TypeCorrect == Spec => []TypeOK
BY InvHolds, PTL DEF Inv

-----------------------------------------------------------------------------
\* One more line does not change the ones before it.
LEMMA OneLineMore ==
    ASSUME NEW ls \in Seq(Lines), NEW l \in Lines
    PROVE  /\ Len(ls) \in Nat
           /\ DOMAIN ls = 1..Len(ls) /\ DOMAIN Append(ls, l) = 1..(Len(ls) + 1)
           /\ Append(ls, l)[Len(ls) + 1] = l
           /\ \A i \in DOMAIN ls : Append(ls, l)[i] = ls[i]
OBVIOUS

\* What a line adds to the indices outside the table comes from its own range,
\* which has passed the check.
LEMMA LineStrays ==
    ASSUME NEW l \in Lines, ReadLine(l)
    PROVE  \/ UNCHANGED astray
           \/ Applicable(l) /\ astray' = astray \cup Stray(l)
<1>1. SetNodes(l) => astray' = astray \cup Stray(l)
  BY DEF SetNodes
<1>2. setNumberOfNodes(l) \/ RejectLine(l) \/ include(l) => UNCHANGED astray
  BY DEF setNumberOfNodes, RejectLine, include, Fail
<1>3. setNodeSetting(l) => UNCHANGED astray \/ (SetNodes(l) /\ Applicable(l))
  BY DEF setNodeSetting, Fail
<1>4. setkv(l) =>
        /\ Applicable(l)
        /\ UNCHANGED astray \/ SetNodes(l) \/ astray' = astray \cup Stray(l)
  BY DEF setkv
<1> QED BY <1>1, <1>2, <1>3, <1>4 DEF ReadLine

\* For any configuration, no line writes past the end of the table, although the
\* check is made on a range that may already have been cut off or found to be
\* none; what is written before its start is at or above the negative index of
\* some line (getKeyRange, setConfigurationFromFile).
THEOREM StraysOnlyBelow == Spec => []StrayOnlyBelow
<1>1. Init => StrayOnlyBelow
  BY DEF Init, StrayOnlyBelow
<1>2. Inv /\ StrayOnlyBelow /\ [Next]_vars => StrayOnlyBelow'
  <2> SUFFICES ASSUME Inv, StrayOnlyBelow, [Next]_vars, NEW n \in astray'
               PROVE  n < 0 /\ \E i \in DOMAIN log' : log'[i].form # "all" /\ log'[i].beg <= n
    BY DEF StrayOnlyBelow
  <2>1. ASSUME NEW l \in Lines, ReadLine(l)
        PROVE  n < 0 /\ \E i \in DOMAIN log' : log'[i].form # "all" /\ log'[i].beg <= n
    <3>1. log' = Append(log, l) /\ log \in Seq(Lines)
      BY <2>1 DEF ReadLine, Inv, TypeOK
    <3>2. /\ Len(log) \in Nat
          /\ DOMAIN log = 1..Len(log) /\ DOMAIN log' = 1..(Len(log) + 1)
          /\ log'[Len(log) + 1] = l
          /\ \A i \in DOMAIN log : log'[i] = log[i]
      BY <3>1, OneLineMore
    <3>3. CASE n \in astray
      <4>1. PICK i \in DOMAIN log : log[i].form # "all" /\ log[i].beg <= n
        BY <3>3 DEF StrayOnlyBelow
      <4>2. i \in DOMAIN log' /\ log'[i] = log[i]
        BY <3>2
      <4> QED BY <3>3, <4>1, <4>2 DEF StrayOnlyBelow
    <3>4. CASE n \notin astray
      <4>1. Applicable(l) /\ n \in Stray(l)
        BY <2>1, <3>4, LineStrays
      <4>2. n \in Selected(l) /\ n \notin 0..(numOfNodes - 1) /\ numOfNodes \in Nat
        BY <4>1 DEF Stray, Inv, TypeOK
      <4>3. n \in Int /\ n <= numOfNodes - 1 /\ (n < 0 => l.form # "all" /\ l.beg <= n)
        BY <4>1, <4>2, RangeEnds DEF Applicable
      <4>4. n < 0
        BY <4>2, <4>3
      <4>5. Len(log) + 1 \in DOMAIN log'
        BY <3>2
      <4> QED BY <3>2, <4>3, <4>4, <4>5
    <3> QED BY <3>3, <3>4
  <2>2. CASE UNCHANGED <<astray, log>>
    BY <2>2 DEF StrayOnlyBelow
  <2>3. CASE EndOfFile \/ ReturnFailure \/ Crash \/ UNCHANGED vars
    BY <2>2, <2>3 DEF EndOfFile, ReturnFailure, Crash, vars
  <2> QED BY <2>1, <2>3 DEF Next
<1> QED BY <1>1, <1>2, InvHolds, PTL DEF Spec

-----------------------------------------------------------------------------
(* Reading one more line.                                                   *)

\* A numOfNodes line leaves every setting unset.
LEMMA LastLineAfterNumber ==
    ASSUME NEW ls \in Seq(Lines), NEW l \in Lines, l.key = "numOfNodes",
           NEW n, NEW k \in NodeKeys
    PROVE  LastLine(Append(ls, l), n, k, "unset")
<1> DEFINE more == Append(ls, l)
<1>1. /\ DOMAIN more = 1..(Len(ls) + 1) /\ Len(ls) \in Nat
      /\ more[Len(ls) + 1] = l
  OBVIOUS
<1>2. k # "numOfNodes"
  BY ConfigAssumption DEF NodeKeys, SetterKeys
<1>3. ~Sets(l, n, k)
  BY <1>2 DEF Sets
<1>4. \A i \in DOMAIN more : i # Len(ls) + 1 => Forgotten(more, i)
  BY <1>1 DEF Forgotten
<1> QED BY <1>1, <1>3, <1>4 DEF LastLine

\* Any other line is the last one about what it sets, and leaves the rest.
LEMMA LastLineAfterSetting ==
    ASSUME NEW ls \in Seq(Lines), NEW l \in Lines, l.key # "numOfNodes",
           NEW n, NEW k \in NodeKeys, NEW v, NEW w, LastLine(ls, n, k, v),
           \/ Sets(l, n, k) /\ w = l.val
           \/ ~Sets(l, n, k) /\ w = v
    PROVE  LastLine(Append(ls, l), n, k, w)
<1> DEFINE more == Append(ls, l)
<1>1. /\ DOMAIN more = 1..(Len(ls) + 1) /\ DOMAIN ls = 1..Len(ls) /\ Len(ls) \in Nat
      /\ more[Len(ls) + 1] = l
      /\ \A i \in DOMAIN ls : more[i] = ls[i]
  OBVIOUS
<1>2. ~Forgotten(more, Len(ls) + 1)
  BY <1>1 DEF Forgotten
<1>3. \A i \in DOMAIN ls : Forgotten(more, i) <=> Forgotten(ls, i)
  BY <1>1 DEF Forgotten
<1> HIDE DEF more
<1>4. CASE Sets(l, n, k)
  <2>1. w = more[Len(ls) + 1].val /\ Sets(more[Len(ls) + 1], n, k)
    BY <1>1, <1>4
  <2>2. Len(ls) + 1 \in DOMAIN more /\ \A j \in DOMAIN more : ~(j > Len(ls) + 1)
    BY <1>1
  <2>3. LastLine(more, n, k, w)
    BY <1>2, <2>1, <2>2 DEF LastLine
  <2> QED BY <2>3 DEF more
<1>5. CASE ~Sets(l, n, k)
  <2>1. CASE v = "unset" /\ \A i \in DOMAIN ls : Sets(ls[i], n, k) => Forgotten(ls, i)
    <3>1. \A i \in DOMAIN more : Sets(more[i], n, k) => Forgotten(more, i)
      BY <1>1, <1>3, <1>5, <2>1
    <3>2. LastLine(more, n, k, w)
      BY <1>5, <2>1, <3>1 DEF LastLine
    <3> QED BY <3>2 DEF more
  <2>2. CASE \E i \in DOMAIN ls :
                /\ Sets(ls[i], n, k) /\ ~Forgotten(ls, i) /\ v = ls[i].val
                /\ \A j \in DOMAIN ls : j > i => ~Sets(ls[j], n, k)
    <3>1. PICK i \in DOMAIN ls :
                /\ Sets(ls[i], n, k) /\ ~Forgotten(ls, i) /\ v = ls[i].val
                /\ \A j \in DOMAIN ls : j > i => ~Sets(ls[j], n, k)
      BY <2>2
    <3>2. i \in DOMAIN more /\ Sets(more[i], n, k) /\ ~Forgotten(more, i) /\ w = more[i].val
      BY <1>1, <1>3, <1>5, <3>1
    <3>3. \A j \in DOMAIN more : j > i => ~Sets(more[j], n, k)
      BY <1>1, <1>5, <3>1
    <3>4. LastLine(more, n, k, w)
      BY <3>2, <3>3 DEF LastLine
    <3> QED BY <3>4 DEF more
  <2> QED BY <2>1, <2>2 DEF LastLine
<1> QED BY <1>4, <1>5

\* A line that is applied and does not write outside the table sets what it is
\* about, and nothing else.
LEMMA LineDoesWhatItSays ==
    ASSUME Inv, NEW l \in Lines, l.key # "numOfNodes",
           setNodeSetting(l) \/ setkv(l) \/ include(l), ~Fail, astray' = {},
           NEW n \in 0..(numOfNodes - 1), NEW k \in NodeKeys
    PROVE  /\ DOMAIN nodeArray' = DOMAIN nodeArray
           /\ \/ Sets(l, n, k) /\ nodeArray'[n][k] = l.val
              \/ ~Sets(l, n, k) /\ nodeArray'[n][k] = nodeArray[n][k]
<1>1. /\ l.key \in Keys /\ l.form \in {"all", "one", "span"}
      /\ l.beg \in Int /\ l.end \in Int
  BY LineTyped
<1>2. nodeArray \in [0..(numOfNodes - 1) -> [NodeKeys -> Vals]] /\ numOfNodes \in Nat
  BY DEF Inv, TypeOK
<1>3. l.key # NoKey /\ (l.key \in KvKeys => l.key \notin SetterKeys)
  BY <1>1, ConfigAssumption DEF Keys, NodeKeys, SetterKeys, NoKey
<1>4. ASSUME SetNodes(l), Applicable(l), Key(l) # NoKey,
             l.key \in KvKeys => l.form # "all", ~Ignored(l)
      PROVE  /\ DOMAIN nodeArray' = DOMAIN nodeArray
             /\ \/ Sets(l, n, k) /\ nodeArray'[n][k] = l.val
                \/ ~Sets(l, n, k) /\ nodeArray'[n][k] = nodeArray[n][k]
  <2>0. l.form = "all" \/ l.beg >= 0
    <3>1. Stray(l) = {}
      BY <1>4 DEF SetNodes
    <3>2. l.form # "all" /\ l.beg < 0 => l.beg \in Selected(l)
      BY <1>2, <1>4, NegativeRange DEF Applicable
    <3> QED BY <1>1, <1>2, <3>1, <3>2 DEF Stray
  <2>1. n \in Selected(l) <=> Names(l, n)
    BY <1>2, <1>4, <2>0, RangeIsNamed DEF Applicable
  <2>2. Sets(l, n, k) <=> k = l.key /\ n \in Selected(l)
    BY <1>4, <2>1 DEF Sets, Ignored, Key
  <2>3. /\ DOMAIN nodeArray' = DOMAIN nodeArray
        /\ nodeArray'[n] = IF n \in Selected(l) THEN [nodeArray[n] EXCEPT ![l.key] = l.val]
                                                ELSE nodeArray[n]
    BY <1>2, <1>4 DEF SetNodes
  <2>4. nodeArray[n] \in [NodeKeys -> Vals]
    BY <1>2
  <2> QED BY <2>2, <2>3, <2>4
<1>5. ASSUME ~Sets(l, n, k), UNCHANGED nodeArray
      PROVE  /\ DOMAIN nodeArray' = DOMAIN nodeArray
             /\ \/ Sets(l, n, k) /\ nodeArray'[n][k] = l.val
                \/ ~Sets(l, n, k) /\ nodeArray'[n][k] = nodeArray[n][k]
  BY <1>5
<1>6. CASE setNodeSetting(l)
  <2>1. Key(l) = l.key /\ l.key \in SetterKeys /\ Applicable(l) /\ Key(l) # NoKey
    BY <1>3, <1>6 DEF setNodeSetting, Key, SetterKeys, NoKey
  <2>2. CASE ~Ignored(l) /\ SetNodes(l)
    BY <1>3, <1>4, <2>1, <2>2
  <2>3. CASE Ignored(l) /\ UNCHANGED nodeArray
    BY <1>5, <2>1, <2>3 DEF Ignored, Sets
  <2> QED BY <1>6, <2>2, <2>3 DEF setNodeSetting
<1>7. CASE setkv(l)
  <2>1. CASE Key(l) # NoKey /\ l.form # "all" /\ SetNodes(l)
    <3>1. l.key \in KvKeys /\ Key(l) = l.key /\ Applicable(l)
      BY <1>7, <2>1 DEF setkv, Key
    <3>2. ~Ignored(l)
      BY <1>3, <3>1 DEF Ignored, SetterKeys
    <3> QED BY <1>4, <2>1, <3>1, <3>2
  <2>2. CASE Key(l) # NoKey /\ l.form = "all" /\ UNCHANGED nodeArray
    <3>1. l.key \in KvKeys
      BY <1>7, <2>2 DEF setkv, Key
    <3> QED BY <1>5, <2>2, <3>1 DEF Sets
  <2>3. CASE Key(l) = NoKey /\ UNCHANGED nodeArray
    <3>1. l.form = "span" /\ ~(l.beg < l.end)
      BY <1>1, <1>3, <2>3 DEF Key, BadSpan, Dash, AfterDash
    <3>2. ~Names(l, n)
      BY <3>1 DEF Names
    <3> QED BY <1>5, <2>3, <3>2 DEF Sets
  <2> QED BY <1>7, <2>1, <2>2, <2>3 DEF setkv
<1>8. CASE include(l)
  <2>1. l.key = "include" /\ UNCHANGED nodeArray
    BY <1>3, <1>8 DEF include, Key, NoKey
  <2>2. "include" \notin NodeKeys
    BY ConfigAssumption DEF NodeKeys, SetterKeys
  <2> QED BY <1>5, <2>1, <2>2 DEF Sets
<1> QED BY <1>6, <1>7, <1>8

\* One more line that is applied is the last one for all nodes about what it is
\* about, and leaves what is stored under other names.
LEMMA LastForAllAfterLine ==
    ASSUME Inv, NEW l \in Lines, ReadLine(l), ~Fail, NEW k \in KvKeys,
           LastForAll(log, k, keyval[k])
    PROVE  LastForAll(log', k, keyval'[k])
<1>1. log \in Seq(Lines) /\ log' = Append(log, l) /\ keyval \in [KvKeys -> Vals]
  BY DEF ReadLine, Inv, TypeOK
<1>2. /\ DOMAIN log' = 1..(Len(log) + 1) /\ DOMAIN log = 1..Len(log) /\ Len(log) \in Nat
      /\ log'[Len(log) + 1] = l
      /\ \A i \in DOMAIN log : log'[i] = log[i]
  BY <1>1, OneLineMore
<1>3. k \notin SetterKeys \cup {"numOfNodes", "include", NoKey}
  BY ConfigAssumption
<1>4. CASE ForAll(l, k)
  <2>1. l.key = k /\ l.form = "all" /\ Key(l) = k
    BY <1>4 DEF ForAll, Key, BadSpan, Dash
  <2>2. setkv(l)
    BY <1>3, <2>1 DEF ReadLine, setNumberOfNodes, RejectLine, setNodeSetting, include
  <2>3. keyval'[k] = l.val
    BY <1>1, <1>3, <2>1, <2>2 DEF setkv
  <2>4. Len(log) + 1 \in DOMAIN log' /\ \A j \in DOMAIN log' : ~(j > Len(log) + 1)
    BY <1>2
  <2> QED BY <1>2, <1>4, <2>3, <2>4 DEF LastForAll
<1>5. CASE ~ForAll(l, k)
  <2>1. keyval'[k] = keyval[k]
    <3>1. CASE UNCHANGED keyval
      BY <3>1
    <3>2. CASE /\ l.form = "all" /\ keyval' = [keyval EXCEPT ![l.key] = l.val]
      BY <1>1, <1>5, <3>2 DEF ForAll
    <3>3. UNCHANGED keyval \/ (l.form = "all" /\ keyval' = [keyval EXCEPT ![l.key] = l.val])
      BY DEF ReadLine, setNumberOfNodes, RejectLine, setNodeSetting, setkv, include,
             SetNodes, Fail
    <3> QED BY <3>1, <3>2, <3>3
  <2>2. CASE keyval[k] = "unset" /\ \A i \in DOMAIN log : ~ForAll(log[i], k)
    BY <1>2, <1>5, <2>1, <2>2 DEF LastForAll
  <2>3. ASSUME NEW i \in DOMAIN log, ForAll(log[i], k), keyval[k] = log[i].val,
               \A j \in DOMAIN log : j > i => ~ForAll(log[j], k)
        PROVE  LastForAll(log', k, keyval'[k])
    <3>1. i \in DOMAIN log' /\ ForAll(log'[i], k) /\ keyval'[k] = log'[i].val
      BY <1>2, <2>1, <2>3
    <3>2. \A j \in DOMAIN log' : j > i => ~ForAll(log'[j], k)
      BY <1>2, <1>5, <2>3
    <3> QED BY <3>1, <3>2 DEF LastForAll
  <2> QED BY <2>2, <2>3 DEF LastForAll
<1> QED BY <1>4, <1>5

\* After any configuration that has not failed and has not written outside the
\* table, every setting in the table is the one of the last line about it since
\* the last numOfNodes, and every one stored by name that of the last line for all
\* nodes, however many lines, includes and nodes there are
\* (setConfigurationFromFile, getKeyRange, setNode*, setNodeKV, Config::set).
THEOREM SettingsAreTheLastLines == Spec => []SettingsMeanLastLine
<1>1. Init => SettingsMeanLastLine
  <2> SUFFICES ASSUME Init PROVE SettingsMeanLastLine
    OBVIOUS
  <2>1. DOMAIN nodeArray = {} /\ DOMAIN log = {} /\ \A k \in KvKeys : keyval[k] = "unset"
    BY DEF Init
  <2> QED BY <2>1 DEF SettingsMeanLastLine, LastForAll
<1>2. Inv /\ SettingsMeanLastLine /\ [Next]_vars => SettingsMeanLastLine'
  <2> SUFFICES ASSUME Inv, SettingsMeanLastLine, [Next]_vars,
                      status' \in {"reading", "done"}, astray' = {}
               PROVE  /\ \A n \in DOMAIN nodeArray', k \in NodeKeys :
                             LastLine(log', n, k, nodeArray'[n][k])
                      /\ \A k \in KvKeys : LastForAll(log', k, keyval'[k])
    BY DEF SettingsMeanLastLine
  <2>0. ASSUME NEW l \in Lines, ReadLine(l)
        PROVE  status = "reading" /\ astray = {} /\ ~Fail
    BY <2>0, LineStrays DEF ReadLine, Fail
  <2>1. ASSUME NEW l \in Lines, ReadLine(l), NEW n \in DOMAIN nodeArray', NEW k \in NodeKeys
        PROVE  LastLine(log', n, k, nodeArray'[n][k])
    <3>1. log' = Append(log, l) /\ log \in Seq(Lines) /\ status = "reading" /\ ~Fail
      BY <2>0, <2>1 DEF ReadLine, Inv, TypeOK
    <3>0. astray = {}
      BY <2>0, <2>1
    <3>2. CASE setNumberOfNodes(l)
      <4>1. l.key = "numOfNodes"
        BY <3>2 DEF setNumberOfNodes, Key, NoKey
      <4>2. nodeArray' = [m \in 0..(l.num - 1) |-> Nodeinfo]
        BY <3>1, <3>2 DEF setNumberOfNodes
      <4>3. nodeArray'[n][k] = "unset"
        BY <2>1, <4>2 DEF Nodeinfo
      <4> QED BY <3>1, <4>1, <4>3, LastLineAfterNumber
    <3>3. CASE setNodeSetting(l) \/ setkv(l) \/ include(l)
      <4>1. l.key # "numOfNodes"
        <5>1. CASE BadSpan(l)
          BY <5>1, LineTyped DEF BadSpan, Dash
        <5>2. CASE ~BadSpan(l)
          BY <3>3, <5>2, ConfigAssumption
             DEF setNodeSetting, setkv, include, Key, SetterKeys, NoKey
        <5> QED BY <5>1, <5>2
      <4>2. DOMAIN nodeArray' = DOMAIN nodeArray
        BY <3>3, <3>1 DEF setNodeSetting, setkv, include, SetNodes
      <4>3. n \in DOMAIN nodeArray /\ n \in 0..(numOfNodes - 1)
        BY <2>1, <4>2 DEF Inv, TypeOK
      <4>4. LastLine(log, n, k, nodeArray[n][k])
        BY <3>0, <3>1, <4>3 DEF SettingsMeanLastLine
      <4>5. \/ Sets(l, n, k) /\ nodeArray'[n][k] = l.val
            \/ ~Sets(l, n, k) /\ nodeArray'[n][k] = nodeArray[n][k]
        BY <3>1, <3>3, <4>1, <4>3, LineDoesWhatItSays
      <4> QED BY <3>1, <4>1, <4>4, <4>5, LastLineAfterSetting
    <3>4. CASE RejectLine(l)
      BY <3>1, <3>4 DEF RejectLine
    <3> QED BY <2>1, <3>2, <3>3, <3>4 DEF ReadLine
  <2>2. ASSUME NEW l \in Lines, ReadLine(l), NEW k \in KvKeys
        PROVE  LastForAll(log', k, keyval'[k])
    BY <2>0, <2>2, LastForAllAfterLine DEF SettingsMeanLastLine
  <2>3. CASE EndOfFile
    BY <2>3 DEF EndOfFile, SettingsMeanLastLine
  <2>4. CASE ReturnFailure \/ Crash
    BY <2>4 DEF ReturnFailure, Crash
  <2>5. CASE UNCHANGED vars
    BY <2>5 DEF vars, SettingsMeanLastLine
  <2> QED BY <2>1, <2>2, <2>3, <2>4, <2>5 DEF Next
<1> QED BY <1>1, <1>2, InvHolds, PTL DEF Spec

-----------------------------------------------------------------------------
(* Configurations that are accepted.                                        *)

\* The lines before the i-th that give a number of nodes, the last of them, and
\* the number the i-th is applied to.
NumberLines(ls, i) == {j \in 1..(i - 1) : ls[j].key = "numOfNodes"}

IsLast(j, S) == j \in S /\ \A k \in S : k <= j

NodesFor(ls, i) ==
    IF NumberLines(ls, i) = {} THEN 0
    ELSE ls[CHOOSE j \in NumberLines(ls, i) : \A k \in NumberLines(ls, i) : k <= j].num

LEMMA NodesAre ==
    ASSUME NEW i
    PROVE  NodesAt(i) = NodesFor(log, i)
BY DEF NodesAt, NodesFor, NumberLines

\* The number comes from the last line that gives one.
LEMMA NumberIs ==
    ASSUME NEW ls, NEW i, NEW j, NumberLines(ls, i) \subseteq Int,
           IsLast(j, NumberLines(ls, i))
    PROVE  NodesFor(ls, i) = ls[j].num
<1> DEFINE S == NumberLines(ls, i)
           c == CHOOSE x \in S : \A k \in S : k <= x
<1>1. j \in S /\ \A k \in S : k <= j
  BY DEF IsLast
<1>2. c \in S /\ \A k \in S : k <= c
  BY <1>1
<1>3. c = j
  BY <1>1, <1>2
<1> QED BY <1>1, <1>3 DEF NodesFor

\* One more line leaves the numbers alone that the earlier lines are applied to.
LEMMA NumberStays ==
    ASSUME NEW ls \in Seq(Lines), NEW l \in Lines, NEW i \in 1..(Len(ls) + 1),
           \/ NumberLines(ls, i) = {}
           \/ \E j : IsLast(j, NumberLines(ls, i))
    PROVE  /\ NumberLines(Append(ls, l), i) = NumberLines(ls, i)
           /\ NodesFor(Append(ls, l), i) = NodesFor(ls, i)
<1> DEFINE more == Append(ls, l)
<1>1. Len(ls) \in Nat /\ \A j \in 1..(i - 1) : more[j] = ls[j]
  OBVIOUS
<1> HIDE DEF more
<1>2. NumberLines(more, i) = NumberLines(ls, i) /\ NumberLines(ls, i) \subseteq 1..(i - 1)
  BY <1>1 DEF NumberLines
<1>3. CASE NumberLines(ls, i) = {}
  BY <1>2, <1>3 DEF NodesFor, more
<1>4. ASSUME NEW j, IsLast(j, NumberLines(ls, i))
      PROVE  NodesFor(more, i) = NodesFor(ls, i)
  <2>1. NodesFor(ls, i) = ls[j].num /\ NodesFor(more, i) = more[j].num
    BY <1>2, <1>4, NumberIs
  <2>2. j \in 1..(i - 1)
    BY <1>2, <1>4 DEF IsLast
  <2> QED BY <1>1, <2>1, <2>2
<1> QED BY <1>2, <1>3, <1>4 DEF more

\* What the next line is applied to.
LEMMA NextNumber ==
    ASSUME NEW ls \in Seq(Lines), NEW l \in Lines,
           \/ NumberLines(ls, Len(ls) + 1) = {}
           \/ \E j : IsLast(j, NumberLines(ls, Len(ls) + 1))
    PROVE  LET more == Append(ls, l)
               S    == NumberLines(more, Len(more) + 1)
           IN  /\ S = {} \/ \E j : IsLast(j, S)
               /\ l.key = "numOfNodes" => NodesFor(more, Len(more) + 1) = l.num
               /\ l.key # "numOfNodes" =>
                     NodesFor(more, Len(more) + 1) = NodesFor(ls, Len(ls) + 1)
<1> DEFINE more == Append(ls, l)
           S    == NumberLines(more, Len(more) + 1)
           T    == NumberLines(ls, Len(ls) + 1)
<1>1. /\ Len(ls) \in Nat /\ Len(more) = Len(ls) + 1
      /\ more[Len(ls) + 1] = l
      /\ \A j \in 1..Len(ls) : more[j] = ls[j]
  OBVIOUS
<1> HIDE DEF more
<1>2. T \subseteq 1..Len(ls)
  BY <1>1 DEF NumberLines
<1>3. S = IF l.key = "numOfNodes" THEN T \cup {Len(ls) + 1} ELSE T
  BY <1>1 DEF NumberLines
<1>4. CASE l.key = "numOfNodes"
  <2>1. IsLast(Len(ls) + 1, S)
    BY <1>1, <1>2, <1>3, <1>4 DEF IsLast
  <2>2. S \subseteq Int
    BY <1>1, <1>2, <1>3
  <2>3. NodesFor(more, Len(more) + 1) = l.num
    BY <1>1, <2>1, <2>2, NumberIs
  <2> QED BY <1>4, <2>1, <2>3 DEF more
<1>5. CASE l.key # "numOfNodes"
  <2>1. CASE T = {}
    BY <1>3, <1>5, <2>1 DEF NodesFor, more
  <2>2. ASSUME NEW j, IsLast(j, T)
        PROVE  /\ IsLast(j, S)
               /\ NodesFor(more, Len(more) + 1) = NodesFor(ls, Len(ls) + 1)
    <3>1. IsLast(j, S) /\ S \subseteq Int /\ T \subseteq Int
      BY <1>2, <1>3, <1>5, <2>2
    <3>2. NodesFor(more, Len(more) + 1) = more[j].num /\ NodesFor(ls, Len(ls) + 1) = ls[j].num
      BY <2>2, <3>1, NumberIs
    <3>3. more[j] = ls[j]
      BY <1>1, <1>2, <2>2 DEF IsLast
    <3> QED BY <3>1, <3>2, <3>3
  <2> QED BY <1>5, <2>1, <2>2 DEF more
<1> QED BY <1>4, <1>5

\* A line the parser refuses makes its file fail.
LEMMA RefusedFails ==
    ASSUME Inv, NEW l \in Lines, ReadLine(l), Refused(l, numOfNodes)
    PROVE  status' = "failing"
<1>1. numOfNodes \in Nat /\ l.beg \in Int /\ l.end \in Int /\ l.form \in {"all", "one", "span"}
  BY LineTyped DEF Inv, TypeOK
<1>2. l.key \in {"numOfNodes", "include"} => Key(l) = l.key
  BY LineTyped DEF Key, BadSpan, Dash
<1>3. Key(l) \in {l.key, NoKey}
  BY DEF Key
<1>4. CASE l.key = "numOfNodes"
  <2>1. Key(l) = "numOfNodes" /\ (l.val = "junk" \/ l.num < 0)
    BY <1>2, <1>4 DEF Refused
  <2>2. ~RejectLine(l) /\ ~setNodeSetting(l) /\ ~setkv(l) /\ ~include(l)
    BY <2>1, ConfigAssumption
    DEF RejectLine, setNodeSetting, SetterKeys, setkv, NoKey, include
  <2>3. CASE Fail
    BY <2>3 DEF Fail
  <2>4. CASE ~Fail
    BY <2>1, <2>2, <2>4 DEF ReadLine, setNumberOfNodes
  <2> QED BY <2>3, <2>4
<1>5. CASE l.key # "numOfNodes"
  <2>1. ~setNumberOfNodes(l)
    BY <1>3, <1>5 DEF setNumberOfNodes, NoKey
  <2>2. ASSUME ~RejectLine(l)
        PROVE  status' = "failing"
    <3>1. Applicable(l)
      BY <2>1, <2>2 DEF ReadLine, setNodeSetting, setkv, include
    <3>2. numOfNodes > 0 /\ ~OutOfBounds(l)
      BY <1>1, <3>1 DEF Applicable
    <3>3. ~(l.form = "one" /\ l.beg >= numOfNodes)
      <4>1. l.form = "one" /\ l.beg >= numOfNodes => End(l) = l.beg
        BY <1>1 DEF End, Dash
      <4> QED BY <1>1, <3>2, <4>1 DEF OutOfBounds
    <3>4. ~(l.form = "span" /\ l.end <= l.beg /\ l.end >= numOfNodes)
      <4>1. l.form = "span" /\ l.end <= l.beg /\ l.end >= numOfNodes => End(l) = l.end
        BY <1>1 DEF End, BadSpan, Dash, AfterDash
      <4> QED BY <1>1, <3>2, <4>1 DEF OutOfBounds
    <3>5. CASE l.key = "include" /\ l.val = "missing"
      <4>1. Key(l) = "include"
        BY <1>2, <3>5
      <4>2. ~setNodeSetting(l) /\ ~setkv(l)
        BY <4>1, ConfigAssumption DEF setNodeSetting, SetterKeys, setkv, NoKey
      <4> QED BY <2>1, <2>2, <3>5, <4>2 DEF ReadLine, include, Fail
    <3>6. CASE /\ l.key \in {"nodePosition", "nodePromiscuous"}
               /\ l.val = "junk"
               /\ \E n \in 0..(numOfNodes - 1) : Names(l, n)
      <4>1. PICK n \in 0..(numOfNodes - 1) : Names(l, n)
        BY <3>6
      <4>2. Key(l) = l.key /\ Selected(l) # {}
        <5>1. CASE l.form # "all" /\ l.beg < 0
          BY <1>1, <3>2, <5>1, NegativeRange
        <5>2. CASE l.form = "all" \/ l.beg >= 0
          <6>1. l.form = "span" => l.beg < l.end
            BY <1>1, <4>1 DEF Names
          <6>2. ~BadSpan(l)
            BY <1>1, <5>2, <6>1 DEF BadSpan, Dash, AfterDash
          <6>3. Key(l) = l.key /\ Key(l) # NoKey
            BY <3>6, <6>2 DEF Key, NoKey
          <6>4. n \in Selected(l)
            BY <1>1, <3>2, <4>1, <5>2, <6>3, RangeIsNamed
          <6> QED BY <6>3, <6>4
        <5> QED BY <1>1, <5>1, <5>2
      <4>3. Throws(l) /\ ~Ignored(l)
        BY <3>6, <4>2 DEF Throws, Ignored
      <4>4. ~setkv(l) /\ ~include(l)
        BY <3>6, <4>2, ConfigAssumption DEF setkv, SetterKeys, NoKey, include
      <4> QED BY <2>1, <2>2, <4>3, <4>4 DEF ReadLine, setNodeSetting, Fail
    <3> QED BY <1>1, <1>5, <3>2, <3>3, <3>4, <3>5, <3>6 DEF Refused
  <2> QED BY <2>2 DEF RejectLine, Fail
<1> QED BY <1>4, <1>5

\* The lines read without a failure: the last number of nodes is the one in
\* force, and none is refused.
NumbersKnown ==
    \A i \in 1..(Len(log) + 1) :
        NumberLines(log, i) = {} \/ \E j : IsLast(j, NumberLines(log, i))

Right ==
    status \in {"reading", "done"} /\ astray = {} =>
        /\ numOfNodes = NodesFor(log, Len(log) + 1)
        /\ \A i \in DOMAIN log : ~Refused(log[i], NodesFor(log, i))

LEMMA RightKept ==
    ASSUME Inv, NumbersKnown, Right, NEW l \in Lines, ReadLine(l)
    PROVE  NumbersKnown' /\ Right'
<1>1. log \in Seq(Lines) /\ log' = Append(log, l) /\ status = "reading"
  BY DEF Inv, TypeOK, ReadLine
<1>2. /\ Len(log) \in Nat /\ Len(log') = Len(log) + 1
      /\ DOMAIN log = 1..Len(log) /\ DOMAIN log' = 1..(Len(log) + 1)
      /\ log'[Len(log) + 1] = l
      /\ \A i \in 1..Len(log) : log'[i] = log[i]
  BY <1>1
<1>3. ASSUME NEW i \in 1..(Len(log) + 1)
      PROVE  /\ NumberLines(log', i) = NumberLines(log, i)
             /\ NodesFor(log', i) = NodesFor(log, i)
  BY <1>1, NumberStays DEF NumbersKnown
<1>4. Len(log) + 1 \in 1..(Len(log) + 1)
  BY <1>2
<1>5. LET S == NumberLines(log', Len(log') + 1)
      IN  /\ S = {} \/ \E j : IsLast(j, S)
          /\ l.key = "numOfNodes" => NodesFor(log', Len(log') + 1) = l.num
          /\ l.key # "numOfNodes" =>
                NodesFor(log', Len(log') + 1) = NodesFor(log, Len(log) + 1)
  BY <1>1, <1>4, NextNumber DEF NumbersKnown
<1>6. NumbersKnown'
  <2> SUFFICES ASSUME NEW i \in 1..(Len(log') + 1)
               PROVE  NumberLines(log', i) = {} \/ \E j : IsLast(j, NumberLines(log', i))
    BY DEF NumbersKnown
  <2>1. CASE i \in 1..(Len(log) + 1)
    BY <1>3, <2>1 DEF NumbersKnown
  <2>2. CASE i = Len(log') + 1
    BY <1>5, <2>2
  <2> QED BY <1>2, <2>1, <2>2
<1>7. ASSUME status' \in {"reading", "done"}, astray' = {}
      PROVE  /\ numOfNodes' = NodesFor(log', Len(log') + 1)
             /\ \A i \in DOMAIN log' : ~Refused(log'[i], NodesFor(log', i))
  <2>0. astray = {}
    BY <1>7, LineStrays
  <2>1. ~Refused(l, numOfNodes)
    BY <1>7, RefusedFails
  <2>2. numOfNodes = NodesFor(log, Len(log) + 1)
    BY <1>1, <2>0 DEF Right
  <2>3. IF l.key = "numOfNodes" THEN numOfNodes' = l.num ELSE numOfNodes' = numOfNodes
    <3>1. CASE setNumberOfNodes(l)
      <4>1. l.key = "numOfNodes"
        BY <3>1 DEF setNumberOfNodes, Key, NoKey
      <4>2. ~Fail /\ status' # "failing"
        BY <1>7 DEF Fail
      <4> QED BY <3>1, <4>1, <4>2 DEF setNumberOfNodes
    <3>2. CASE ~setNumberOfNodes(l)
      <4>1. Key(l) # "numOfNodes"
        BY <3>2, ConfigAssumption
        DEF ReadLine, RejectLine, setNodeSetting, SetterKeys, setkv, NoKey, include
      <4>2. l.key # "numOfNodes"
        BY <4>1, LineTyped DEF Key, BadSpan, Dash
      <4>3. numOfNodes' = numOfNodes
        BY <3>2 DEF ReadLine, RejectLine, setNodeSetting, setkv, include, Fail, SetNodes
      <4> QED BY <4>2, <4>3
    <3> QED BY <3>1, <3>2
  <2>4. numOfNodes' = NodesFor(log', Len(log') + 1)
    BY <1>5, <2>2, <2>3
  <2>5. ASSUME NEW i \in DOMAIN log'
        PROVE  ~Refused(log'[i], NodesFor(log', i))
    <3>1. CASE i \in 1..Len(log)
      <4>1. log'[i] = log[i] /\ NodesFor(log', i) = NodesFor(log, i)
        BY <1>2, <1>3, <3>1
      <4> QED BY <1>1, <1>2, <2>0, <3>1, <4>1 DEF Right
    <3>2. CASE i = Len(log) + 1
      <4>1. log'[i] = l /\ NodesFor(log', i) = numOfNodes
        BY <1>2, <1>3, <1>4, <2>2, <3>2
      <4> QED BY <2>1, <4>1
    <3> QED BY <1>2, <3>1, <3>2
  <2> QED BY <2>4, <2>5
<1> QED BY <1>6, <1>7 DEF Right

\* A configuration that has not written outside the table is accepted only if
\* the parser refuses no line of it, however long it is and however deep its
\* files are included (setConfigurationFromFile).
THEOREM AcceptedConfigHasNoRefused == Spec => []AcceptedHasNoRefused
<1>1. Init => NumbersKnown /\ Right
  <2> SUFFICES ASSUME Init PROVE NumbersKnown /\ Right
    OBVIOUS
  <2>1. log = <<>> /\ Len(log) = 0 /\ DOMAIN log = {} /\ numOfNodes = 0
    BY DEF Init
  <2>2. \A i \in 1..1 : NumberLines(log, i) = {}
    BY DEF NumberLines
  <2> QED BY <2>1, <2>2 DEF NumbersKnown, Right, NodesFor
<1>2. Inv /\ NumbersKnown /\ Right /\ [Next]_vars => (NumbersKnown /\ Right)'
  <2> SUFFICES ASSUME Inv, NumbersKnown, Right, [Next]_vars
               PROVE  NumbersKnown' /\ Right'
    OBVIOUS
  <2>1. ASSUME NEW l \in Lines, ReadLine(l) PROVE NumbersKnown' /\ Right'
    BY <2>1, RightKept
  <2>2. CASE /\ UNCHANGED <<log, numOfNodes, astray>>
             /\ status' \in {"reading", "done"} => status \in {"reading", "done"}
    BY <2>2 DEF NumbersKnown, Right
  <2>3. CASE EndOfFile \/ ReturnFailure \/ Crash
    BY <2>2, <2>3 DEF EndOfFile, ReturnFailure, Crash
  <2>4. CASE UNCHANGED vars
    BY <2>2, <2>4 DEF vars
  <2> QED BY <2>1, <2>3, <2>4 DEF Next
<1>3. Right => AcceptedHasNoRefused
  BY NodesAre DEF Right, AcceptedHasNoRefused
<1> QED BY <1>1, <1>2, <1>3, InvHolds, PTL DEF Spec

=============================================================================
