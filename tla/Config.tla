-------------------------------- MODULE Config ------------------------------
(***************************************************************************)
(* The configuration parser of Airline (src/airline/Config.{h,cc}): lines  *)
(* of a file and of the files it includes are applied one after the other  *)
(* to a table of nodes, and the first line that cannot be applied makes    *)
(* every open file fail.  The file is not given: any line may come next.   *)
(***************************************************************************)
EXTENDS Integers, Sequences

CONSTANTS
    Lines,     \* the lines a file may consist of
    KvKeys,    \* keys stored by name (txPower, plc_link, ...)
    MaxOpen,   \* files that can be open at once
    MaxLines   \* bound: lines read

SetterKeys == {"nodeExec", "captureFile", "nodePosition", "nodePromiscuous"}
NodeKeys   == SetterKeys \cup KvKeys
Keys       == NodeKeys \cup {"numOfNodes", "include"}
NoKey      == "no key"   \* the empty key getKeyRange returns for a bad range

\* A line: its key, the nodes the key names (all, [beg] or [beg-end]), the
\* number a numOfNodes line gives, and its value.  The numbers may have a
\* sign.  "junk" is not a number, "short" a position of fewer than three
\* parts, "missing" no file's path.
LineType == [key : Keys, form : {"all", "one", "span"}, beg : Int, end : Int,
             num : Int, val : STRING]

ASSUME ConfigAssumption ==
    /\ KvKeys \cap (SetterKeys \cup {"numOfNodes", "include", NoKey}) = {}
    /\ Lines \subseteq LineType
    /\ \A l \in Lines : l.key \in {"numOfNodes", "include"} => l.form = "all"
    /\ \A l \in Lines : l.val # "unset"
    /\ MaxOpen \in Nat \ {0}
    /\ MaxLines \in Nat

VARIABLES
    numOfNodes,
    nodeArray,   \* per node, its settings
    keyval,      \* settings of no node in particular
    depth,       \* open files
    status,      \* "reading", "failing" (FAILURE on its way out), "done",
                 \* "failed" or "crashed"
    astray,      \* history: the indices written to that nodeArray does not have
    log          \* history: the lines read so far

vars == <<numOfNodes, nodeArray, keyval, depth, status, astray, log>>

Vals == {l.val : l \in Lines} \cup {"unset"}

TypeOK ==
    /\ numOfNodes \in Nat
    /\ nodeArray \in [0..(numOfNodes - 1) -> [NodeKeys -> Vals]]
    /\ keyval \in [KvKeys -> Vals]
    /\ depth \in 0..MaxOpen
    /\ status \in {"reading", "failing", "done", "failed", "crashed"}
    /\ astray \subseteq Int
    /\ log \in Seq(Lines)

Nodeinfo == [k \in NodeKeys |-> "unset"]

Init ==
    /\ numOfNodes = 0
    /\ nodeArray = [n \in {} |-> Nodeinfo]
    /\ keyval = [k \in KvKeys |-> "unset"]
    /\ depth = 1
    /\ status = "reading"
    /\ astray = {}
    /\ log = <<>>

-----------------------------------------------------------------------------
(* getKeyRange: a range that does not ascend has no key, one that is too    *)
(* long is cut off.  The sign of a negative index is taken for the dash of  *)
(* a range: [-2] is the range from -2 to 2.                                 *)

Dash(l) == l.form = "span" \/ (l.form = "one" /\ l.beg < 0)

\* The number after the first dash.
AfterDash(l) == IF l.beg < 0 THEN 0 - l.beg ELSE l.end

BadSpan(l) == Dash(l) /\ AfterDash(l) <= l.beg

Key(l) == IF BadSpan(l) THEN NoKey ELSE l.key

Beg(l) == IF l.form = "all" THEN 0 ELSE l.beg

\* Mutant: the range without its last node.
EndShort(l) ==
    CASE l.form = "all" -> numOfNodes - 1
      [] l.form = "one" /\ ~Dash(l) -> l.beg
      [] Dash(l) -> IF AfterDash(l) >= numOfNodes /\ ~BadSpan(l)
                    THEN numOfNodes - 1
                    ELSE AfterDash(l) - 1

End(l) ==
    CASE l.form = "all" -> numOfNodes - 1
      [] l.form = "one" /\ ~Dash(l) -> l.beg
      [] Dash(l) -> IF AfterDash(l) >= numOfNodes /\ ~BadSpan(l)
                    THEN numOfNodes - 1
                    ELSE AfterDash(l)

\* The indices the setters' loops run over.
Selected(l) == Beg(l)..End(l)

\* Mutant: off by one.
OutOfBoundsByOne(l) == End(l) > numOfNodes

\* The check of the range, which looks at its end only.
OutOfBounds(l) == End(l) >= numOfNodes

-----------------------------------------------------------------------------
(* setConfigurationFromFile, per kind of line.                              *)

Fail == /\ status' = "failing"
        /\ UNCHANGED <<numOfNodes, nodeArray, keyval, depth, astray>>

\* What the loop over the range writes to and the table does not have: what lies
\* there is damaged.
Stray(l) == Selected(l) \ DOMAIN nodeArray

\* setNode*, setNodeKV: the loop over the range.
SetNodes(l) ==
    /\ nodeArray' = [n \in DOMAIN nodeArray |->
                        IF n \in Selected(l) THEN [nodeArray[n] EXCEPT ![l.key] = l.val]
                                             ELSE nodeArray[n]]
    /\ astray' = astray \cup Stray(l)
    /\ UNCHANGED <<numOfNodes, keyval, depth, status>>

\* Mutant: the old entries survive.
setNumberOfNodesKeep(l) ==
    /\ Key(l) = "numOfNodes"
    /\ \/ l.val = "junk" /\ Fail
       \/ /\ l.val # "junk"
          /\ numOfNodes' = l.num
          /\ UNCHANGED <<nodeArray, keyval, depth, status, astray>>

\* stoi may throw; otherwise the old table is gone, and a new one, empty,
\* replaces it, unless new throws because its size is negative.
setNumberOfNodes(l) ==
    /\ Key(l) = "numOfNodes"
    /\ \/ l.val = "junk" /\ Fail
       \/ /\ l.val # "junk"
          /\ numOfNodes' = IF l.num < 0 THEN 0 ELSE l.num
          /\ nodeArray' = [n \in 0..(l.num - 1) |-> Nodeinfo]
          /\ status' = IF l.num < 0 THEN "failing" ELSE status
          /\ UNCHANGED <<keyval, depth, astray>>

RejectLine(l) ==
    /\ Key(l) # "numOfNodes"
    /\ numOfNodes = 0 \/ OutOfBounds(l)
    /\ Fail

Applicable(l) == numOfNodes # 0 /\ ~OutOfBounds(l)

\* The number in a position or a promiscuous mode is parsed once per node.
Throws(l) == /\ Key(l) \in {"nodePosition", "nodePromiscuous"}
             /\ l.val = "junk"
             /\ Selected(l) # {}

\* A position of fewer than three parts is reported and ignored.
Ignored(l) == Key(l) = "nodePosition" /\ l.val = "short"

setNodeSetting(l) ==
    /\ Key(l) \in SetterKeys
    /\ Applicable(l)
    /\ \/ Throws(l) /\ Fail
       \/ ~Throws(l) /\ ~Ignored(l) /\ SetNodes(l)
       \/ Ignored(l) /\ UNCHANGED <<numOfNodes, nodeArray, keyval, depth, status, astray>>

\* Any other key: per node if it names nodes, else for all.  The empty key of a
\* bad range is stored too, and never looked up.
setkv(l) ==
    /\ Key(l) \in KvKeys \cup {NoKey}
    /\ Applicable(l)
    /\ \/ Key(l) # NoKey /\ l.form # "all" /\ SetNodes(l)
       \/ /\ Key(l) # NoKey /\ l.form = "all"
          /\ keyval' = [keyval EXCEPT ![l.key] = l.val]
          /\ UNCHANGED <<numOfNodes, nodeArray, depth, status, astray>>
       \/ /\ Key(l) = NoKey
          /\ astray' = astray \cup Stray(l)
          /\ UNCHANGED <<numOfNodes, nodeArray, keyval, depth, status>>

include(l) ==
    /\ Key(l) = "include"
    /\ Applicable(l)
    /\ \/ (l.val = "missing" \/ depth = MaxOpen) /\ Fail
       \/ /\ l.val # "missing" /\ depth < MaxOpen
          /\ depth' = depth + 1
          /\ UNCHANGED <<numOfNodes, nodeArray, keyval, status, astray>>

ReadLine(l) ==
    /\ status = "reading"
    /\ Len(log) < MaxLines
    /\ log' = Append(log, l)
    /\ \/ setNumberOfNodes(l)
       \/ RejectLine(l)
       \/ setNodeSetting(l)
       \/ setkv(l)
       \/ include(l)

\* The end of a file: back to the one that includes it.
EndOfFile ==
    /\ status = "reading"
    /\ depth' = depth - 1
    /\ status' = IF depth = 1 THEN "done" ELSE "reading"
    /\ UNCHANGED <<numOfNodes, nodeArray, keyval, astray, log>>

\* Mutant: the result of an include is not looked at.
ReturnFailureIgnored ==
    /\ status = "failing"
    /\ depth' = depth - 1
    /\ status' = IF depth = 1 THEN "failed" ELSE "reading"
    /\ UNCHANGED <<numOfNodes, nodeArray, keyval, astray, log>>

\* FAILURE leaves one file, and the one that includes it fails too.
ReturnFailure ==
    /\ status = "failing"
    /\ depth' = depth - 1
    /\ status' = IF depth = 1 THEN "failed" ELSE "failing"
    /\ UNCHANGED <<numOfNodes, nodeArray, keyval, astray, log>>

\* A write outside the table is undefined behaviour: the program may die of the
\* damage at any point from then on.
Crash ==
    /\ status \in {"reading", "failing"}
    /\ astray # {}
    /\ status' = "crashed"
    /\ UNCHANGED <<numOfNodes, nodeArray, keyval, depth, astray, log>>

Next == \/ \E l \in Lines : ReadLine(l)
        \/ EndOfFile
        \/ ReturnFailure
        \/ Crash

Spec == Init /\ [][Next]_vars

-----------------------------------------------------------------------------
(* What a configuration means, from its lines alone.                        *)

Names(l, n) ==
    CASE l.form = "all"  -> TRUE
      [] l.form = "one"  -> n = l.beg
      [] l.form = "span" -> l.beg < l.end /\ n >= l.beg /\ n <= l.end

\* Line l is about setting k of node n.
Sets(l, n, k) ==
    /\ l.key = k
    /\ Names(l, n)
    /\ k \in KvKeys => l.form # "all"
    /\ ~(k = "nodePosition" /\ l.val = "short")

\* A later numOfNodes started a new table.
Forgotten(ls, i) == \E j \in DOMAIN ls : j > i /\ ls[j].key = "numOfNodes"

\* After the lines ls, v is the setting k of node n.
LastLine(ls, n, k, v) ==
    \/ /\ v = "unset"
       /\ \A i \in DOMAIN ls : Sets(ls[i], n, k) => Forgotten(ls, i)
    \/ \E i \in DOMAIN ls :
          /\ Sets(ls[i], n, k)
          /\ ~Forgotten(ls, i)
          /\ v = ls[i].val
          /\ \A j \in DOMAIN ls : j > i => ~Sets(ls[j], n, k)

\* Line l is about setting k of all nodes, which is not in the table but stored by
\* name.
ForAll(l, k) == l.key = k /\ l.form = "all"

\* After the lines ls, v is what is stored under the name k.
LastForAll(ls, k, v) ==
    \/ /\ v = "unset"
       /\ \A i \in DOMAIN ls : ~ForAll(ls[i], k)
    \/ \E i \in DOMAIN ls :
          /\ ForAll(ls[i], k)
          /\ v = ls[i].val
          /\ \A j \in DOMAIN ls : j > i => ~ForAll(ls[j], k)

\* As long as no line has written outside the table, every setting in it is the
\* one of the last line about that setting of that node since the last
\* numOfNodes, over all the ways ranges are written, cut off and ignored; and
\* every setting stored by name the one of the last line for all nodes, which no
\* numOfNodes undoes (setConfigurationFromFile, getKeyRange, setNode*,
\* setNodeKV, Config::set).  Where a key of KvKeys has both, the code has no
\* order between them: the node's own counts, also when the line for all nodes is
\* the later one (setNodeSpecificParam).
SettingsMeanLastLine ==
    status \in {"reading", "done"} /\ astray = {} =>
        /\ \A n \in DOMAIN nodeArray, k \in NodeKeys : LastLine(log, n, k, nodeArray[n][k])
        /\ \A k \in KvKeys : LastForAll(log, k, keyval[k])

\* No line writes past the end of the table, although the check of a range and
\* its cut-off are made before its key is known, and none before the start but
\* one with a negative index, at or above that index: that one does, because the
\* check looks at the end of a range only (getKeyRange,
\* setConfigurationFromFile).
StrayOnlyBelow ==
    \A n \in astray : n < 0 /\ \E i \in DOMAIN log : log[i].form # "all" /\ log[i].beg <= n

\* The number of nodes line i is applied to.
NodesAt(i) ==
    LET Js == {j \in 1..(i - 1) : log[j].key = "numOfNodes"}
    IN  IF Js = {} THEN 0 ELSE log[CHOOSE j \in Js : \A k \in Js : k <= j].num

\* A line the parser refuses when there are m nodes: a number of nodes that is
\* none, a setting before it, an index or a descending range past the end, a
\* file that is not there, a position or mode of some node that is no number.
Refused(l, m) ==
    \/ l.key = "numOfNodes" /\ (l.val = "junk" \/ l.num < 0)
    \/ /\ l.key # "numOfNodes"
       /\ \/ m <= 0
          \/ l.form = "one" /\ l.beg >= m
          \/ l.form = "span" /\ l.end <= l.beg /\ l.end >= m
          \/ l.key = "include" /\ l.val = "missing"
          \/ /\ l.key \in {"nodePosition", "nodePromiscuous"}
             /\ l.val = "junk"
             /\ \E n \in 0..(m - 1) : Names(l, n)

\* As long as no line has written outside the table, a configuration is accepted
\* only if the parser refuses none of its lines, however deep in includes the
\* line is (setConfigurationFromFile).  Not refused, and so accepted, are
\* negative indices, other descending ranges and short positions (both only
\* logged), and ranges that are cut off at the end.
AcceptedHasNoRefused ==
    status = "done" /\ astray = {} => \A i \in DOMAIN log : ~Refused(log[i], NodesAt(i))

=============================================================================
