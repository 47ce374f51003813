------------------------------ MODULE MCConfig ------------------------------
(* Instances of Config for TLC. *)
EXTENDS Config, TLC

Line(k, f, b, e, v) == [key |-> k, form |-> f, beg |-> b, end |-> e, num |-> 0, val |-> v]
Number(n) == [key |-> "numOfNodes", form |-> "all", beg |-> 0, end |-> 0,
              num |-> n, val |-> "number"]

OneKey == {"txPower"}

Numbers == {Number(2), Number(4), Number(-1),
            Line("numOfNodes", "all", 0, 0, "junk")}

\* Ranges inside, across and beyond tables of 2 and 4 nodes, bad ones, and ones
\* with a negative index.
Settings == {Line("nodeExec", "all", 0, 0, "a"),
             Line("nodeExec", "one", 2, 0, "b"),
             Line("nodeExec", "span", 1, 4, "b"),
             Line("nodeExec", "span", 3, 9, "c"),
             Line("nodeExec", "span", 2, 1, "c"),
             Line("nodeExec", "one", -1, 0, "c"),
             Line("nodePosition", "span", 0, 1, "a"),
             Line("nodePosition", "all", 0, 0, "short"),
             Line("nodePosition", "one", 1, 0, "junk"),
             Line("nodePromiscuous", "span", 5, 7, "junk"),
             Line("txPower", "span", 0, 2, "a"),
             Line("txPower", "span", -3, 1, "b"),
             Line("txPower", "all", 0, 0, "b")}

Includes == {Line("include", "all", 0, 0, "file"),
             Line("include", "all", 0, 0, "missing")}

AnyLine == Numbers \cup Settings \cup Includes

=============================================================================
