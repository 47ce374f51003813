---------------------------- MODULE CanvasProofs ----------------------------
(* Theorems about Canvas, for any number of states of the network. *)
EXTENDS Canvas, TLAPS

USE DEF Graphs, NoGraph, Layouts, Requests

\* What the newest request brings is no older than what is shown, whatever the
\* older ones bring: it was sent after the graph shown had been served.
NewestIsNewest ==
    /\ shown.graph <= net
    /\ xhr.state = "sent" \/ xhr.text = NoGraph \/ xhr.text >= shown.graph
    /\ xhr.text <= net

\* A fit is due only while a view is asked for.
FitIsDue == first_run => asked = layout_name

IInv == TypeOK /\ NewestIsNewest /\ FitIsDue

LEMMA InitIInv == Init => IInv
  <1> SUFFICES ASSUME Init PROVE IInv OBVIOUS
  <1> USE CanvasAssumption DEF Init, NewRequest, NewCanvas
  <1>1. TypeOK BY DEF TypeOK
  <1>2. NewestIsNewest /\ FitIsDue BY DEF NewestIsNewest, FitIsDue
  <1> QED BY <1>1, <1>2 DEF IInv

\* What a drawing does, given an answer that is not older than what is shown.
LEMMA DrawKeeps ==
    ASSUME IInv, NEW text \in Graphs \cup {NoGraph}, Draw(text),
           text <= net, text = NoGraph \/ text >= shown.graph
    PROVE  /\ shown' \in [graph : Graphs \cup {NoGraph}, layout : Layouts]
           /\ first_run' \in BOOLEAN
           /\ asked' \in Layouts \cup {"none"}
           /\ window' \in {"fitted", "moved"}
           /\ shown'.graph <= net
           /\ shown'.graph >= shown.graph
           /\ text = NoGraph \/ text >= shown'.graph
           /\ first_run' => asked' = layout_name
  <1> USE DEF IInv, TypeOK, NewestIsNewest, FitIsDue
  <1>1. CASE text = NoGraph
    <2>1. UNCHANGED <<first_run, shown, asked, window>> BY <1>1 DEF Draw
    <2> QED BY <1>1, <2>1, CanvasAssumption
  <1>2. CASE text # NoGraph
    <2>1. /\ shown' = [graph |-> text, layout |-> layout_name]
          /\ window' = IF first_run THEN "fitted" ELSE window
          /\ asked' = IF first_run /\ layout_name = asked THEN "none" ELSE asked
          /\ first_run' = FALSE
      BY <1>2 DEF Draw
    <2>2. text \in Nat /\ text \in Graphs BY <1>2, CanvasAssumption
    <2>3. shown' \in [graph : Graphs \cup {NoGraph}, layout : Layouts]
      BY <2>1, <2>2
    <2>4. shown'.graph = text BY <2>1
    <2>5. /\ first_run' \in BOOLEAN
          /\ asked' \in Layouts \cup {"none"}
          /\ window' \in {"fitted", "moved"}
          /\ first_run' => asked' = layout_name
      BY <2>1
    <2> QED BY <1>2, <2>2, <2>3, <2>4, <2>5
  <1> QED BY <1>1, <1>2

\* The handler, when it is the newest request's answer it finds.
LEMMA HandlerKeeps ==
    ASSUME IInv, onreadystatechange, UNCHANGED <<net, layout_name>>,
           xhr' \in Requests, xhr'.text = xhr.text, xhr.state # "sent" \/ xhr' = xhr
    PROVE  /\ shown' \in [graph : Graphs \cup {NoGraph}, layout : Layouts]
           /\ first_run' \in BOOLEAN
           /\ asked' \in Layouts \cup {"none"}
           /\ window' \in {"fitted", "moved"}
           /\ shown'.graph >= shown.graph
           /\ NewestIsNewest'
           /\ FitIsDue'
  <1>1. CASE xhr'.state = "done"
    <2>1. Draw(xhr'.text) BY <1>1 DEF onreadystatechange
    <2>2. xhr'.text \in Graphs \cup {NoGraph} BY DEF Requests
    <2>3. xhr'.text <= net /\ (xhr'.text = NoGraph \/ xhr'.text >= shown.graph)
      BY <1>1 DEF IInv, NewestIsNewest
    <2>4. /\ shown' \in [graph : Graphs \cup {NoGraph}, layout : Layouts]
          /\ first_run' \in BOOLEAN
          /\ asked' \in Layouts \cup {"none"}
          /\ window' \in {"fitted", "moved"}
          /\ shown'.graph <= net
          /\ shown'.graph >= shown.graph
          /\ xhr'.text = NoGraph \/ xhr'.text >= shown'.graph
          /\ first_run' => asked' = layout_name
      BY <2>1, <2>2, <2>3, DrawKeeps
    <2> QED BY <2>3, <2>4 DEF NewestIsNewest, FitIsDue
  <1>2. CASE xhr'.state # "done"
    <2>1. UNCHANGED <<first_run, shown, asked, window>> BY <1>2 DEF onreadystatechange
    <2> QED BY <2>1, CanvasAssumption DEF IInv, TypeOK, NewestIsNewest, FitIsDue, Requests
  <1> QED BY <1>1, <1>2

\* Every step keeps the invariant and never shows an older graph.
LEMMA StepKeeps ==
    ASSUME IInv, [Next]_vars
    PROVE  IInv' /\ shown'.graph >= shown.graph
  <1> USE CanvasAssumption
  <1> USE DEF IInv
  <1>1. ASSUME query_graph
        PROVE  /\ xhr' = [state |-> "sent", text |-> NoGraph]
               /\ xhr' \in Requests
               /\ older' \subseteq [state : {"sent", "served"},
                                    text : Graphs \cup {NoGraph}]
    <2>1. xhr.state # "done" => xhr \in [state : {"sent", "served"},
                                         text : Graphs \cup {NoGraph}]
      BY DEF TypeOK
    <2> QED BY <1>1, <2>1 DEF query_graph, NewRequest, TypeOK
  <1>2. CASE Tick
    BY <1>1, <1>2 DEF Tick, TypeOK, NewestIsNewest, FitIsDue
  <1>3. CASE Click
    <2>1. CASE view_position
      BY <1>1, <2>1 DEF view_position, TypeOK, NewestIsNewest, FitIsDue
    <2>2. CASE view_tree
      BY <1>1, <2>2 DEF view_tree, TypeOK, NewestIsNewest, FitIsDue
    <2> QED BY <1>3, <2>1, <2>2 DEF Click
  <1>4. CASE Pan
    BY <1>4 DEF Pan, TypeOK, NewestIsNewest, FitIsDue
  <1>5. CASE NetChange
    BY <1>5 DEF NetChange, TypeOK, NewestIsNewest, FitIsDue
  <1>6. ASSUME NEW text \in Texts
        PROVE  /\ text \in Graphs \cup {NoGraph}
               /\ text = NoGraph \/ text = net
               /\ text <= net
    BY DEF Texts, TypeOK
  <1>7. ASSUME NEW text \in Texts, ServeNewest(text)
        PROVE  IInv' /\ shown'.graph >= shown.graph
    <2>1. /\ xhr' = [state |-> "served", text |-> text]
          /\ UNCHANGED <<net, older, layout_name, first_run, shown, asked, window>>
      BY <1>7 DEF ServeNewest, Served
    <2> QED BY <1>6, <2>1 DEF TypeOK, NewestIsNewest, FitIsDue
  <1>8. CASE ArriveNewest
    <2>1. /\ xhr.state = "served"
          /\ xhr' = [xhr EXCEPT !.state = "done"]
          /\ onreadystatechange
          /\ UNCHANGED <<net, older, layout_name>>
      BY <1>8 DEF ArriveNewest
    <2>2. xhr' \in Requests /\ xhr'.text = xhr.text BY <2>1 DEF TypeOK
    <2>3. /\ shown' \in [graph : Graphs \cup {NoGraph}, layout : Layouts]
          /\ first_run' \in BOOLEAN
          /\ asked' \in Layouts \cup {"none"}
          /\ window' \in {"fitted", "moved"}
          /\ shown'.graph >= shown.graph
          /\ NewestIsNewest'
          /\ FitIsDue'
      BY <2>1, <2>2, HandlerKeeps
    <2> QED BY <2>1, <2>2, <2>3 DEF TypeOK
  <1>9. ASSUME NEW r \in older, EventOlder(r)
        PROVE  IInv' /\ shown'.graph >= shown.graph
    <2>1. /\ older' \in {older, older \ {r}}
          /\ onreadystatechange
          /\ UNCHANGED <<net, xhr, layout_name>>
      BY <1>9 DEF EventOlder
    <2>2. xhr' \in Requests /\ xhr'.text = xhr.text BY <2>1 DEF TypeOK
    <2>3. /\ shown' \in [graph : Graphs \cup {NoGraph}, layout : Layouts]
          /\ first_run' \in BOOLEAN
          /\ asked' \in Layouts \cup {"none"}
          /\ window' \in {"fitted", "moved"}
          /\ shown'.graph >= shown.graph
          /\ NewestIsNewest'
          /\ FitIsDue'
      BY <2>1, <2>2, HandlerKeeps
    <2> QED BY <2>1, <2>2, <2>3 DEF TypeOK
  <1>10. ASSUME NEW r \in older, NEW text \in Texts, ServeOlder(r, text)
         PROVE  IInv' /\ shown'.graph >= shown.graph
    <2>1. /\ older' \in {older \cup {Served(text)}, (older \ {r}) \cup {Served(text)}}
          /\ UNCHANGED <<net, xhr, layout_name, first_run, shown, asked, window>>
      BY <1>10 DEF ServeOlder
    <2>2. Served(text) \in [state : {"sent", "served"}, text : Graphs \cup {NoGraph}]
      BY <1>6 DEF Served
    <2> QED BY <2>1, <2>2 DEF TypeOK, NewestIsNewest, FitIsDue
  <1>11. CASE UNCHANGED vars
    BY <1>11 DEF vars, TypeOK, NewestIsNewest, FitIsDue
  <1> QED BY <1>2, <1>3, <1>4, <1>5, <1>7, <1>8, <1>9, <1>10, <1>11 DEF Next

\* The invariant holds throughout.
THEOREM Invariance == Spec => []IInv
  <1>1. IInv /\ [Next]_vars => IInv' BY StepKeeps
  <1> QED BY InitIInv, <1>1, PTL DEF Spec

\* Type correctness of the page's state: in particular no layout but the two
\* there are buttons for is ever asked for (view_position, view_tree).
THEOREM TypeCorrect == Spec => []TypeOK
  <1>1. IInv => TypeOK BY DEF IInv
  <1> QED BY Invariance, <1>1, PTL

\* The canvas never replaces a state of the network by an earlier one, in
\* whatever order requests are served and answers arrive.
THEOREM CanvasNeverGoesBack == Spec => NeverBackwards
  <1>1. IInv /\ [Next]_vars => [shown'.graph >= shown.graph]_vars
    BY StepKeeps
  <1> QED BY Invariance, <1>1, PTL DEF Spec, NeverBackwards

\* The window is fitted only when a view was asked for.
THEOREM FitsAreAskedFor == Spec => FitsOnlyWhenAsked
  <1>1. IInv /\ [Next]_vars
          => [window = "moved" /\ window' = "fitted" => asked # "none"]_vars
    <2> SUFFICES ASSUME IInv, Next, window = "moved", window' = "fitted"
                 PROVE  asked # "none"
      OBVIOUS
    <2>1. ASSUME NEW text, Draw(text) PROVE asked # "none"
      <3>1. first_run BY <2>1 DEF Draw
      <3> QED BY <3>1 DEF IInv, FitIsDue, TypeOK
    <2>2. onreadystatechange => asked # "none"
      BY <2>1 DEF onreadystatechange
    <2> QED BY <2>2 DEF Next, Tick, Click, view_position, view_tree, Pan, NetChange,
               ServeNewest, ServeOlder, ArriveNewest, EventOlder
  <1> QED BY Invariance, <1>1, PTL DEF Spec, FitsOnlyWhenAsked

=============================================================================
