-------------------------------- MODULE Canvas ------------------------------
(***************************************************************************)
(* The page of the web canvas (cytoscape_app.js): every second, and at     *)
(* each press of a view button, it asks the server for the graph of the    *)
(* network, and draws what comes back.  Requests overlap.  The page keeps  *)
(* one global, xhr, for all of them: the handler of every request, whoever *)
(* it belongs to, looks at the newest one.                                 *)
(*                                                                         *)
(* Of the server the page sees only when it answers and with what: the     *)
(* network as it is when the request is served, or an answer that is no    *)
(* JSON (status 500, a closed connection).  It may serve open requests in  *)
(* any order, and its answers may overtake each other.                     *)
(***************************************************************************)
EXTENDS Naturals

CONSTANTS
    MaxNet,     \* states of the network, numbered as it goes through them
    MayFail     \* the server may answer without a graph

ASSUME CanvasAssumption ==
    /\ MaxNet \in Nat \ {0}
    /\ MayFail \in BOOLEAN

NoGraph == 0
Graphs  == 1..MaxNet
Layouts == {"preset", "dagre"}

\* A request: what became of it, and the text of its answer; NoGraph stands
\* for a text JSON.parse throws at.
Requests == [state : {"sent", "served", "done"}, text : Graphs \cup {NoGraph}]

VARIABLES
    net,          \* the network's state
    xhr,          \* the newest request
    older,        \* earlier requests that are still open
    layout_name,
    first_run,
    shown,        \* what cyInstance shows: the graph, its layout
    asked,        \* history: the view asked for and not yet fitted into the
                  \* window, or "none"
    window        \* where the user looks: what the last fit showed, or elsewhere

vars == <<net, xhr, older, layout_name, first_run, shown, asked, window>>

TypeOK ==
    /\ net \in Graphs
    /\ xhr \in Requests
    /\ older \subseteq [state : {"sent", "served"}, text : Graphs \cup {NoGraph}]
    /\ layout_name \in Layouts
    /\ first_run \in BOOLEAN
    /\ shown \in [graph : Graphs \cup {NoGraph}, layout : Layouts]
    /\ asked \in Layouts \cup {"none"}
    /\ window \in {"fitted", "moved"}

-----------------------------------------------------------------------------
\* A request as query_graph opens and sends it.
NewRequest == [state |-> "sent", text |-> NoGraph]

\* cyInstance, created without elements.
NewCanvas == [graph |-> NoGraph, layout |-> "preset"]

\* The page has been loaded and has asked for the first time.
Init ==
    /\ net = 1
    /\ shown = NewCanvas
    /\ first_run = TRUE
    /\ layout_name = "preset"
    /\ xhr = NewRequest
    /\ older = {}
    /\ asked = "preset"
    /\ window = "moved"

\* The global xhr is replaced; the request it named stays open, unless it is
\* over, and only its handler knows of it.
query_graph ==
    /\ xhr' = NewRequest
    /\ older' = IF xhr.state = "done" THEN older ELSE older \cup {xhr}

\* Mutant: the first answer is taken to have come once it has been asked for.
TickForgetsFirst ==
    /\ query_graph
    /\ first_run' = FALSE
    /\ UNCHANGED <<net, layout_name, shown, asked, window>>

\* setInterval: whether or not the last answer has come.
Tick ==
    /\ query_graph
    /\ UNCHANGED <<net, layout_name, first_run, shown, asked, window>>

\* Mutant: a name cytoscape's extension registers no layout under.
ViewTreeTypo ==
    /\ layout_name' = "tree"
    /\ first_run' = TRUE
    /\ query_graph
    /\ asked' = "dagre"
    /\ UNCHANGED <<net, shown, window>>

view_position ==
    /\ layout_name' = "preset"
    /\ first_run' = TRUE
    /\ query_graph
    /\ asked' = "preset"
    /\ UNCHANGED <<net, shown, window>>

view_tree ==
    /\ layout_name' = "dagre"
    /\ first_run' = TRUE
    /\ query_graph
    /\ asked' = "dagre"
    /\ UNCHANGED <<net, shown, window>>

\* The user drags or zooms what cyInstance shows.
Pan ==
    /\ window' = "moved"
    /\ UNCHANGED <<net, xhr, older, layout_name, first_run, shown, asked>>

-----------------------------------------------------------------------------
(* The network and the server.                                              *)

NetChange ==
    /\ net < MaxNet
    /\ net' = net + 1
    /\ UNCHANGED <<xhr, older, layout_name, first_run, shown, asked, window>>

\* The texts the server may answer a request with now.
Texts == {net} \cup (IF MayFail THEN {NoGraph} ELSE {})

Served(text) == [state |-> "served", text |-> text]

ServeNewest(text) ==
    /\ xhr.state = "sent"
    /\ text \in Texts
    /\ xhr' = Served(text)
    /\ UNCHANGED <<net, older, layout_name, first_run, shown, asked, window>>

\* "older" is a set: a member stands for one open request or for several that
\* nothing tells apart, so it may remain when one of them goes on.
ServeOlder(r, text) ==
    /\ r.state = "sent"
    /\ text \in Texts
    /\ older' \in {older \cup {Served(text)}, (older \ {r}) \cup {Served(text)}}
    /\ UNCHANGED <<net, xhr, layout_name, first_run, shown, asked, window>>

-----------------------------------------------------------------------------
(* The handler of readystatechange.                                         *)

\* Mutant: first_run is not reset.
DrawAlwaysFit(text) ==
    IF text = NoGraph
    THEN UNCHANGED <<first_run, shown, asked, window>>
    ELSE /\ shown' = [graph |-> text, layout |-> layout_name]
         /\ window' = IF first_run THEN "fitted" ELSE window
         /\ asked' = IF first_run /\ layout_name = asked THEN "none" ELSE asked
         /\ UNCHANGED first_run

\* Mutant: only a first answer is drawn.
DrawOnce(text) ==
    IF text = NoGraph \/ ~first_run
    THEN UNCHANGED <<first_run, shown, asked, window>>
    ELSE /\ shown' = [graph |-> text, layout |-> layout_name]
         /\ window' = IF first_run THEN "fitted" ELSE window
         /\ asked' = IF first_run /\ layout_name = asked THEN "none" ELSE asked
         /\ first_run' = FALSE

\* The text is parsed, its elements replace those shown, and they are laid out
\* as layout_name now says, with the window fitted to them if first_run says so.
\* JSON.parse throws at any other text: the rest of the handler is not reached.
Draw(text) ==
    IF text = NoGraph
    THEN UNCHANGED <<first_run, shown, asked, window>>
    ELSE /\ shown' = [graph |-> text, layout |-> layout_name]
         /\ window' = IF first_run THEN "fitted" ELSE window
         /\ asked' = IF first_run /\ layout_name = asked THEN "none" ELSE asked
         /\ first_run' = FALSE

\* Whoever's event it is, readyState and responseText are the newest request's.
onreadystatechange ==
    IF xhr'.state = "done" THEN Draw(xhr'.text)
                           ELSE UNCHANGED <<first_run, shown, asked, window>>

\* The newest request is over.
ArriveNewest ==
    /\ xhr.state = "served"
    /\ xhr' = [xhr EXCEPT !.state = "done"]
    /\ onreadystatechange
    /\ UNCHANGED <<net, older, layout_name>>

\* Mutant: xhr is local to query_graph, each handler sees its own request.
EventOlderLocal(r) ==
    /\ r.state = "served"
    /\ older' \in {older, older \ {r}}
    /\ Draw(r.text)
    /\ UNCHANGED <<net, xhr, layout_name>>

\* An older request is over, or has got a part of its answer: each is an event.
EventOlder(r) ==
    /\ r.state = "served"
    /\ older' \in {older, older \ {r}}
    /\ UNCHANGED xhr
    /\ onreadystatechange
    /\ UNCHANGED <<net, layout_name>>

-----------------------------------------------------------------------------
Click == view_position \/ view_tree

Next ==
    \/ Tick
    \/ Click
    \/ Pan
    \/ NetChange
    \/ \E text \in Texts : ServeNewest(text)
    \/ ArriveNewest
    \/ \E r \in older : EventOlder(r) \/ \E text \in Texts : ServeOlder(r, text)

Spec == Init /\ [][Next]_vars

\* The browser's timer goes on, the server serves and its answers arrive, with
\* no bound on how long an answer takes.
Fairness ==
    /\ WF_vars(Tick)
    /\ WF_vars(\E text \in Texts : ServeNewest(text))
    /\ WF_vars(ArriveNewest)
    /\ WF_vars(\E r \in older : EventOlder(r))

FairSpec == Spec /\ Fairness

\* Again and again the server has a graph, and answers with it before the next
\* request is sent: what the interval of a second is for.
PromptSpec ==
    /\ FairSpec
    /\ SF_vars(ServeNewest(net))
    /\ SF_vars(ArriveNewest /\ xhr.text # NoGraph)

-----------------------------------------------------------------------------
(* Properties.                                                              *)

\* The canvas never replaces a state of the network by an earlier one, although
\* answers overtake each other and late ones are not cancelled: handlers of old
\* requests draw nothing but the newest one's answer (query_graph).
NeverBackwards == [][shown'.graph >= shown.graph]_vars

\* The window the user has moved is taken back to the whole graph only to carry
\* out a press of a button or the loading of the page, once for each, however
\* many answers come late, come twice or fail in between (first_run).
FitsOnlyWhenAsked ==
    [][window = "moved" /\ window' = "fitted" => asked # "none"]_vars

\* Whichever way presses, ticks and failing answers are interleaved, the view
\* asked for last is in the end drawn and fitted (view_position, view_tree).
ViewTakesEffect == asked # "none" ~> asked = "none"

\* What happens to the network is in the end seen.
KeepsUp == \A v \in Graphs : net >= v ~> shown.graph >= v

=============================================================================
