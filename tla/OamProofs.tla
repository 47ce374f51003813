------------------------------ MODULE OamProofs -----------------------------
(***************************************************************************)
(* Theorems about Oam, for every set of clients and commands, number of    *)
(* nodes, number of polls and length of the sockets' queues.               *)
(***************************************************************************)
EXTENDS Oam, FiniteSetTheorems, TLAPS

-----------------------------------------------------------------------------
(* Lemmas about queues.                                                     *)

\* What the queues are made of: nothing, one message, one more at the end, all
\* but the first.
LEMMA SeqTyped ==
    ASSUME NEW S
    PROVE  /\ <<>> \in Seq(S)
           /\ \A x \in S : <<x>> \in Seq(S)
           /\ \A q \in Seq(S), x \in S : Append(q, x) \in Seq(S)
           /\ \A q \in Seq(S) : q # <<>> => Head(q) \in S /\ Tail(q) \in Seq(S)
OBVIOUS

\* Updates of one queue in a table of queues.
LEMMA TableTyped ==
    ASSUME NEW I, NEW S, NEW t \in [I -> Seq(S)], NEW i \in I
    PROVE  /\ [t EXCEPT ![i] = <<>>] \in [I -> Seq(S)]
           /\ \A x \in S : [t EXCEPT ![i] = <<x>>] \in [I -> Seq(S)]
           /\ \A x \in S : [t EXCEPT ![i] = Append(@, x)] \in [I -> Seq(S)]
           /\ t[i] # <<>> => /\ [t EXCEPT ![i] = Tail(@)] \in [I -> Seq(S)]
                             /\ Head(t[i]) \in S
<1>1. \A q \in Seq(S) : [t EXCEPT ![i] = q] \in [I -> Seq(S)]
  OBVIOUS
<1>2. t[i] \in Seq(S)
  OBVIOUS
<1> QED BY <1>1, <1>2, SeqTyped

-----------------------------------------------------------------------------
(* Types.                                                                   *)

\* The monitor holds a request exactly while it serves one.
MonHolds == mon.req = <<>> <=> mon.pc = "recv"

\* What a request and a reply look like, whoever made them.
LEMMA ReplyTyped ==
    ASSUME NEW req \in Requests
    PROVE  /\ req.from \in Clients
           /\ req.cmd \in Cmds
           /\ \A e \in BOOLEAN : [from |-> req.from, empty |-> e] \in Replies
BY DEF Requests, Replies

\* A response goes to a client as one of the answers there are.
LEMMA RespondTyped ==
    ASSUME client \in [Clients -> {"new", "waiting", "gone", "answered"}],
           answer \in [Clients -> Seq(Answers)],
           NEW req \in Requests, NEW a \in Answers, Respond(req, a)
    PROVE  /\ client' \in [Clients -> {"new", "waiting", "gone", "answered"}]
           /\ answer' \in [Clients -> Seq(Answers)]
<1>1. req.from \in Clients
  BY ReplyTyped
<1>2. CASE client[req.from] = "waiting"
  <2>1. answer' = [answer EXCEPT ![req.from] = <<a>>]
    BY <1>2 DEF Respond
  <2>2. answer' \in [Clients -> Seq(Answers)]
    BY <1>1, <2>1, TableTyped
  <2> QED BY <1>1, <1>2, <2>2 DEF Respond
<1>3. CASE client[req.from] # "waiting"
  BY <1>3 DEF Respond
<1> QED BY <1>2, <1>3

LEMMA InitTyped == Init => TypeOK /\ MonHolds
<1> SUFFICES ASSUME Init PROVE TypeOK /\ MonHolds
  OBVIOUS
<1>1. /\ answer \in [Clients -> Seq(Answers)]
      /\ slq \in [Nodes -> Seq(Requests)]
      /\ slOut \in [Nodes -> Seq(Replies)]
  BY SeqTyped DEF Init
<1>2. udpq \in Seq(Requests) /\ alq \in Seq(Requests)
  BY SeqTyped DEF Init
<1>3. moq \in Seq(Replies) /\ alOut \in Seq(Replies)
  BY SeqTyped DEF Init
<1>4. MonIdle \in [pc : {"recv", "send", "poll"}, req : Seq(Requests),
                   c : 0..(PollMax - 1)]
  BY OamAssumption, SeqTyped DEF MonIdle
<1> QED BY <1>1, <1>2, <1>3, <1>4 DEF Init, TypeOK, MonHolds, MonIdle

LEMMA StepTyped ==
    TypeOK /\ MonHolds /\ [Next]_vars => TypeOK' /\ MonHolds'
<1> SUFFICES ASSUME TypeOK, MonHolds, [Next]_vars PROVE TypeOK' /\ MonHolds'
  OBVIOUS
<1> USE DEF targetVars
<1>0. MonIdle \in [pc : {"recv", "send", "poll"}, req : Seq(Requests),
                   c : 0..(PollMax - 1)]
  BY OamAssumption, SeqTyped DEF MonIdle
<1>1. ASSUME NEW c \in Clients, ClientSend(c) PROVE TypeOK' /\ MonHolds'
  <2>1. udpq' \in Seq(Requests)
    <3>1. PICK cmd \in Cmds : udpq' = Append(udpq, [from |-> c, cmd |-> cmd])
      BY <1>1 DEF ClientSend
    <3>2. [from |-> c, cmd |-> cmd] \in Requests
      BY DEF Requests
    <3> QED BY <3>1, <3>2, SeqTyped DEF TypeOK
  <2> QED BY <1>1, <2>1 DEF ClientSend, TypeOK, MonHolds
<1>2. ASSUME NEW c \in Clients, ClientTimeout(c) PROVE TypeOK' /\ MonHolds'
  BY <1>2 DEF ClientTimeout, TypeOK, MonHolds
<1>3. CASE MonitorRecv
  <2>1. Head(udpq) \in Requests /\ udpq' \in Seq(Requests)
    BY <1>3, SeqTyped DEF MonitorRecv, TypeOK
  <2>2. /\ client' \in [Clients -> {"new", "waiting", "gone", "answered"}]
        /\ answer' \in [Clients -> Seq(Answers)]
    <3>1. "INVALID_LINE" \in Answers /\ "INVALID_CMD" \in Answers
      BY DEF Answers
    <3> QED BY <1>3, <2>1, <3>1, RespondTyped DEF MonitorRecv, TypeOK
  <2>3. /\ mon' \in [pc : {"recv", "send", "poll"}, req : Seq(Requests),
                     c : 0..(PollMax - 1)]
        /\ MonHolds'
    <3>1. CASE UNCHANGED mon
      BY <3>1 DEF TypeOK, MonHolds
    <3>2. CASE mon' = [pc |-> "send", req |-> <<Head(udpq)>>, c |-> 0]
      BY <2>1, <3>2, OamAssumption DEF MonHolds
    <3> QED BY <1>3, <3>1, <3>2 DEF MonitorRecv
  <2> QED BY <1>3, <2>1, <2>2, <2>3 DEF MonitorRecv, TypeOK
<1>4. CASE MonitorSend
  <2>1. Req \in Requests
    BY <1>4, SeqTyped DEF MonitorSend, TypeOK, MonHolds, Req
  <2>2. alq' \in Seq(Requests) /\ slq' \in [Nodes -> Seq(Requests)]
    <3>1. CASE alq' = Append(alq, Req) /\ UNCHANGED slq
      BY <2>1, <3>1, SeqTyped DEF TypeOK
    <3>2. CASE /\ Bound(SrcId(Cmd))
               /\ slq' = [slq EXCEPT ![SrcId(Cmd)] = Append(@, Req)]
               /\ UNCHANGED alq
      BY <2>1, <3>2, TableTyped DEF TypeOK, Bound
    <3>3. CASE UNCHANGED <<alq, slq>>
      BY <3>3 DEF TypeOK
    <3> QED BY <1>4, <3>1, <3>2, <3>3 DEF MonitorSend
  <2>3. /\ mon' \in [pc : {"recv", "send", "poll"}, req : Seq(Requests),
                     c : 0..(PollMax - 1)]
        /\ MonHolds'
    BY <1>4 DEF MonitorSend, TypeOK, MonHolds
  <2> QED BY <1>4, <2>2, <2>3 DEF MonitorSend, TypeOK
<1>5. CASE MonitorPollHit
  <2>1. Req \in Requests
    BY <1>5, SeqTyped DEF MonitorPollHit, TypeOK, MonHolds, Req
  <2>2. Head(moq) \in Replies /\ moq' \in Seq(Replies)
    BY <1>5, SeqTyped DEF MonitorPollHit, TypeOK
  <2>3. Head(moq).from \in Answers
    BY <2>2 DEF Replies, Answers
  <2>4. /\ client' \in [Clients -> {"new", "waiting", "gone", "answered"}]
        /\ answer' \in [Clients -> Seq(Answers)]
    BY <1>5, <2>1, <2>3, RespondTyped DEF MonitorPollHit, TypeOK
  <2> QED BY <1>0, <1>5, <2>2, <2>4 DEF MonitorPollHit, TypeOK, MonHolds, MonIdle
<1>6. CASE MonitorPollMiss
  <2>1. Req \in Requests
    BY <1>6, SeqTyped DEF MonitorPollMiss, TypeOK, MonHolds, Req
  <2>2. moq' \in Seq(Replies)
    <3>1. CASE UNCHANGED moq
      BY <3>1 DEF TypeOK
    <3>2. CASE moq # <<>> /\ moq' = Tail(moq)
      BY <3>2, SeqTyped DEF TypeOK
    <3> QED BY <1>6, <3>1, <3>2 DEF MonitorPollMiss
  <2>3. CASE /\ mon.c + 1 < PollMax
             /\ mon' = [mon EXCEPT !.c = @ + 1]
             /\ UNCHANGED <<client, answer, timeouts>>
    <3>1. mon.c \in 0..(PollMax - 1) /\ mon.c + 1 \in 0..(PollMax - 1)
      BY <2>3, OamAssumption DEF TypeOK
    <3> QED BY <1>6, <2>2, <2>3, <3>1 DEF MonitorPollMiss, TypeOK, MonHolds
  <2>4. CASE /\ Respond(Req, "NO_RSP_FROM_LINE")
             /\ mon' = MonIdle
             /\ timeouts' = timeouts \cup {Req.from}
    <3>1. "NO_RSP_FROM_LINE" \in Answers
      BY DEF Answers
    <3>2. /\ client' \in [Clients -> {"new", "waiting", "gone", "answered"}]
          /\ answer' \in [Clients -> Seq(Answers)]
      BY <2>1, <2>4, <3>1, RespondTyped DEF TypeOK
    <3>3. timeouts' \subseteq Clients
      BY <2>1, <2>4, ReplyTyped DEF TypeOK
    <3> QED
      BY <1>0, <1>6, <2>2, <2>4, <3>2, <3>3
      DEF MonitorPollMiss, TypeOK, MonHolds, MonIdle
  <2> QED BY <1>6, <2>3, <2>4 DEF MonitorPollMiss
<1>7. CASE AirlineCmd
  <2> DEFINE req   == Head(alq)
             reply == [from |-> req.from, empty |-> Outcome(req.cmd) = "empty"]
  <2>1. req \in Requests /\ alq' \in Seq(Requests)
    BY <1>7, SeqTyped DEF AirlineCmd, TypeOK
  <2>2. reply \in Replies
    BY <2>1, ReplyTyped
  <2>3. moq' \in Seq(Replies) /\ alOut' \in Seq(Replies)
    <3> HIDE DEF reply
    <3>1. CASE moq' = Append(moq, reply) /\ UNCHANGED alOut
      BY <2>2, <3>1, SeqTyped DEF TypeOK
    <3>2. CASE alOut' = <<reply>> /\ UNCHANGED moq
      BY <2>2, <3>2, SeqTyped DEF TypeOK
    <3>3. CASE UNCHANGED <<moq, alOut>>
      BY <3>3 DEF TypeOK
    <3> QED BY <1>7, <3>1, <3>2, <3>3 DEF AirlineCmd, reply
  <2>4. running' \in BOOLEAN
    BY <1>7 DEF AirlineCmd, TypeOK
  <2> QED BY <1>7, <2>1, <2>3, <2>4 DEF AirlineCmd, TypeOK, MonHolds
<1>8. CASE AirlineReplyUnblock
  <2>1. moq' \in Seq(Replies) /\ alOut' \in Seq(Replies)
    BY <1>8, SeqTyped DEF AirlineReplyUnblock, TypeOK
  <2> QED BY <1>8, <2>1 DEF AirlineReplyUnblock, TypeOK, MonHolds
<1>9. ASSUME NEW n \in Nodes, StackCmd(n) PROVE TypeOK' /\ MonHolds'
  <2> DEFINE reply == [from |-> Head(slq[n]).from, empty |-> FALSE]
  <2>1. Head(slq[n]) \in Requests /\ slq' \in [Nodes -> Seq(Requests)]
    BY <1>9, TableTyped DEF StackCmd, TypeOK
  <2>2. reply \in Replies
    BY <2>1, ReplyTyped
  <2>3. moq' \in Seq(Replies) /\ slOut' \in [Nodes -> Seq(Replies)]
    <3> HIDE DEF reply
    <3>1. CASE moq' = Append(moq, reply) /\ UNCHANGED slOut
      BY <2>2, <3>1, SeqTyped DEF TypeOK
    <3>2. CASE slOut' = [slOut EXCEPT ![n] = <<reply>>] /\ UNCHANGED moq
      BY <2>2, <3>2, TableTyped DEF TypeOK
    <3> QED BY <1>9, <3>1, <3>2 DEF StackCmd, reply
  <2> QED BY <1>9, <2>1, <2>3 DEF StackCmd, TypeOK, MonHolds
<1>10. ASSUME NEW n \in Nodes, StackReplyUnblock(n) PROVE TypeOK' /\ MonHolds'
  <2>1. Head(slOut[n]) \in Replies /\ slOut' \in [Nodes -> Seq(Replies)]
    BY <1>10, TableTyped DEF StackReplyUnblock, TypeOK
  <2>2. moq' \in Seq(Replies)
    BY <1>10, <2>1, SeqTyped DEF StackReplyUnblock, TypeOK
  <2> QED BY <1>10, <2>1, <2>2 DEF StackReplyUnblock, TypeOK, MonHolds
<1>11. ASSUME NEW n \in Nodes, StackStart(n) PROVE TypeOK' /\ MonHolds'
  BY <1>11 DEF StackStart, TypeOK, MonHolds
<1>12. ASSUME NEW n \in Nodes, StackExit(n) PROVE TypeOK' /\ MonHolds'
  <2>1. slq' \in [Nodes -> Seq(Requests)] /\ slOut' \in [Nodes -> Seq(Replies)]
    BY <1>12, TableTyped DEF StackExit, TypeOK
  <2> QED BY <1>12, <2>1 DEF StackExit, TypeOK, MonHolds
<1>13. CASE UNCHANGED vars
  BY <1>13 DEF vars, TypeOK, MonHolds
<1> QED
  BY <1>1, <1>2, <1>3, <1>4, <1>5, <1>6, <1>7, <1>8, <1>9, <1>10, <1>11,
     <1>12, <1>13
  DEF Next, Monitor, Airline, Stack

\* The state always has the shape TypeOK says, and the monitor serves a request
\* whenever it is past its receive (monitor_thread).
THEOREM OamTypeCorrect == Spec => [](TypeOK /\ MonHolds)
BY InitTyped, StepTyped, PTL DEF Spec

-----------------------------------------------------------------------------
(* One name, one place: no response reaches two clients.                    *)

\* The clients the messages of a queue come from.
Names(q) == {q[i].from : i \in DOMAIN q}

\* No client has two messages in the queue.
Distinct(q) == \A i, j \in DOMAIN q : q[i].from = q[j].from => i = j

\* Where a command is from the client's send to its response.
Places == ({"udpq", "mon", "alq", "moq", "alOut", "answer"} \X {CL_MGR_ID})
            \cup ({"slq", "slOut"} \X Nodes)

\* The clients whose replies have been handed out as responses.
Responses == {c \in Clients :
                \E d \in Clients : Answered(d) /\ Head(answer[d]) = c}

\* Whose command, reply or response is there.  A command is in the monitor
\* only until it is sent: what the monitor waits for is elsewhere.
At == [p \in Places |->
    CASE p[1] = "udpq"   -> Names(udpq)
      [] p[1] = "mon"    -> IF mon.pc = "send" THEN {Req.from} ELSE {}
      [] p[1] = "alq"    -> Names(alq)
      [] p[1] = "slq"    -> Names(slq[p[2]])
      [] p[1] = "moq"    -> Names(moq)
      [] p[1] = "alOut"  -> Names(alOut)
      [] p[1] = "slOut"  -> Names(slOut[p[2]])
      [] p[1] = "answer" -> Responses]

OneAtATime == \A p, q \in Places : p # q => At[p] \cap At[q] = {}

AllDistinct ==
    /\ Distinct(udpq) /\ Distinct(alq) /\ Distinct(moq)
    /\ \A n \in Nodes : Distinct(slq[n])

\* A client that has not sent its command is not the source of anything.
NewNowhere ==
    \A c \in Clients : client[c] = "new" => \A p \in Places : c \notin At[p]

Tokens == OneAtATime /\ AllDistinct /\ NewNowhere /\ NoSharedAnswer


\* Taking the first message out of a queue takes its client's name out of it,
\* and adding one adds the name.
LEMMA NamesOf ==
    ASSUME NEW S, NEW q \in Seq(S)
    PROVE  /\ Names(<<>>) = {} /\ Distinct(<<>>)
           /\ \A x : Names(<<x>>) = {x.from}
           /\ \A x \in S : Names(Append(q, x)) = Names(q) \cup {x.from}
           /\ \A x \in S : Distinct(q) /\ x.from \notin Names(q)
                              => Distinct(Append(q, x))
           /\ q # <<>> => /\ Head(q).from \in Names(q)
                          /\ Names(Tail(q)) \subseteq Names(q)
           /\ q # <<>> /\ Distinct(q) => /\ Distinct(Tail(q))
                                         /\ Head(q).from \notin Names(Tail(q))
<1>1. Names(<<>>) = {} /\ Distinct(<<>>)
  BY DEF Names, Distinct
<1>2. ASSUME NEW x PROVE Names(<<x>>) = {x.from}
  BY DEF Names
<1>3. ASSUME NEW x \in S PROVE Names(Append(q, x)) = Names(q) \cup {x.from}
  <2>1. /\ DOMAIN Append(q, x) = DOMAIN q \cup {Len(q) + 1}
        /\ \A i \in DOMAIN q : Append(q, x)[i] = q[i]
        /\ Append(q, x)[Len(q) + 1] = x
    OBVIOUS
  <2> QED BY <2>1 DEF Names
<1>4. ASSUME NEW x \in S, Distinct(q), x.from \notin Names(q)
      PROVE  Distinct(Append(q, x))
  <2>1. /\ DOMAIN Append(q, x) = DOMAIN q \cup {Len(q) + 1}
        /\ \A i \in DOMAIN q : Append(q, x)[i] = q[i]
        /\ Append(q, x)[Len(q) + 1] = x
    OBVIOUS
  <2> QED BY <1>4, <2>1 DEF Names, Distinct
<1>5. ASSUME q # <<>>
      PROVE  /\ Head(q).from \in Names(q)
             /\ Names(Tail(q)) \subseteq Names(q)
             /\ Distinct(q) => /\ Distinct(Tail(q))
                               /\ Head(q).from \notin Names(Tail(q))
  <2>1. /\ 1 \in DOMAIN q /\ Head(q) = q[1]
        /\ \A i \in DOMAIN Tail(q) : /\ i + 1 \in DOMAIN q /\ Tail(q)[i] = q[i + 1]
                                     /\ i \in Nat /\ i + 1 # 1
    BY <1>5
  <2>2. Head(q).from \in Names(q) /\ Names(Tail(q)) \subseteq Names(q)
    BY <2>1 DEF Names
  <2>3. ASSUME Distinct(q) PROVE Distinct(Tail(q))
    <3> SUFFICES ASSUME NEW i \in DOMAIN Tail(q), NEW j \in DOMAIN Tail(q),
                        Tail(q)[i].from = Tail(q)[j].from
                 PROVE  i = j
      BY DEF Distinct
    <3>1. i + 1 = j + 1
      BY <2>1, <2>3 DEF Distinct
    <3> QED BY <2>1, <3>1
  <2>4. ASSUME Distinct(q) PROVE Head(q).from \notin Names(Tail(q))
    BY <2>1, <2>4 DEF Distinct, Names
  <2> QED BY <2>2, <2>3, <2>4
<1> QED BY <1>1, <1>2, <1>3, <1>4, <1>5

\* A step that takes a name from one place to another, or drops names, leaves
\* every name in at most one place, and takes no name of a client that has not
\* sent.
LEMMA NameMoves ==
    ASSUME OneAtATime, NewNowhere, NEW c, NEW src \in Places, NEW dst \in Places,
           c \in At[src], c \notin At[src]',
           \A p \in Places : \A x \in At'[p] : x \in At[p] \/ (p = dst /\ x = c),
           \A d \in Clients : client'[d] = "new" => client[d] = "new"
    PROVE  OneAtATime' /\ NewNowhere'
<1>1. ASSUME NEW p \in Places, p # dst PROVE c \notin At[p]'
  <2>1. CASE p = src
    BY <2>1
  <2>2. CASE p # src
    BY <1>1, <2>2 DEF OneAtATime
  <2> QED BY <2>1, <2>2
<1>2. OneAtATime'
  <2> SUFFICES ASSUME NEW p \in Places, NEW q \in Places, p # q, NEW x,
                      x \in At[p]', x \in At[q]'
               PROVE  FALSE
    BY DEF OneAtATime, Places
  <2>1. CASE x = c
    BY <1>1, <2>1
  <2>2. CASE x # c
    BY <2>2 DEF OneAtATime
  <2> QED BY <2>1, <2>2
<1>3. NewNowhere'
  BY DEF NewNowhere, Places
<1> QED BY <1>2, <1>3

\* Dropping names changes nothing.
LEMMA NamesGo ==
    ASSUME OneAtATime, NewNowhere,
           \A p \in Places : At[p]' \subseteq At[p],
           \A d \in Clients : client'[d] = "new" => client[d] = "new"
    PROVE  OneAtATime' /\ NewNowhere'
<1>1. OneAtATime'
  BY DEF OneAtATime, Places
<1>2. NewNowhere'
  BY DEF NewNowhere, Places
<1> QED BY <1>1, <1>2

\* The places one by one.
LEMMA PlacesAre ==
    /\ \A l \in {"udpq", "mon", "alq", "moq", "alOut", "answer"} :
          <<l, CL_MGR_ID>> \in Places
    /\ \A n \in Nodes : <<"slq", n>> \in Places /\ <<"slOut", n>> \in Places
    /\ \A p \in Places :
          \/ \E l \in {"udpq", "mon", "alq", "moq", "alOut", "answer"} :
                p = <<l, CL_MGR_ID>>
          \/ \E n \in Nodes : p = <<"slq", n>> \/ p = <<"slOut", n>>
BY DEF Places

\* What is at the places after a step, if all it does is add c at dst.
LEMMA Frame ==
    ASSUME NEW c, NEW dst,
           \A x \in Names(udpq') :
              x \in Names(udpq) \/ (dst = <<"udpq", CL_MGR_ID>> /\ x = c),
           mon'.pc = "send" => (mon.pc = "send" /\ Req' = Req)
                               \/ (dst = <<"mon", CL_MGR_ID>> /\ Req'.from = c),
           \A x \in Names(alq') :
              x \in Names(alq) \/ (dst = <<"alq", CL_MGR_ID>> /\ x = c),
           \A x \in Names(moq') :
              x \in Names(moq) \/ (dst = <<"moq", CL_MGR_ID>> /\ x = c),
           \A x \in Names(alOut') :
              x \in Names(alOut) \/ (dst = <<"alOut", CL_MGR_ID>> /\ x = c),
           \A x \in Responses' :
              x \in Responses \/ (dst = <<"answer", CL_MGR_ID>> /\ x = c),
           \A n \in Nodes :
              /\ \A x \in Names(slq'[n]) :
                    x \in Names(slq[n]) \/ (dst = <<"slq", n>> /\ x = c)
              /\ \A x \in Names(slOut'[n]) :
                    x \in Names(slOut[n]) \/ (dst = <<"slOut", n>> /\ x = c)
    PROVE  \A p \in Places : \A x \in At'[p] : x \in At[p] \/ (p = dst /\ x = c)
<1> SUFFICES ASSUME NEW p \in Places
             PROVE  \A x \in At'[p] : x \in At[p] \/ (p = dst /\ x = c)
  OBVIOUS
<1>1. CASE p = <<"udpq", CL_MGR_ID>>
  BY <1>1 DEF At
<1>2. CASE p = <<"mon", CL_MGR_ID>>
  BY <1>2 DEF At
<1>3. CASE p = <<"alq", CL_MGR_ID>>
  BY <1>3 DEF At
<1>4. CASE p = <<"moq", CL_MGR_ID>>
  BY <1>4 DEF At
<1>5. CASE p = <<"alOut", CL_MGR_ID>>
  BY <1>5 DEF At
<1>6. CASE p = <<"answer", CL_MGR_ID>>
  BY <1>6 DEF At
<1>7. ASSUME NEW n \in Nodes, p = <<"slq", n>>
      PROVE  \A x \in At'[p] : x \in At[p] \/ (p = dst /\ x = c)
  BY <1>7 DEF At
<1>8. ASSUME NEW n \in Nodes, p = <<"slOut", n>>
      PROVE  \A x \in At'[p] : x \in At[p] \/ (p = dst /\ x = c)
  BY <1>8 DEF At
<1> QED BY <1>1, <1>2, <1>3, <1>4, <1>5, <1>6, <1>7, <1>8, PlacesAre

\* What is at the places.
LEMMA AtIs ==
    /\ At[<<"udpq", CL_MGR_ID>>] = Names(udpq)
    /\ At[<<"mon", CL_MGR_ID>>] = IF mon.pc = "send" THEN {Req.from} ELSE {}
    /\ At[<<"alq", CL_MGR_ID>>] = Names(alq)
    /\ At[<<"moq", CL_MGR_ID>>] = Names(moq)
    /\ At[<<"alOut", CL_MGR_ID>>] = Names(alOut)
    /\ At[<<"answer", CL_MGR_ID>>] = Responses
    /\ \A n \in Nodes : /\ At[<<"slq", n>>] = Names(slq[n])
                        /\ At[<<"slOut", n>>] = Names(slOut[n])
BY PlacesAre DEF At

\* Responses change by the one handed out, and only clients that were waiting
\* change.
LEMMA ResponsesGrow ==
    ASSUME TypeOK, NEW req \in Requests, NEW a, Respond(req, a)
    PROVE  /\ Responses' \subseteq Responses \cup {a}
           /\ a \notin Clients => Responses' \subseteq Responses
           /\ \A d \in Clients : client'[d] = "new" => client[d] = "new"
           /\ NoSharedAnswer /\ a \notin Responses => NoSharedAnswer'
<1>1. req.from \in Clients
  BY ReplyTyped
<1>2. CASE UNCHANGED <<answer, client>>
  BY <1>2 DEF Responses, Answered, NoSharedAnswer
<1>3. CASE /\ client[req.from] = "waiting"
           /\ answer' = [answer EXCEPT ![req.from] = <<a>>]
           /\ client' = [client EXCEPT ![req.from] = "answered"]
  <2>1. \A d \in Clients : d # req.from =>
           /\ client'[d] = client[d] /\ answer'[d] = answer[d]
    BY <1>3 DEF TypeOK
  <2>2. Head(answer'[req.from]) = a /\ client'[req.from] = "answered"
    BY <1>1, <1>3 DEF TypeOK
  <2>3. client[req.from] # "answered"
    BY <1>3
  <2>4. Responses' \subseteq Responses \cup {a}
    BY <2>1, <2>2 DEF Responses, Answered
  <2>5. a \notin Clients => Responses' \subseteq Responses
    BY <2>4 DEF Responses
  <2>6. NoSharedAnswer /\ a \notin Responses => NoSharedAnswer'
    BY <2>1, <2>2, <2>3 DEF Responses, Answered, NoSharedAnswer
  <2> QED BY <2>1, <2>2, <2>4, <2>5, <2>6
<1> QED BY <1>2, <1>3 DEF Respond

\* No command or reply is ever in two places, or copied.
LEMMA TokensKept ==
    ASSUME TypeOK, MonHolds, Tokens, [Next]_vars
    PROVE  Tokens'
<1> USE DEF targetVars
<1> DEFINE udp == <<"udpq", CL_MGR_ID>>
           air == <<"alq", CL_MGR_ID>>
           out == <<"alOut", CL_MGR_ID>>
           rep == <<"moq", CL_MGR_ID>>
           ans == <<"answer", CL_MGR_ID>>
           may == <<"mon", CL_MGR_ID>>
<1>0. /\ udp \in Places /\ air \in Places /\ out \in Places
      /\ rep \in Places /\ ans \in Places /\ may \in Places
  BY PlacesAre
<1>a. ASSUME NEW c \in Clients, ClientSend(c) PROVE Tokens'
  <2>1. PICK cmd \in Cmds : udpq' = Append(udpq, [from |-> c, cmd |-> cmd])
    BY <1>a DEF ClientSend
  <2>2. [from |-> c, cmd |-> cmd] \in Requests
    BY DEF Requests
  <2>3. Names(udpq') = Names(udpq) \cup {c}
    BY <2>1, <2>2, NamesOf DEF TypeOK
  <2>4. \A p \in Places : c \notin At[p]
    BY <1>a DEF ClientSend, Tokens, NewNowhere
  <2>5. /\ client' = [client EXCEPT ![c] = "waiting"]
        /\ answer' = answer /\ mon' = mon /\ alq' = alq /\ slq' = slq
        /\ moq' = moq /\ alOut' = alOut /\ slOut' = slOut
    BY <1>a DEF ClientSend
  <2>6. client[c] = "new" /\ client'[c] = "waiting"
        /\ \A d \in Clients : d # c => client'[d] = client[d]
    BY <1>a, <2>5 DEF ClientSend, TypeOK
  <2>7. Responses' \subseteq Responses
    BY <2>5, <2>6 DEF Responses, Answered
  <2>8. \A p \in Places : \A x \in At'[p] : x \in At[p] \/ (p = udp /\ x = c)
    BY <2>3, <2>5, <2>7, Frame DEF Req
  <2>9. OneAtATime'
    BY <2>4, <2>8 DEF Tokens, OneAtATime, Places
  <2>10. NewNowhere'
    BY <2>6, <2>8 DEF Tokens, NewNowhere, Places
  <2>11. AllDistinct'
    <3>1. c \notin Names(udpq)
      BY <1>0, <2>4, AtIs
    <3>2. Distinct(udpq')
      BY <2>1, <2>2, <3>1, NamesOf DEF Tokens, AllDistinct, TypeOK
    <3> QED BY <2>5, <3>2 DEF Tokens, AllDistinct
  <2>12. NoSharedAnswer'
    BY <2>5, <2>6 DEF Tokens, NoSharedAnswer, Answered
  <2> QED BY <2>9, <2>10, <2>11, <2>12 DEF Tokens
<1>b. ASSUME NEW c \in Clients, ClientTimeout(c) PROVE Tokens'
  <2>1. /\ udpq' = udpq /\ answer' = answer /\ mon' = mon /\ alq' = alq
        /\ slq' = slq /\ moq' = moq /\ alOut' = alOut /\ slOut' = slOut
    BY <1>b DEF ClientTimeout
  <2>2. \A d \in Clients : client'[d] = client[d] \/ client'[d] = "gone"
    BY <1>b DEF ClientTimeout, TypeOK
  <2>3. Responses' \subseteq Responses
    BY <2>1, <2>2 DEF Responses, Answered
  <2>4. \A p \in Places : At'[p] \subseteq At[p]
    BY <2>1, <2>3, PlacesAre DEF At, Req
  <2>5. OneAtATime' /\ NewNowhere'
    BY <2>2, <2>4, NamesGo DEF Tokens
  <2>6. AllDistinct' /\ NoSharedAnswer'
    BY <2>1, <2>2 DEF Tokens, AllDistinct, NoSharedAnswer, Answered
  <2> QED BY <2>5, <2>6 DEF Tokens
<1>c. CASE MonitorRecv
  <2> DEFINE req == Head(udpq)
  <2>1. /\ req \in Requests /\ req.from \in Names(udpq)
        /\ Names(udpq') \subseteq Names(udpq) /\ req.from \notin Names(udpq')
        /\ Distinct(udpq')
    BY <1>c, NamesOf, SeqTyped DEF MonitorRecv, TypeOK, Tokens, AllDistinct
  <2>2. /\ alq' = alq /\ slq' = slq /\ moq' = moq /\ alOut' = alOut /\ slOut' = slOut
        /\ mon.pc = "recv"
    BY <1>c DEF MonitorRecv
  <2>3. /\ Responses' \subseteq Responses
        /\ \A d \in Clients : client'[d] = "new" => client[d] = "new"
        /\ NoSharedAnswer'
    <3>1. ASSUME NEW a \in {"INVALID_LINE", "INVALID_CMD"}, Respond(req, a)
          PROVE  /\ Responses' \subseteq Responses
                 /\ \A d \in Clients : client'[d] = "new" => client[d] = "new"
                 /\ NoSharedAnswer'
      <4>1. a \notin Clients
        BY OamAssumption
      <4>2. a \notin Responses
        BY <4>1 DEF Responses
      <4> QED BY <2>1, <3>1, <4>1, <4>2, ResponsesGrow DEF Tokens
    <3>2. CASE UNCHANGED <<answer, client>>
      BY <3>2 DEF Tokens, NoSharedAnswer, Responses, Answered
    <3> QED BY <1>c, <3>1, <3>2 DEF MonitorRecv
  <2>4. mon'.pc = "send" => Req'.from = req.from
    BY <1>c, <2>2 DEF MonitorRecv, Req
  <2>5. \A p \in Places : \A x \in At'[p] : x \in At[p] \/ (p = may /\ x = req.from)
    BY <2>1, <2>2, <2>3, <2>4, Frame
  <2>6. req.from \in At[udp] /\ req.from \notin At'[udp]
    BY <1>0, <2>1 DEF At
  <2>7. OneAtATime' /\ NewNowhere'
    BY <1>0, <2>3, <2>5, <2>6, NameMoves DEF Tokens
  <2>8. AllDistinct'
    BY <2>1, <2>2 DEF Tokens, AllDistinct
  <2> QED BY <2>3, <2>7, <2>8 DEF Tokens
<1>d. CASE MonitorSend
  <2>1. /\ client' = client /\ answer' = answer /\ udpq' = udpq /\ moq' = moq
        /\ alOut' = alOut /\ slOut' = slOut
        /\ mon.pc = "send" /\ mon'.pc = "poll"
    BY <1>d DEF MonitorSend, TypeOK
  <2>2. Req \in Requests
    BY <2>1, SeqTyped DEF TypeOK, MonHolds, Req
  <2>3. Responses' = Responses /\ NoSharedAnswer'
    BY <2>1 DEF Responses, Answered, Tokens, NoSharedAnswer
  <2>4. Req.from \in At[may] /\ Req.from \notin At'[may]
    BY <1>0, <2>1 DEF At
  <2>5. CASE alq' = Append(alq, Req) /\ UNCHANGED slq
    <3>1. Names(alq') = Names(alq) \cup {Req.from}
      BY <2>2, <2>5, NamesOf DEF TypeOK
    <3>2. \A p \in Places : \A x \in At'[p] : x \in At[p] \/ (p = air /\ x = Req.from)
      BY <2>1, <2>3, <2>5, <3>1, Frame
    <3>3. OneAtATime' /\ NewNowhere'
      BY <1>0, <2>1, <2>4, <3>2, NameMoves DEF Tokens
    <3>4. Req.from \notin Names(alq)
      BY <1>0, <2>4, AtIs DEF Tokens, OneAtATime
    <3>5. Distinct(alq')
      BY <2>2, <2>5, <3>4, NamesOf DEF TypeOK, Tokens, AllDistinct
    <3> QED BY <2>1, <2>3, <2>5, <3>3, <3>5 DEF Tokens, AllDistinct
  <2>6. CASE /\ Bound(SrcId(Cmd))
             /\ slq' = [slq EXCEPT ![SrcId(Cmd)] = Append(@, Req)]
             /\ UNCHANGED alq
    <3> DEFINE n == SrcId(Cmd)
               sta == <<"slq", n>>
    <3>1. n \in Nodes
      BY <2>6 DEF Bound
    <3> HIDE DEF n
    <3>2. /\ slq'[n] = Append(slq[n], Req)
          /\ \A k \in Nodes : k # n => slq'[k] = slq[k]
      BY <2>6, <3>1 DEF TypeOK, n
    <3>3. Names(slq'[n]) = Names(slq[n]) \cup {Req.from}
      BY <2>2, <3>1, <3>2, NamesOf DEF TypeOK
    <3>4. \A p \in Places : \A x \in At'[p] : x \in At[p] \/ (p = sta /\ x = Req.from)
      <4>1. \A k \in Nodes : \A x \in Names(slq'[k]) :
               x \in Names(slq[k]) \/ (sta = <<"slq", k>> /\ x = Req.from)
        BY <3>2, <3>3
      <4> QED BY <2>1, <2>3, <2>6, <4>1, Frame, ZenonT(30)
    <3>5. sta \in Places
      BY <3>1, PlacesAre
    <3>6. OneAtATime' /\ NewNowhere'
      BY <1>0, <2>1, <2>4, <3>4, <3>5, NameMoves DEF Tokens
    <3>7. Req.from \notin Names(slq[n])
      BY <1>0, <2>4, <3>1, <3>5, AtIs DEF Tokens, OneAtATime
    <3>8. Distinct(slq'[n])
      BY <2>2, <3>1, <3>2, <3>7, NamesOf DEF TypeOK, Tokens, AllDistinct
    <3>9. AllDistinct'
      BY <2>1, <2>6, <3>2, <3>8 DEF Tokens, AllDistinct
    <3> QED BY <2>3, <3>6, <3>9 DEF Tokens
  <2>7. CASE UNCHANGED <<alq, slq>>
    <3>1. \A p \in Places : \A x \in At'[p] : x \in At[p] \/ (p = air /\ x = Req.from)
      BY <2>1, <2>3, <2>7, Frame
    <3>2. OneAtATime' /\ NewNowhere'
      BY <1>0, <2>1, <2>4, <3>1, NameMoves DEF Tokens
    <3> QED BY <2>1, <2>3, <2>7, <3>2 DEF Tokens, AllDistinct
  <2> QED BY <1>d, <2>5, <2>6, <2>7 DEF MonitorSend
<1>e. CASE MonitorPollHit
  <2> DEFINE c == Head(moq).from
  <2>1. /\ udpq' = udpq /\ alq' = alq /\ slq' = slq /\ alOut' = alOut /\ slOut' = slOut
        /\ mon'.pc = "recv" /\ Respond(Req, c) /\ mon.pc = "poll"
    BY <1>e DEF MonitorPollHit, MonIdle
  <2>2. /\ c \in Names(moq) /\ Names(moq') \subseteq Names(moq) /\ c \notin Names(moq')
        /\ Distinct(moq')
    BY <1>e, NamesOf DEF MonitorPollHit, TypeOK, Tokens, AllDistinct
  <2>3. Req \in Requests
    BY <2>1, SeqTyped DEF TypeOK, MonHolds, Req
  <2>4. c \in At[rep] /\ c \notin At'[rep]
    BY <1>0, <2>2 DEF At
  <2>5. c \notin Responses
    BY <1>0, <2>4, AtIs DEF Tokens, OneAtATime
  <2> HIDE DEF c
  <2>6. /\ Responses' \subseteq Responses \cup {c} /\ NoSharedAnswer'
        /\ \A d \in Clients : client'[d] = "new" => client[d] = "new"
    BY <2>1, <2>3, <2>5, ResponsesGrow DEF Tokens
  <2>7. \A p \in Places : \A x \in At'[p] : x \in At[p] \/ (p = ans /\ x = c)
    <3>1. /\ udpq' = udpq /\ alq' = alq /\ slq' = slq /\ alOut' = alOut
          /\ slOut' = slOut /\ mon'.pc # "send"
      BY <2>1
    <3>2. \A x \in Names(moq') : x \in Names(moq)
      BY <2>2
    <3>3. \A x \in Responses' : x \in Responses \/ x = c
      BY <2>6
    <3> QED BY <3>1, <3>2, <3>3, Frame
  <2>8. OneAtATime' /\ NewNowhere'
    BY <1>0, <2>4, <2>6, <2>7, NameMoves DEF Tokens
  <2> QED BY <2>1, <2>2, <2>6, <2>8 DEF Tokens, AllDistinct
<1>f. CASE MonitorPollMiss
  <2>1. /\ udpq' = udpq /\ alq' = alq /\ slq' = slq /\ alOut' = alOut /\ slOut' = slOut
        /\ mon.pc = "poll"
    BY <1>f DEF MonitorPollMiss
  <2>2. mon'.pc # "send"
    <3>1. CASE mon' = [mon EXCEPT !.c = @ + 1]
      BY <2>1, <3>1 DEF TypeOK
    <3>2. CASE mon' = MonIdle
      BY <3>2 DEF MonIdle
    <3> QED BY <1>f, <3>1, <3>2 DEF MonitorPollMiss
  <2>3. Names(moq') \subseteq Names(moq) /\ Distinct(moq')
    <3>1. CASE UNCHANGED moq
      BY <3>1 DEF Tokens, AllDistinct
    <3>2. CASE moq # <<>> /\ moq' = Tail(moq)
      BY <3>2, NamesOf DEF TypeOK, Tokens, AllDistinct
    <3> QED BY <1>f, <3>1, <3>2 DEF MonitorPollMiss
  <2>4. Req \in Requests
    BY <2>1, SeqTyped DEF TypeOK, MonHolds, Req
  <2>5. /\ Responses' \subseteq Responses /\ NoSharedAnswer'
        /\ \A d \in Clients : client'[d] = "new" => client[d] = "new"
    <3>1. CASE UNCHANGED <<client, answer>>
      BY <3>1 DEF Tokens, NoSharedAnswer, Responses, Answered
    <3>2. CASE Respond(Req, "NO_RSP_FROM_LINE")
      <4>1. "NO_RSP_FROM_LINE" \notin Clients
        BY OamAssumption
      <4>2. "NO_RSP_FROM_LINE" \notin Responses
        BY <4>1 DEF Responses
      <4> QED BY <2>4, <3>2, <4>1, <4>2, ResponsesGrow DEF Tokens
    <3> QED BY <1>f, <3>1, <3>2 DEF MonitorPollMiss
  <2>6. \A p \in Places : At'[p] \subseteq At[p]
    BY <2>1, <2>2, <2>3, <2>5, PlacesAre DEF At
  <2>7. OneAtATime' /\ NewNowhere'
    BY <2>5, <2>6, NamesGo DEF Tokens
  <2> QED BY <2>1, <2>3, <2>5, <2>7 DEF Tokens, AllDistinct
<1>g. CASE AirlineCmd
  <2> DEFINE req == Head(alq)
             reply == [from |-> req.from, empty |-> Outcome(req.cmd) = "empty"]
  <2>1. /\ client' = client /\ answer' = answer /\ udpq' = udpq /\ mon' = mon
        /\ slq' = slq /\ slOut' = slOut
    BY <1>g DEF AirlineCmd
  <2>2. /\ req \in Requests /\ req.from \in Names(alq)
        /\ Names(alq') \subseteq Names(alq) /\ req.from \notin Names(alq')
        /\ Distinct(alq')
    BY <1>g, NamesOf, SeqTyped DEF AirlineCmd, TypeOK, Tokens, AllDistinct
  <2>3. Responses' = Responses /\ NoSharedAnswer'
    BY <2>1 DEF Responses, Answered, Tokens, NoSharedAnswer
  <2>4. req.from \in At[air] /\ req.from \notin At'[air]
    BY <1>0, <2>2 DEF At
  <2>5. reply \in Replies /\ reply.from = req.from
    BY <2>2, ReplyTyped
  <2> DEFINE c == req.from
  <2>6. c \in At[air] /\ c \notin At'[air] /\ reply.from = c
    BY <2>4, <2>5
  <2> HIDE DEF req, reply, c
  <2>7. CASE moq' = Append(moq, reply) /\ UNCHANGED alOut
    <3>1. Names(moq') = Names(moq) \cup {c}
      BY <2>5, <2>6, <2>7, NamesOf DEF TypeOK
    <3>2. \A p \in Places : \A x \in At'[p] : x \in At[p] \/ (p = rep /\ x = c)
      BY <2>1, <2>2, <2>3, <2>7, <3>1, Frame DEF Req
    <3>3. OneAtATime' /\ NewNowhere'
      BY <1>0, <2>1, <2>6, <3>2, NameMoves DEF Tokens
    <3>4. reply.from \notin Names(moq)
      BY <1>0, <2>6, AtIs DEF Tokens, OneAtATime
    <3>5. Distinct(moq')
      BY <2>5, <2>7, <3>4, NamesOf DEF TypeOK, Tokens, AllDistinct
    <3> QED BY <2>1, <2>2, <2>3, <3>3, <3>5 DEF Tokens, AllDistinct
  <2>8. CASE alOut' = <<reply>> /\ UNCHANGED moq
    <3>1. Names(alOut') = {c}
      BY <2>6, <2>8 DEF Names
    <3>2. \A p \in Places : \A x \in At'[p] : x \in At[p] \/ (p = out /\ x = c)
      BY <2>1, <2>2, <2>3, <2>8, <3>1, Frame DEF Req
    <3>3. OneAtATime' /\ NewNowhere'
      BY <1>0, <2>1, <2>6, <3>2, NameMoves DEF Tokens
    <3> QED BY <2>1, <2>2, <2>3, <2>8, <3>3 DEF Tokens, AllDistinct
  <2>9. CASE UNCHANGED <<moq, alOut>>
    <3>1. \A p \in Places : \A x \in At'[p] : x \in At[p] \/ (p = out /\ x = c)
      BY <2>1, <2>2, <2>3, <2>9, Frame DEF Req
    <3>2. OneAtATime' /\ NewNowhere'
      BY <1>0, <2>1, <2>6, <3>1, NameMoves DEF Tokens
    <3> QED BY <2>1, <2>2, <2>3, <2>9, <3>2 DEF Tokens, AllDistinct
  <2> QED BY <1>g, <2>7, <2>8, <2>9 DEF AirlineCmd, req, reply
<1>h. CASE AirlineReplyUnblock
  <2> DEFINE r == Head(alOut)
  <2>1. /\ client' = client /\ answer' = answer /\ udpq' = udpq /\ mon' = mon
        /\ alq' = alq /\ slq' = slq /\ slOut' = slOut
    BY <1>h DEF AirlineReplyUnblock
  <2>2. r \in Replies /\ r.from \in Names(alOut) /\ Names(alOut') = {}
    BY <1>h, NamesOf, SeqTyped DEF AirlineReplyUnblock, TypeOK
  <2>3. Responses' = Responses /\ NoSharedAnswer'
    BY <2>1 DEF Responses, Answered, Tokens, NoSharedAnswer
  <2>4. r.from \in At[out] /\ r.from \notin At'[out]
    BY <1>0, <2>2 DEF At
  <2>5. moq' = Append(moq, r)
    BY <1>h DEF AirlineReplyUnblock
  <2> HIDE DEF r
  <2>6. Names(moq') = Names(moq) \cup {r.from}
    BY <2>2, <2>5, NamesOf DEF TypeOK
  <2>7. \A p \in Places : \A x \in At'[p] : x \in At[p] \/ (p = rep /\ x = r.from)
    BY <2>1, <2>2, <2>3, <2>6, Frame DEF Req
  <2>8. OneAtATime' /\ NewNowhere'
    BY <1>0, <2>1, <2>4, <2>7, NameMoves DEF Tokens
  <2>9. r.from \notin Names(moq)
    BY <1>0, <2>4, AtIs DEF Tokens, OneAtATime
  <2>10. Distinct(moq')
    BY <2>2, <2>5, <2>9, NamesOf DEF TypeOK, Tokens, AllDistinct
  <2> QED BY <2>1, <2>3, <2>8, <2>10 DEF Tokens, AllDistinct
<1>i. ASSUME NEW n \in Nodes, StackCmd(n) PROVE Tokens'
  <2> DEFINE c == Head(slq[n]).from
             reply == [from |-> c, empty |-> FALSE]
             sta == <<"slq", n>>
             sto == <<"slOut", n>>
  <2>0. sta \in Places /\ sto \in Places
    BY PlacesAre
  <2>1. /\ client' = client /\ answer' = answer /\ udpq' = udpq /\ mon' = mon
        /\ alq' = alq /\ alOut' = alOut
    BY <1>i DEF StackCmd
  <2>2. /\ slq'[n] = Tail(slq[n]) /\ slq[n] # <<>> /\ slq[n] \in Seq(Requests)
        /\ \A k \in Nodes : k # n => slq'[k] = slq[k]
    BY <1>i DEF StackCmd, TypeOK
  <2>3. /\ Head(slq[n]) \in Requests /\ c \in Names(slq[n])
        /\ Names(slq'[n]) \subseteq Names(slq[n]) /\ c \notin Names(slq'[n])
        /\ Distinct(slq'[n])
    BY <2>2, NamesOf, SeqTyped DEF Tokens, AllDistinct
  <2>4. Responses' = Responses /\ NoSharedAnswer'
    BY <2>1 DEF Responses, Answered, Tokens, NoSharedAnswer
  <2>5. c \in At[sta] /\ c \notin At'[sta]
    BY <2>0, <2>3 DEF At
  <2>6. reply \in Replies /\ reply.from = c
    BY <2>3, ReplyTyped
  <2> HIDE DEF c, reply
  <2>7. \A k \in Nodes : \A x \in Names(slq'[k]) : x \in Names(slq[k])
    BY <2>2, <2>3
  <2>8. \A k \in Nodes : Distinct(slq'[k])
    BY <2>2, <2>3 DEF Tokens, AllDistinct
  <2>9. CASE moq' = Append(moq, reply) /\ UNCHANGED slOut
    <3>1. Names(moq') = Names(moq) \cup {c}
      BY <2>6, <2>9, NamesOf DEF TypeOK
    <3>2. \A p \in Places : \A x \in At'[p] : x \in At[p] \/ (p = rep /\ x = c)
      BY <2>1, <2>4, <2>7, <2>9, <3>1, Frame DEF Req
    <3>3. OneAtATime' /\ NewNowhere'
      BY <1>0, <2>0, <2>1, <2>5, <3>2, NameMoves DEF Tokens
    <3>4. reply.from \notin Names(moq)
      BY <1>0, <2>0, <2>5, <2>6, AtIs DEF Tokens, OneAtATime
    <3>5. Distinct(moq')
      BY <2>6, <2>9, <3>4, NamesOf DEF TypeOK, Tokens, AllDistinct
    <3> QED BY <2>1, <2>4, <2>8, <3>3, <3>5 DEF Tokens, AllDistinct
  <2>10. CASE slOut' = [slOut EXCEPT ![n] = <<reply>>] /\ UNCHANGED moq
    <3>1. /\ Names(slOut'[n]) = {c}
          /\ \A k \in Nodes : k # n => slOut'[k] = slOut[k]
      BY <2>6, <2>10, NamesOf DEF TypeOK
    <3>2. \A k \in Nodes : \A x \in Names(slOut'[k]) :
             x \in Names(slOut[k]) \/ (sto = <<"slOut", k>> /\ x = c)
      BY <3>1
    <3>3. \A p \in Places : \A x \in At'[p] : x \in At[p] \/ (p = sto /\ x = c)
      BY <2>1, <2>4, <2>7, <2>10, <3>2, Frame DEF Req
    <3>4. OneAtATime' /\ NewNowhere'
      BY <2>0, <2>1, <2>5, <3>3, NameMoves DEF Tokens
    <3> QED BY <2>1, <2>4, <2>8, <2>10, <3>4 DEF Tokens, AllDistinct
  <2> QED BY <1>i, <2>9, <2>10 DEF StackCmd, reply, c
<1>j. ASSUME NEW n \in Nodes, StackReplyUnblock(n) PROVE Tokens'
  <2> DEFINE r == Head(slOut[n])
             sto == <<"slOut", n>>
  <2>0. sto \in Places
    BY PlacesAre
  <2>1. /\ client' = client /\ answer' = answer /\ udpq' = udpq /\ mon' = mon
        /\ alq' = alq /\ slq' = slq /\ alOut' = alOut
    BY <1>j DEF StackReplyUnblock
  <2>2. /\ slOut'[n] = <<>> /\ slOut[n] # <<>> /\ slOut[n] \in Seq(Replies)
        /\ \A k \in Nodes : k # n => slOut'[k] = slOut[k]
    BY <1>j DEF StackReplyUnblock, TypeOK
  <2>3. /\ r \in Replies /\ r.from \in Names(slOut[n])
        /\ Names(slOut'[n]) = {}
    BY <2>2, NamesOf, SeqTyped
  <2>4. Responses' = Responses /\ NoSharedAnswer'
    BY <2>1 DEF Responses, Answered, Tokens, NoSharedAnswer
  <2>5. r.from \in At[sto] /\ r.from \notin At'[sto]
    BY <2>0, <2>3 DEF At
  <2>6. moq' = Append(moq, r)
    BY <1>j DEF StackReplyUnblock
  <2> HIDE DEF r
  <2>7. Names(moq') = Names(moq) \cup {r.from}
    BY <2>3, <2>6, NamesOf DEF TypeOK
  <2>8. \A k \in Nodes : \A x \in Names(slOut'[k]) : x \in Names(slOut[k])
    BY <2>2, <2>3
  <2>9. \A p \in Places : \A x \in At'[p] : x \in At[p] \/ (p = rep /\ x = r.from)
    BY <2>1, <2>4, <2>7, <2>8, Frame DEF Req
  <2>10. OneAtATime' /\ NewNowhere'
    BY <1>0, <2>0, <2>1, <2>5, <2>9, NameMoves DEF Tokens
  <2>11. r.from \notin Names(moq)
    BY <1>0, <2>0, <2>5, AtIs DEF Tokens, OneAtATime
  <2>12. Distinct(moq')
    BY <2>3, <2>6, <2>11, NamesOf DEF TypeOK, Tokens, AllDistinct
  <2> QED BY <2>1, <2>4, <2>10, <2>12 DEF Tokens, AllDistinct
<1>k. ASSUME NEW n \in Nodes, StackStart(n) \/ StackExit(n) PROVE Tokens'
  <2>1. /\ client' = client /\ answer' = answer /\ udpq' = udpq /\ mon' = mon
        /\ alq' = alq /\ moq' = moq /\ alOut' = alOut
    BY <1>k DEF StackStart, StackExit
  <2>2. Responses' = Responses /\ NoSharedAnswer'
    BY <2>1 DEF Responses, Answered, Tokens, NoSharedAnswer
  <2>3. \A k \in Nodes : /\ slq'[k] = slq[k] \/ slq'[k] = <<>>
                         /\ slOut'[k] = slOut[k] \/ slOut'[k] = <<>>
    BY <1>k DEF StackStart, StackExit, TypeOK
  <2>4. Names(<<>>) = {} /\ Distinct(<<>>)
    BY NamesOf, SeqTyped
  <2>5. \A p \in Places : At'[p] \subseteq At[p]
    BY <2>1, <2>2, <2>3, <2>4, PlacesAre DEF At, Req
  <2>6. OneAtATime' /\ NewNowhere'
    BY <2>1, <2>5, NamesGo DEF Tokens
  <2>7. AllDistinct'
    BY <2>1, <2>3, <2>4 DEF Tokens, AllDistinct
  <2> QED BY <2>2, <2>6, <2>7 DEF Tokens
<1>l. CASE UNCHANGED vars
  <2>1. /\ client' = client /\ answer' = answer /\ udpq' = udpq /\ mon' = mon
        /\ alq' = alq /\ slq' = slq /\ moq' = moq /\ alOut' = alOut /\ slOut' = slOut
    BY <1>l DEF vars
  <2>2. Responses' = Responses /\ NoSharedAnswer'
    BY <2>1 DEF Responses, Answered, Tokens, NoSharedAnswer
  <2>3. At' = At
    BY <2>1, <2>2 DEF At, Req
  <2> QED
    BY <2>1, <2>2, <2>3 DEF Tokens, OneAtATime, NewNowhere, AllDistinct, Places
<1> QED
  BY <1>a, <1>b, <1>c, <1>d, <1>e, <1>f, <1>g, <1>h, <1>i, <1>j, <1>k, <1>l
  DEF Next, Monitor, Airline, Stack

\* Nothing is anywhere at the start.
LEMMA InitTokens == Init => Tokens
<1> SUFFICES ASSUME Init PROVE Tokens
  OBVIOUS
<1>1. Names(<<>>) = {} /\ Distinct(<<>>)
  BY NamesOf, SeqTyped
<1>2. Responses = {}
  BY DEF Init, Responses, Answered
<1>3. \A p \in Places : At[p] = {}
  BY <1>1, <1>2, PlacesAre DEF At, Init, MonIdle
<1> QED
  BY <1>1, <1>3
  DEF Init, Tokens, OneAtATime, NewNowhere, AllDistinct, NoSharedAnswer, Answered

\* However late an answer comes and whichever line it is for, it is given to one
\* client at most: the socket of the MONITOR line is emptied message by message,
\* and every command is answered once (fwd_cmd_on_commline, sl_handle_cmd,
\* msgrecvCallback).
THEOREM OamNoSharedAnswer == Spec => []NoSharedAnswer
<1>1. Init => Tokens
  BY InitTokens
<1>2. TypeOK /\ MonHolds /\ Tokens /\ [Next]_vars => Tokens'
  BY TokensKept
<1>3. Tokens => NoSharedAnswer
  BY DEF Tokens
<1> QED BY <1>1, <1>2, <1>3, OamTypeCorrect, PTL DEF Spec

-----------------------------------------------------------------------------
(* The backlog.                                                             *)

\* A command still to be served, or being served, has not run out of polls.
Fresh ==
    /\ Names(udpq) \cap timeouts = {}
    /\ mon.pc # "recv" => Req.from \notin Names(udpq) \cup timeouts
    /\ \A c \in timeouts \cup Names(mon.req) : client[c] # "new"

Backlog == /\ IsFiniteSet(Outstanding)
           /\ IsFiniteSet(timeouts)
           /\ BacklogBounded
           /\ Fresh

\* One more message at the end of a queue is one more position.
LEMMA PositionsAppend ==
    ASSUME NEW S, NEW q \in Seq(S), NEW x \in S, NEW l, NEW n
    PROVE  Positions(l, n, Append(q, x)) =
              Positions(l, n, q) \cup {<<l, n, Len(q) + 1>>}
<1>1. DOMAIN Append(q, x) = DOMAIN q \cup {Len(q) + 1}
  OBVIOUS
<1> QED BY <1>1 DEF Positions

\* One less at its front is one position less.
LEMMA PositionsTail ==
    ASSUME NEW S, NEW q \in Seq(S), q # <<>>, NEW l, NEW n
    PROVE  /\ <<l, n, Len(q)>> \in Positions(l, n, q)
           /\ Positions(l, n, Tail(q)) = Positions(l, n, q) \ {<<l, n, Len(q)>>}
<1>1. Len(q) \in DOMAIN q /\ DOMAIN Tail(q) = DOMAIN q \ {Len(q)}
  OBVIOUS
<1> QED BY <1>1 DEF Positions

\* The size of a set that loses and gains a member.
LEMMA CardinalityMoves ==
    ASSUME NEW A, IsFiniteSet(A), NEW B
    PROVE  /\ B \subseteq A => IsFiniteSet(B) /\ Cardinality(B) <= Cardinality(A)
           /\ \A y : B \subseteq A \cup {y} =>
                 IsFiniteSet(B) /\ Cardinality(B) <= Cardinality(A) + 1
           /\ \A x \in A : B \subseteq A \ {x} =>
                 IsFiniteSet(B) /\ Cardinality(B) <= Cardinality(A) - 1
           /\ \A x \in A : \A y : B \subseteq (A \ {x}) \cup {y} =>
                 IsFiniteSet(B) /\ Cardinality(B) <= Cardinality(A)
           /\ Cardinality(A) \in Nat
<1>1. Cardinality(A) \in Nat
  BY FS_CardinalityType
<1>2. ASSUME NEW C, IsFiniteSet(C), B \subseteq C
      PROVE  /\ IsFiniteSet(B) /\ Cardinality(B) <= Cardinality(C)
             /\ Cardinality(B) \in Nat
  BY <1>2, FS_Subset, FS_CardinalityType
<1>3. ASSUME NEW C, IsFiniteSet(C), NEW y
      PROVE  /\ IsFiniteSet(C \cup {y}) /\ Cardinality(C \cup {y}) <= Cardinality(C) + 1
             /\ Cardinality(C) \in Nat /\ Cardinality(C \cup {y}) \in Nat
  <2>1. /\ IsFiniteSet(C \cup {y})
        /\ Cardinality(C \cup {y}) = IF y \in C THEN Cardinality(C) ELSE Cardinality(C) + 1
    BY <1>3, FS_AddElement
  <2> QED BY <1>3, <2>1, FS_CardinalityType
<1>4. ASSUME NEW x \in A
      PROVE  IsFiniteSet(A \ {x}) /\ Cardinality(A \ {x}) = Cardinality(A) - 1
  BY FS_RemoveElement
<1>5. ASSUME NEW y, B \subseteq A \cup {y}
      PROVE  IsFiniteSet(B) /\ Cardinality(B) <= Cardinality(A) + 1
  <2>1. /\ IsFiniteSet(A \cup {y}) /\ Cardinality(A \cup {y}) <= Cardinality(A) + 1
        /\ Cardinality(A \cup {y}) \in Nat
    BY <1>3
  <2>2. IsFiniteSet(B) /\ Cardinality(B) <= Cardinality(A \cup {y}) /\ Cardinality(B) \in Nat
    BY <1>2, <1>5, <2>1
  <2> QED BY <1>1, <2>1, <2>2
<1>6. ASSUME NEW x \in A, NEW y, B \subseteq (A \ {x}) \cup {y}
      PROVE  IsFiniteSet(B) /\ Cardinality(B) <= Cardinality(A)
  <2> DEFINE C == A \ {x}
  <2>1. IsFiniteSet(C) /\ Cardinality(C) = Cardinality(A) - 1
    BY <1>4
  <2>2. /\ IsFiniteSet(C \cup {y}) /\ Cardinality(C \cup {y}) <= Cardinality(C) + 1
        /\ Cardinality(C \cup {y}) \in Nat
    BY <1>3, <2>1
  <2>3. B \subseteq C \cup {y}
    BY <1>6
  <2> HIDE DEF C
  <2>4. IsFiniteSet(B) /\ Cardinality(B) <= Cardinality(C \cup {y}) /\ Cardinality(B) \in Nat
    BY <1>2, <2>2, <2>3
  <2> QED BY <1>1, <2>1, <2>2, <2>4
<1>7. ASSUME NEW x \in A, B \subseteq A \ {x}
      PROVE  IsFiniteSet(B) /\ Cardinality(B) <= Cardinality(A) - 1
  <2>1. IsFiniteSet(B) /\ Cardinality(B) <= Cardinality(A \ {x})
    BY <1>2, <1>4, <1>7
  <2> QED BY <1>4, <2>1
<1> QED BY <1>1, <1>2, <1>5, <1>6, <1>7

\* A position names its queue.
LEMMA PositionsNamed ==
    ASSUME NEW l, NEW n, NEW q, NEW p \in Positions(l, n, q)
    PROVE  p[1] = l /\ p[2] = n
BY DEF Positions

\* A step moves at most one message on the lines, from src to dst, if that is
\* all it does to each queue.
LEMMA OutstandingMoves ==
    ASSUME NEW src, NEW dst,
           \A p \in Positions("alq", 0, alq') :
              \/ p \in Positions("alq", 0, alq) /\ (src[1] = "alq" => p # src)
              \/ p = dst,
           \A p \in Positions("moq", 0, moq') :
              \/ p \in Positions("moq", 0, moq) /\ (src[1] = "moq" => p # src)
              \/ p = dst,
           \A p \in Positions("alOut", 0, alOut') :
              \/ p \in Positions("alOut", 0, alOut) /\ (src[1] = "alOut" => p # src)
              \/ p = dst,
           \A n \in Nodes : \A p \in Positions("slq", n, slq'[n]) :
              \/ p \in Positions("slq", n, slq[n])
                   /\ (src[1] = "slq" /\ src[2] = n => p # src)
              \/ p = dst,
           \A n \in Nodes : \A p \in Positions("slOut", n, slOut'[n]) :
              \/ p \in Positions("slOut", n, slOut[n])
                   /\ (src[1] = "slOut" /\ src[2] = n => p # src)
              \/ p = dst
    PROVE  Outstanding' \subseteq (Outstanding \ {src}) \cup {dst}
<1> SUFFICES ASSUME NEW p \in Outstanding', p # dst PROVE p \in Outstanding /\ p # src
  OBVIOUS
<1>1. CASE p \in Positions("alq", 0, alq')
  BY <1>1, PositionsNamed DEF Outstanding
<1>2. CASE p \in Positions("moq", 0, moq')
  BY <1>2, PositionsNamed DEF Outstanding
<1>3. CASE p \in Positions("alOut", 0, alOut')
  BY <1>3, PositionsNamed DEF Outstanding
<1>4. ASSUME NEW n \in Nodes, p \in Positions("slq", n, slq'[n])
      PROVE  p \in Outstanding /\ p # src
  BY <1>4, PositionsNamed DEF Outstanding
<1>5. ASSUME NEW n \in Nodes, p \in Positions("slOut", n, slOut'[n])
      PROVE  p \in Outstanding /\ p # src
  BY <1>5, PositionsNamed DEF Outstanding
<1> QED BY <1>1, <1>2, <1>3, <1>4, <1>5 DEF Outstanding

\* What the lines hold.
LEMMA OutstandingHas ==
    /\ Positions("alq", 0, alq) \subseteq Outstanding
    /\ Positions("moq", 0, moq) \subseteq Outstanding
    /\ Positions("alOut", 0, alOut) \subseteq Outstanding
    /\ \A n \in Nodes : /\ Positions("slq", n, slq[n]) \subseteq Outstanding
                        /\ Positions("slOut", n, slOut[n]) \subseteq Outstanding
BY DEF Outstanding

\* Handling a command takes one message and adds one; taking a message from a
\* line, or sending one, is half of it.
LEMMA LineSteps ==
    ASSUME TypeOK, MonHolds
    PROVE  /\ AirlineCmd \/ AirlineReplyUnblock
                \/ (\E n \in Nodes : StackCmd(n) \/ StackReplyUnblock(n))
              => \E p \in Outstanding : \E r :
                    Outstanding' \subseteq (Outstanding \ {p}) \cup {r}
           /\ MonitorSend => \E r : Outstanding' \subseteq Outstanding \cup {r}
           /\ MonitorPollHit => \E p \in Outstanding : Outstanding' \subseteq Outstanding \ {p}
           /\ MonitorPollMiss \/ (\E n \in Nodes : StackStart(n) \/ StackExit(n))
              => Outstanding' \subseteq Outstanding
<1>0. /\ alq \in Seq(Requests) /\ moq \in Seq(Replies) /\ alOut \in Seq(Replies)
      /\ slq \in [Nodes -> Seq(Requests)] /\ slOut \in [Nodes -> Seq(Replies)]
  BY DEF TypeOK
<1>a. ASSUME NEW x \in Replies, moq' = Append(moq, x)
      PROVE  Positions("moq", 0, moq') =
                Positions("moq", 0, moq) \cup {<<"moq", 0, Len(moq) + 1>>}
  BY <1>0, <1>a, PositionsAppend
<1>1. ASSUME AirlineCmd
      PROVE  \E p \in Outstanding : \E r :
                Outstanding' \subseteq (Outstanding \ {p}) \cup {r}
  <2> DEFINE req   == Head(alq)
             reply == [from |-> req.from, empty |-> Outcome(req.cmd) = "empty"]
             p     == <<"alq", 0, Len(alq)>>
  <2>1. slq' = slq /\ slOut' = slOut
    BY <1>1 DEF AirlineCmd
  <2>2. alq # <<>> /\ alq' = Tail(alq)
    BY <1>1 DEF AirlineCmd
  <2>3. reply \in Replies
    BY <1>0, <2>2, ReplyTyped, SeqTyped
  <2>4. p \in Positions("alq", 0, alq)
        /\ Positions("alq", 0, alq') = Positions("alq", 0, alq) \ {p}
    BY <1>0, <2>2, PositionsTail
  <2>5. p \in Outstanding /\ p[1] = "alq"
    BY <2>4, OutstandingHas
  <2> HIDE DEF p, reply
  <2>6. CASE moq' = Append(moq, reply) /\ UNCHANGED alOut
    <3> DEFINE r == <<"moq", 0, Len(moq) + 1>>
    <3>1. Positions("moq", 0, moq') = Positions("moq", 0, moq) \cup {r}
      BY <1>a, <2>3, <2>6
    <3> HIDE DEF r
    <3>2. Outstanding' \subseteq (Outstanding \ {p}) \cup {r}
      BY <2>1, <2>4, <2>5, <2>6, <3>1, OutstandingMoves
    <3> QED BY <2>5, <3>2
  <2>7. CASE alOut' = <<reply>> /\ UNCHANGED moq
    <3> DEFINE r == <<"alOut", 0, 1>>
    <3>1. Positions("alOut", 0, alOut') = {r}
      BY <2>7 DEF Positions
    <3> HIDE DEF r
    <3>2. Outstanding' \subseteq (Outstanding \ {p}) \cup {r}
      BY <2>1, <2>4, <2>5, <2>7, <3>1, OutstandingMoves
    <3> QED BY <2>5, <3>2
  <2>8. CASE UNCHANGED <<moq, alOut>>
    <3>1. Outstanding' \subseteq (Outstanding \ {p}) \cup {p}
      BY <2>1, <2>4, <2>5, <2>8, OutstandingMoves
    <3> QED BY <2>5, <3>1
  <2> QED BY <1>1, <2>6, <2>7, <2>8 DEF AirlineCmd, reply
<1>2. ASSUME AirlineReplyUnblock
      PROVE  \E p \in Outstanding : \E r :
                Outstanding' \subseteq (Outstanding \ {p}) \cup {r}
  <2> DEFINE p == <<"alOut", 0, Len(alOut)>>
             r == <<"moq", 0, Len(moq) + 1>>
  <2>1. /\ slq' = slq /\ slOut' = slOut /\ alq' = alq /\ alOut # <<>> /\ alOut' = <<>>
        /\ moq' = Append(moq, Head(alOut))
    BY <1>2 DEF AirlineReplyUnblock
  <2>2. Head(alOut) \in Replies
    BY <1>0, <2>1, SeqTyped
  <2>3. p \in Positions("alOut", 0, alOut) /\ Positions("alOut", 0, alOut') = {}
    <3>1. p \in Positions("alOut", 0, alOut)
      BY <1>0, <2>1, PositionsTail
    <3>2. Positions("alOut", 0, alOut') = {}
      BY <2>1 DEF Positions
    <3> QED BY <3>1, <3>2
  <2>4. Positions("moq", 0, moq') = Positions("moq", 0, moq) \cup {r}
    BY <1>a, <2>1, <2>2
  <2>5. p \in Outstanding /\ p[1] = "alOut"
    BY <2>3, OutstandingHas
  <2> HIDE DEF p, r
  <2>6. Outstanding' \subseteq (Outstanding \ {p}) \cup {r}
    BY <2>1, <2>3, <2>4, <2>5, OutstandingMoves
  <2> QED BY <2>5, <2>6
<1>3. ASSUME NEW n \in Nodes, StackCmd(n)
      PROVE  \E p \in Outstanding : \E r :
                Outstanding' \subseteq (Outstanding \ {p}) \cup {r}
  <2> DEFINE reply == [from |-> Head(slq[n]).from, empty |-> FALSE]
             p     == <<"slq", n, Len(slq[n])>>
  <2>1. /\ alq' = alq /\ alOut' = alOut
        /\ slq[n] # <<>> /\ slq'[n] = Tail(slq[n])
        /\ \A k \in Nodes : k # n => slq'[k] = slq[k]
    BY <1>0, <1>3 DEF StackCmd
  <2>2. reply \in Replies
    BY <1>0, <2>1, ReplyTyped, SeqTyped
  <2>3. p \in Positions("slq", n, slq[n])
        /\ Positions("slq", n, slq'[n]) = Positions("slq", n, slq[n]) \ {p}
    BY <1>0, <2>1, PositionsTail
  <2>4. p \in Outstanding /\ p[1] = "slq" /\ p[2] = n
    BY <2>3, OutstandingHas
  <2> HIDE DEF p, reply
  <2>5. \A k \in Nodes : \A x \in Positions("slq", k, slq'[k]) :
           x \in Positions("slq", k, slq[k]) /\ (p[1] = "slq" /\ p[2] = k => x # p)
    BY <2>1, <2>3, <2>4
  <2>6. CASE moq' = Append(moq, reply) /\ UNCHANGED slOut
    <3> DEFINE r == <<"moq", 0, Len(moq) + 1>>
    <3>1. Positions("moq", 0, moq') = Positions("moq", 0, moq) \cup {r}
      BY <1>a, <2>2, <2>6
    <3> HIDE DEF r
    <3>2. Outstanding' \subseteq (Outstanding \ {p}) \cup {r}
      BY <2>1, <2>4, <2>5, <2>6, <3>1, OutstandingMoves
    <3> QED BY <2>4, <3>2
  <2>7. CASE slOut' = [slOut EXCEPT ![n] = <<reply>>] /\ UNCHANGED moq
    <3> DEFINE r == <<"slOut", n, 1>>
    <3>1. /\ slOut'[n] = <<reply>>
          /\ \A k \in Nodes : k # n => slOut'[k] = slOut[k]
      BY <1>0, <2>7
    <3>2. Positions("slOut", n, slOut'[n]) = {r}
      BY <3>1 DEF Positions
    <3> HIDE DEF r
    <3>3. \A k \in Nodes : \A x \in Positions("slOut", k, slOut'[k]) :
             x \in Positions("slOut", k, slOut[k]) \/ x = r
      BY <3>1, <3>2
    <3>4. Outstanding' \subseteq (Outstanding \ {p}) \cup {r}
      BY <2>1, <2>4, <2>5, <2>7, <3>3, OutstandingMoves
    <3> QED BY <2>4, <3>4
  <2> QED BY <1>3, <2>6, <2>7 DEF StackCmd, reply
<1>4. ASSUME NEW n \in Nodes, StackReplyUnblock(n)
      PROVE  \E p \in Outstanding : \E r :
                Outstanding' \subseteq (Outstanding \ {p}) \cup {r}
  <2> DEFINE p == <<"slOut", n, Len(slOut[n])>>
             r == <<"moq", 0, Len(moq) + 1>>
  <2>1. /\ alq' = alq /\ alOut' = alOut /\ slq' = slq
        /\ slOut[n] # <<>> /\ slOut'[n] = <<>>
        /\ \A k \in Nodes : k # n => slOut'[k] = slOut[k]
        /\ moq' = Append(moq, Head(slOut[n]))
    BY <1>0, <1>4 DEF StackReplyUnblock
  <2>2. Head(slOut[n]) \in Replies
    BY <1>0, <2>1, SeqTyped
  <2>3. p \in Positions("slOut", n, slOut[n]) /\ Positions("slOut", n, slOut'[n]) = {}
    <3>1. p \in Positions("slOut", n, slOut[n])
      BY <1>0, <2>1, PositionsTail
    <3>2. Positions("slOut", n, slOut'[n]) = {}
      BY <2>1 DEF Positions
    <3> QED BY <3>1, <3>2
  <2>4. Positions("moq", 0, moq') = Positions("moq", 0, moq) \cup {r}
    BY <1>a, <2>1, <2>2
  <2>5. p \in Outstanding /\ p[1] = "slOut" /\ p[2] = n
    BY <2>3, OutstandingHas
  <2> HIDE DEF p, r
  <2>6. \A k \in Nodes : \A x \in Positions("slOut", k, slOut'[k]) :
           x \in Positions("slOut", k, slOut[k]) /\ (p[1] = "slOut" /\ p[2] = k => x # p)
    BY <2>1, <2>3, <2>5
  <2>7. Outstanding' \subseteq (Outstanding \ {p}) \cup {r}
    BY <2>1, <2>4, <2>5, <2>6, OutstandingMoves
  <2> QED BY <2>5, <2>7
<1>5. ASSUME MonitorSend
      PROVE  \E r : Outstanding' \subseteq Outstanding \cup {r}
  <2>1. moq' = moq /\ alOut' = alOut /\ slOut' = slOut
    BY <1>5 DEF MonitorSend
  <2>2. Req \in Requests
    BY <1>5, SeqTyped DEF MonitorSend, TypeOK, MonHolds, Req
  <2>3. CASE alq' = Append(alq, Req) /\ UNCHANGED slq
    <3> DEFINE r == <<"alq", 0, Len(alq) + 1>>
    <3>1. Positions("alq", 0, alq') = Positions("alq", 0, alq) \cup {r}
      BY <1>0, <2>2, <2>3, PositionsAppend
    <3> HIDE DEF r
    <3>2. Outstanding' \subseteq Outstanding \cup {r}
      BY <2>1, <2>3, <3>1 DEF Outstanding
    <3> QED BY <3>2
  <2>4. CASE /\ Bound(SrcId(Cmd))
             /\ slq' = [slq EXCEPT ![SrcId(Cmd)] = Append(@, Req)]
             /\ UNCHANGED alq
    <3> DEFINE n == SrcId(Cmd)
               r == <<"slq", n, Len(slq[n]) + 1>>
    <3>1. n \in Nodes
      BY <2>4 DEF Bound
    <3>2. slq'[n] = Append(slq[n], Req) /\ \A k \in Nodes : k # n => slq'[k] = slq[k]
      BY <1>0, <2>4, <3>1
    <3> HIDE DEF n
    <3>3. Positions("slq", n, slq'[n]) = Positions("slq", n, slq[n]) \cup {r}
      BY <1>0, <2>2, <3>1, <3>2, PositionsAppend
    <3> HIDE DEF r
    <3>4. \A k \in Nodes : \A x \in Positions("slq", k, slq'[k]) :
             x \in Positions("slq", k, slq[k]) \/ x = r
      BY <3>2, <3>3
    <3>5. Outstanding' \subseteq Outstanding \cup {r}
      BY <2>1, <2>4, <3>4 DEF Outstanding
    <3> QED BY <3>5
  <2>5. CASE UNCHANGED <<alq, slq>>
    BY <2>1, <2>5 DEF Outstanding
  <2> QED BY <1>5, <2>3, <2>4, <2>5 DEF MonitorSend
<1>6. ASSUME MonitorPollHit
      PROVE  \E p \in Outstanding : Outstanding' \subseteq Outstanding \ {p}
  <2> DEFINE p == <<"moq", 0, Len(moq)>>
  <2>1. /\ alq' = alq /\ alOut' = alOut /\ slq' = slq /\ slOut' = slOut
        /\ moq # <<>> /\ moq' = Tail(moq)
    BY <1>6 DEF MonitorPollHit
  <2>2. p \in Positions("moq", 0, moq)
        /\ Positions("moq", 0, moq') = Positions("moq", 0, moq) \ {p}
    BY <1>0, <2>1, PositionsTail
  <2>3. p \in Outstanding /\ p[1] = "moq"
    BY <2>2, OutstandingHas
  <2> HIDE DEF p
  <2>4. Outstanding' \subseteq Outstanding \ {p}
    <3> SUFFICES ASSUME NEW x \in Outstanding' PROVE x \in Outstanding /\ x # p
      OBVIOUS
    <3>1. CASE x \in Positions("moq", 0, moq')
      BY <2>2, <3>1, OutstandingHas
    <3>2. CASE x[1] # "moq"
      BY <2>1, <2>2, <2>3, <3>2 DEF Outstanding
    <3> QED BY <2>1, <3>1, <3>2, PositionsNamed DEF Outstanding
  <2> QED BY <2>3, <2>4
<1>7. ASSUME MonitorPollMiss PROVE Outstanding' \subseteq Outstanding
  <2>1. alq' = alq /\ alOut' = alOut /\ slq' = slq /\ slOut' = slOut
    BY <1>7 DEF MonitorPollMiss
  <2>2. Positions("moq", 0, moq') \subseteq Positions("moq", 0, moq)
    <3>1. CASE UNCHANGED moq
      BY <3>1
    <3>2. CASE moq # <<>> /\ moq' = Tail(moq)
      BY <1>0, <3>2, PositionsTail
    <3> QED BY <1>7, <3>1, <3>2 DEF MonitorPollMiss
  <2> QED BY <2>1, <2>2 DEF Outstanding
<1>8. ASSUME NEW n \in Nodes, StackStart(n) \/ StackExit(n)
      PROVE  Outstanding' \subseteq Outstanding
  <2>1. /\ alq' = alq /\ alOut' = alOut /\ moq' = moq
        /\ \A k \in Nodes : /\ slq'[k] = slq[k] \/ slq'[k] = <<>>
                            /\ slOut'[k] = slOut[k] \/ slOut'[k] = <<>>
    BY <1>0, <1>8 DEF StackStart, StackExit, targetVars
  <2>2. \A l, k : Positions(l, k, <<>>) = {}
    BY DEF Positions
  <2> QED BY <2>1, <2>2 DEF Outstanding
<1> QED BY <1>1, <1>2, <1>3, <1>4, <1>5, <1>6, <1>7, <1>8
\* Only the monitor touches what Fresh is about, and clients.
LEMMA FreshKept ==
    ASSUME TypeOK, MonHolds, Tokens, Fresh, [Next]_vars
    PROVE  Fresh'
<1> USE DEF targetVars
<1>0. mon.pc # "recv" => /\ Req \in Requests /\ Req.from \in Clients
                         /\ Req.from \in Names(mon.req)
  <2>1. mon.pc # "recv" => mon.req # <<>> /\ mon.req \in Seq(Requests)
    BY DEF TypeOK, MonHolds
  <2> QED BY <2>1, SeqTyped, NamesOf, ReplyTyped DEF Req
<1>a. timeouts \cup Names(mon.req) \subseteq Clients
  <2>1. \A i \in DOMAIN mon.req : mon.req[i] \in Requests
    BY DEF TypeOK
  <2>2. Names(mon.req) \subseteq Clients
    BY <2>1, ReplyTyped DEF Names
  <2> QED BY <2>2 DEF TypeOK
<1>1. ASSUME NEW c \in Clients, ClientSend(c) PROVE Fresh'
  <2>1. PICK cmd \in Cmds : udpq' = Append(udpq, [from |-> c, cmd |-> cmd])
    BY <1>1 DEF ClientSend
  <2>2. [from |-> c, cmd |-> cmd] \in Requests
    BY DEF Requests
  <2>3. Names(udpq') = Names(udpq) \cup {c}
    BY <2>1, <2>2, NamesOf DEF TypeOK
  <2>4. /\ mon' = mon /\ timeouts' = timeouts /\ client[c] = "new"
        /\ \A d \in Clients : client'[d] = "new" => client[d] = "new"
    BY <1>1 DEF ClientSend, TypeOK
  <2>5. c \notin timeouts /\ (mon.pc # "recv" => c # Req.from)
    BY <1>0, <2>4 DEF Fresh
  <2> QED BY <1>a, <2>3, <2>4, <2>5 DEF Fresh, Req
<1>2. CASE MonitorRecv
  <2> DEFINE req == Head(udpq)
  <2>1. /\ req \in Requests /\ req.from \in Names(udpq)
        /\ Names(udpq') \subseteq Names(udpq) /\ req.from \notin Names(udpq')
    BY <1>2, NamesOf, SeqTyped DEF MonitorRecv, TypeOK, Tokens, AllDistinct
  <2>2. req.from \in Clients /\ client[req.from] # "new"
    <3>1. req.from \in At[<<"udpq", CL_MGR_ID>>]
      BY <2>1, AtIs
    <3> QED BY <2>1, <3>1, ReplyTyped, PlacesAre DEF Tokens, NewNowhere
  <2>3. \A d \in Clients : client'[d] = "new" => client[d] = "new"
    <3>1. ASSUME NEW a, Respond(req, a)
          PROVE  \A d \in Clients : client'[d] = "new" => client[d] = "new"
      BY <2>1, <3>1, ResponsesGrow
    <3>2. CASE UNCHANGED <<answer, client>>
      BY <3>2
    <3> QED BY <1>2, <3>1, <3>2 DEF MonitorRecv
  <2>4. timeouts' = timeouts /\ timeouts \subseteq Clients
    BY <1>2 DEF MonitorRecv, TypeOK
  <2>5. CASE mon' = mon
    <3>1. mon.pc = "recv" /\ mon.req = <<>>
      BY <1>2 DEF MonitorRecv, MonHolds
    <3>2. Names(mon.req) = {}
      BY <3>1 DEF Names
    <3> QED BY <2>1, <2>3, <2>4, <2>5, <3>1, <3>2 DEF Fresh
  <2>6. CASE mon' = [pc |-> "send", req |-> <<req>>, c |-> 0]
    <3>1. Req' = req /\ Names(mon'.req) = {req.from}
      BY <2>6 DEF Req, Names
    <3>2. req.from \notin timeouts
      BY <2>1 DEF Fresh
    <3> HIDE DEF req
    <3> QED BY <2>1, <2>2, <2>3, <2>4, <3>1, <3>2 DEF Fresh
  <2> QED BY <1>2, <2>5, <2>6 DEF MonitorRecv
<1>3. ASSUME udpq' = udpq, timeouts' = timeouts, mon'.req = mon.req,
             mon.pc # "recv" \/ mon'.pc = "recv",
             \A d \in Clients : client'[d] = "new" => client[d] = "new"
      PROVE  Fresh'
  BY <1>3, <1>a DEF Fresh, Req
<1>4. CASE MonitorSend
  <2>1. mon'.req = mon.req /\ mon.pc # "recv"
    BY <1>4 DEF MonitorSend, TypeOK
  <2> QED BY <1>3, <1>4, <2>1 DEF MonitorSend
<1>5. CASE MonitorPollHit
  <2>1. \A d \in Clients : client'[d] = "new" => client[d] = "new"
    BY <1>0, <1>5, ResponsesGrow DEF MonitorPollHit
  <2>2. /\ udpq' = udpq /\ timeouts' = timeouts /\ timeouts \subseteq Clients
        /\ mon'.pc = "recv" /\ mon'.req = <<>>
    BY <1>5 DEF MonitorPollHit, MonIdle, TypeOK
  <2>3. Names(mon'.req) = {}
    BY <2>2 DEF Names
  <2> QED BY <2>1, <2>2, <2>3 DEF Fresh
<1>6. CASE MonitorPollMiss
  <2>1. udpq' = udpq /\ mon.pc = "poll"
    BY <1>6 DEF MonitorPollMiss
  <2>2. CASE mon' = [mon EXCEPT !.c = @ + 1] /\ UNCHANGED <<client, answer, timeouts>>
    <3>1. mon'.req = mon.req
      BY <2>2 DEF TypeOK
    <3> QED BY <1>3, <2>1, <2>2, <3>1
  <2>3. CASE /\ Respond(Req, "NO_RSP_FROM_LINE")
             /\ mon' = MonIdle
             /\ timeouts' = timeouts \cup {Req.from}
    <3>1. \A d \in Clients : client'[d] = "new" => client[d] = "new"
      BY <1>0, <2>1, <2>3, ResponsesGrow
    <3>2. mon'.pc = "recv" /\ mon'.req = <<>>
      BY <2>3 DEF MonIdle
    <3>3. Names(mon'.req) = {}
      BY <3>2 DEF Names
    <3>4. /\ Req.from \notin Names(udpq) /\ Req.from \in Clients
          /\ client[Req.from] # "new" /\ timeouts \subseteq Clients
      BY <1>0, <2>1 DEF Fresh, TypeOK
    <3> QED BY <2>1, <2>3, <3>1, <3>2, <3>3, <3>4 DEF Fresh
  <2> QED BY <1>6, <2>2, <2>3 DEF MonitorPollMiss
<1>7. ASSUME NEW c \in Clients, ClientTimeout(c) PROVE Fresh'
  <2>1. \A d \in Clients : client'[d] = "new" => client[d] = "new"
    BY <1>7 DEF ClientTimeout, TypeOK
  <2>2. udpq' = udpq /\ timeouts' = timeouts /\ mon' = mon
    BY <1>7 DEF ClientTimeout
  <2> QED BY <1>3, <2>1, <2>2
<1>8. CASE UNCHANGED <<udpq, timeouts, mon, client>>
  BY <1>3, <1>8
<1>9. ASSUME AirlineCmd \/ AirlineReplyUnblock
               \/ (\E n \in Nodes : Stack(n) \/ StackStart(n) \/ StackExit(n))
      PROVE  UNCHANGED <<udpq, timeouts, mon, client>>
  BY <1>9 DEF AirlineCmd, AirlineReplyUnblock, Stack, StackCmd,
              StackReplyUnblock, StackStart, StackExit
<1>10. CASE UNCHANGED vars
  BY <1>8, <1>10 DEF vars
<1> QED
  BY <1>1, <1>2, <1>4, <1>5, <1>6, <1>7, <1>8, <1>9, <1>10
  DEF Next, Monitor, Airline

\* Each command adds one message and takes one reply away at most, so only a
\* command that runs out of polls leaves one more behind.
LEMMA BacklogKept ==
    ASSUME TypeOK, MonHolds, Tokens, Backlog, [Next]_vars
    PROVE  Backlog'
<1> USE DEF targetVars
<1>0. Fresh'
  BY FreshKept DEF Backlog
<1>a. /\ IsFiniteSet(Outstanding) /\ IsFiniteSet(timeouts)
      /\ Cardinality(Outstanding) \in Nat /\ Cardinality(timeouts) \in Nat
      /\ Cardinality(Outstanding) <= Cardinality(timeouts)
                                        + (IF mon.pc = "poll" THEN 1 ELSE 0)
  BY FS_CardinalityType DEF Backlog, BacklogBounded
<1>b. ASSUME UNCHANGED <<timeouts, mon>>, NEW p \in Outstanding, NEW r,
             Outstanding' \subseteq (Outstanding \ {p}) \cup {r}
      PROVE  Backlog'
  <2>1. /\ IsFiniteSet(Outstanding')
        /\ Cardinality(Outstanding') <= Cardinality(Outstanding)
    BY <1>a, <1>b, CardinalityMoves
  <2>2. Cardinality(Outstanding') \in Nat
    BY <2>1, FS_CardinalityType
  <2> QED BY <1>0, <1>a, <1>b, <2>1, <2>2 DEF Backlog, BacklogBounded
<1>c. ASSUME UNCHANGED <<timeouts, mon>>, Outstanding' \subseteq Outstanding
      PROVE  Backlog'
  <2>1. /\ IsFiniteSet(Outstanding')
        /\ Cardinality(Outstanding') <= Cardinality(Outstanding)
    BY <1>a, <1>c, CardinalityMoves
  <2>2. Cardinality(Outstanding') \in Nat
    BY <2>1, FS_CardinalityType
  <2> QED BY <1>0, <1>a, <1>c, <2>1, <2>2 DEF Backlog, BacklogBounded
<1>1. ASSUME NEW c \in Clients, ClientSend(c) \/ ClientTimeout(c) PROVE Backlog'
  <2>1. /\ UNCHANGED <<timeouts, mon>>
        /\ alq' = alq /\ alOut' = alOut /\ slq' = slq /\ slOut' = slOut /\ moq' = moq
    BY <1>1 DEF ClientSend, ClientTimeout
  <2>2. Outstanding' = Outstanding
    BY <2>1 DEF Outstanding
  <2> QED BY <1>c, <2>1, <2>2
<1>2. CASE MonitorRecv
  <2>1. /\ UNCHANGED timeouts
        /\ alq' = alq /\ alOut' = alOut /\ slq' = slq /\ slOut' = slOut /\ moq' = moq
        /\ mon.pc # "poll" /\ mon'.pc # "poll"
    BY <1>2 DEF MonitorRecv
  <2>2. Outstanding' = Outstanding
    BY <2>1 DEF Outstanding
  <2> QED BY <1>0, <1>a, <2>1, <2>2 DEF Backlog, BacklogBounded
<1>3. CASE MonitorSend
  <2>1. UNCHANGED timeouts /\ mon.pc = "send" /\ mon'.pc = "poll"
    BY <1>3 DEF MonitorSend, TypeOK
  <2>2. PICK r : Outstanding' \subseteq Outstanding \cup {r}
    BY <1>3, LineSteps
  <2>3. /\ IsFiniteSet(Outstanding')
        /\ Cardinality(Outstanding') <= Cardinality(Outstanding) + 1
    BY <1>a, <2>2, CardinalityMoves
  <2>4. Cardinality(Outstanding') \in Nat
    BY <2>3, FS_CardinalityType
  <2> QED BY <1>0, <1>a, <2>1, <2>3, <2>4 DEF Backlog, BacklogBounded
<1>4. CASE MonitorPollHit
  <2>1. UNCHANGED timeouts /\ mon.pc = "poll" /\ mon'.pc = "recv"
    BY <1>4 DEF MonitorPollHit, MonIdle
  <2>2. PICK p \in Outstanding : Outstanding' \subseteq Outstanding \ {p}
    BY <1>4, LineSteps
  <2>3. /\ IsFiniteSet(Outstanding')
        /\ Cardinality(Outstanding') <= Cardinality(Outstanding) - 1
    BY <1>a, <2>2, CardinalityMoves
  <2>4. Cardinality(Outstanding') \in Nat
    BY <2>3, FS_CardinalityType
  <2> QED BY <1>0, <1>a, <2>1, <2>3, <2>4 DEF Backlog, BacklogBounded
<1>5. CASE MonitorPollMiss
  <2>1. mon.pc = "poll" /\ Outstanding' \subseteq Outstanding
    BY <1>5, LineSteps DEF MonitorPollMiss
  <2>2. /\ IsFiniteSet(Outstanding')
        /\ Cardinality(Outstanding') <= Cardinality(Outstanding)
    BY <1>a, <2>1, CardinalityMoves
  <2>3. Cardinality(Outstanding') \in Nat
    BY <2>2, FS_CardinalityType
  <2>4. CASE mon' = [mon EXCEPT !.c = @ + 1] /\ UNCHANGED timeouts
    <3>1. mon'.pc = "poll"
      BY <2>1, <2>4 DEF TypeOK
    <3> QED BY <1>0, <1>a, <2>1, <2>2, <2>3, <2>4, <3>1 DEF Backlog, BacklogBounded
  <2>5. CASE mon' = MonIdle /\ timeouts' = timeouts \cup {Req.from}
    <3>1. mon'.pc = "recv"
      BY <2>5 DEF MonIdle
    <3>2. Req.from \notin timeouts
      BY <2>1 DEF Backlog, Fresh
    <3>3. /\ IsFiniteSet(timeouts')
          /\ Cardinality(timeouts') = Cardinality(timeouts) + 1
      BY <1>a, <2>5, <3>2, FS_AddElement
    <3> QED BY <1>0, <1>a, <2>1, <2>2, <2>3, <3>1, <3>3 DEF Backlog, BacklogBounded
  <2> QED BY <1>5, <2>4, <2>5 DEF MonitorPollMiss
<1>6. CASE AirlineCmd \/ AirlineReplyUnblock
             \/ (\E n \in Nodes : StackCmd(n) \/ StackReplyUnblock(n))
  <2>1. PICK p \in Outstanding : \E r : Outstanding' \subseteq (Outstanding \ {p}) \cup {r}
    BY <1>6, LineSteps
  <2>2. UNCHANGED <<timeouts, mon>>
    BY <1>6 DEF AirlineCmd, AirlineReplyUnblock, StackCmd, StackReplyUnblock
  <2> QED BY <1>b, <2>1, <2>2
<1>7. CASE \E n \in Nodes : StackStart(n) \/ StackExit(n)
  <2>1. Outstanding' \subseteq Outstanding
    BY <1>7, LineSteps
  <2>2. UNCHANGED <<timeouts, mon>>
    BY <1>7 DEF StackStart, StackExit
  <2> QED BY <1>c, <2>1, <2>2
<1>8. CASE UNCHANGED vars
  <2>1. UNCHANGED <<timeouts, mon>> /\ Outstanding' = Outstanding
    BY <1>8 DEF vars, Outstanding
  <2> QED BY <1>c, <2>1
<1> QED
  BY <1>1, <1>2, <1>3, <1>4, <1>5, <1>6, <1>7, <1>8
  DEF Next, Monitor, Airline, Stack

\* Nothing is outstanding at the start.
LEMMA InitBacklog == Init => Backlog
<1> SUFFICES ASSUME Init PROVE Backlog
  OBVIOUS
<1>1. Outstanding = {}
  BY DEF Init, Outstanding, Positions
<1>2. Fresh
  BY DEF Init, MonIdle, Fresh, Names
<1>3. IsFiniteSet({}) /\ Cardinality({}) = 0
  BY FS_EmptySet
<1> QED BY <1>1, <1>2, <1>3 DEF Init, MonIdle, Backlog, BacklogBounded

LEMMA BacklogHolds == Spec => []Backlog
<1>1. Init => Tokens /\ Backlog
  BY InitTokens, InitBacklog
<1>2. TypeOK /\ MonHolds /\ Tokens /\ Backlog /\ [Next]_vars => Tokens' /\ Backlog'
  BY TokensKept, BacklogKept
<1> QED BY <1>1, <1>2, OamTypeCorrect, PTL DEF Spec

\* The backlog is bounded by the commands that ran out of polls
\* (fwd_cmd_on_commline, sl_handle_cmd, msgrecvCallback).
THEOREM OamBacklogBounded == Spec => []BacklogBounded
<1>1. Backlog => BacklogBounded
  BY DEF Backlog
<1> QED BY <1>1, BacklogHolds, PTL

\* Two full queues and one message more are more than twice what a queue holds.
LEMMA TwoFullQueues ==
    ASSUME NEW S, IsFiniteSet(S), NEW l \in {"alq", "slq"}, NEW n,
           NEW h \in S, h[1] \in {"alOut", "slOut"},
           \A i \in 1..QLen : <<"moq", 0, i>> \in S /\ <<l, n, i>> \in S
    PROVE  2 * QLen < Cardinality(S)
<1> DEFINE D == 1..(2 * QLen + 1)
           a(i) == <<"moq", 0, i>>
           b(i) == <<l, n, i>>
           f == [i \in D |-> IF i <= QLen THEN a(i)
                             ELSE IF i <= 2 * QLen THEN b(i - QLen) ELSE h]
<1>1. QLen \in Nat /\ 2 * QLen + 1 \in Int
  BY OamAssumption
<1>2. IsFiniteSet(D) /\ Cardinality(D) = 2 * QLen + 1
  BY <1>1, FS_Interval
<1>a. \A i, j \in Int : /\ a(i) = a(j) => i = j
                        /\ b(i) = b(j) => i = j
                        /\ a(i) # b(j) /\ a(i) # h /\ b(i) # h
  <2>1. \A i : a(i)[1] = "moq" /\ b(i)[1] = l /\ a(i)[3] = i /\ b(i)[3] = i
    OBVIOUS
  <2>2. l # "moq" /\ h[1] # "moq" /\ h[1] # l
    OBVIOUS
  <2> HIDE DEF a, b
  <2> QED BY <2>1, <2>2
<1>b. \A i \in 1..QLen : a(i) \in S /\ b(i) \in S
  OBVIOUS
<1> HIDE DEF a, b
<1>3. f \in [D -> S]
  <2>1. ASSUME NEW i \in D
        PROVE  (IF i <= QLen THEN a(i) ELSE IF i <= 2 * QLen THEN b(i - QLen) ELSE h) \in S
    <3>1. CASE i <= QLen
      BY <1>1, <1>b, <3>1
    <3>2. CASE i > QLen /\ i <= 2 * QLen
      <4>1. i - QLen \in 1..QLen
        BY <1>1, <3>2
      <4> QED BY <1>1, <1>b, <3>2, <4>1
    <3>3. CASE i > 2 * QLen
      BY <1>1, <3>3
    <3> QED BY <1>1, <3>1, <3>2, <3>3
  <2> QED BY <2>1
<1>4. ASSUME NEW i \in D, NEW j \in D, f[i] = f[j] PROVE i = j
  <2>1. \A k \in D : f[k] = IF k <= QLen THEN a(k)
                            ELSE IF k <= 2 * QLen THEN b(k - QLen) ELSE h
    OBVIOUS
  <2>2. i \in Int /\ j \in Int /\ i - QLen \in Int /\ j - QLen \in Int
    BY <1>1
  <2> HIDE DEF f
  <2> QED BY <1>1, <1>4, <1>a, <2>1, <2>2
<1>5. Cardinality(S) \in Nat
  BY FS_CardinalityType
<1> HIDE DEF D, f
<1>6. ~(Cardinality(S) < Cardinality(D))
  BY <1>2, <1>3, <1>4, FS_PigeonHole
<1> QED BY <1>1, <1>2, <1>5, <1>6

\* However long the sockets' queues are: the monitor and a line wait for each
\* other only after more than twice as many commands have run out of polls as a
\* socket holds messages, because everything that then fills the two sockets,
\* and the reply that waits, is backlog (fwd_cmd_on_commline, msgrecvCallback,
\* sl_handle_cmd).
THEOREM OamLockUpNeedsTimeouts == Spec => []LockUpNeedsTimeouts
<1>1. TypeOK /\ Backlog => LockUpNeedsTimeouts
  <2> SUFFICES ASSUME TypeOK, Backlog, LockedUp
               PROVE  Cardinality(timeouts) > 2 * QLen
    BY DEF LockUpNeedsTimeouts
  <2>1. /\ IsFiniteSet(Outstanding) /\ IsFiniteSet(timeouts) /\ mon.pc = "send"
        /\ QLen \in Nat
    BY OamAssumption DEF Backlog, LockedUp
  <2>2. /\ moq \in Seq(Replies) /\ alq \in Seq(Requests) /\ alOut \in Seq(Replies)
        /\ slq \in [Nodes -> Seq(Requests)] /\ slOut \in [Nodes -> Seq(Replies)]
    BY DEF TypeOK
  <2>3. \A i \in 1..QLen : <<"moq", 0, i>> \in Outstanding
    <3> SUFFICES ASSUME NEW i \in 1..QLen PROVE <<"moq", 0, i>> \in Outstanding
      OBVIOUS
    <3>1. i \in DOMAIN moq
      BY <2>1, <2>2 DEF LockedUp, CanReply
    <3> QED BY <3>1, OutstandingHas DEF Positions
  <2>4. CASE Len(alq) >= QLen /\ alOut # <<>>
    <3>1. 1 \in DOMAIN alOut /\ \A i \in 1..QLen : i \in DOMAIN alq
      BY <2>1, <2>2, <2>4
    <3>2. <<"alOut", 0, 1>> \in Outstanding
      BY <3>1, OutstandingHas DEF Positions
    <3>3. \A i \in 1..QLen : <<"alq", 0, i>> \in Outstanding
      BY <3>1, OutstandingHas DEF Positions
    <3> DEFINE h == <<"alOut", 0, 1>>
    <3>4. h \in Outstanding /\ h[1] \in {"alOut", "slOut"}
      BY <3>2
    <3> HIDE DEF h
    <3>5. 2 * QLen < Cardinality(Outstanding)
      BY <2>1, <2>3, <3>3, <3>4, TwoFullQueues
    <3> QED BY <2>1, <3>5, FS_CardinalityType DEF Backlog, BacklogBounded
  <2>5. ASSUME NEW n \in Nodes, Len(slq[n]) >= QLen, slOut[n] # <<>>
        PROVE  Cardinality(timeouts) > 2 * QLen
    <3>0. slq[n] \in Seq(Requests) /\ slOut[n] \in Seq(Replies)
      BY <2>2
    <3>1. 1 \in DOMAIN slOut[n] /\ \A i \in 1..QLen : i \in DOMAIN slq[n]
      BY <2>1, <2>5, <3>0
    <3>2. <<"slOut", n, 1>> \in Outstanding
      BY <3>1, OutstandingHas DEF Positions
    <3>3. \A i \in 1..QLen : <<"slq", n, i>> \in Outstanding
      BY <3>1, OutstandingHas DEF Positions
    <3> DEFINE h == <<"slOut", n, 1>>
    <3>4. h \in Outstanding /\ h[1] \in {"alOut", "slOut"}
      BY <3>2
    <3> HIDE DEF h
    <3>5. 2 * QLen < Cardinality(Outstanding)
      BY <2>1, <2>3, <3>3, <3>4, TwoFullQueues
    <3> QED BY <2>1, <3>5, FS_CardinalityType DEF Backlog, BacklogBounded
  <2> QED BY <2>4, <2>5 DEF LockedUp, Bound
<1> QED BY <1>1, BacklogHolds, OamTypeCorrect, PTL

-----------------------------------------------------------------------------
(* Everyone gets the response to its own command.                           *)

\* While no command has run out of polls, the lines hold nothing but the
\* command being polled for, or its reply.
OnlyMine ==
    timeouts = {} /\ mon.pc = "poll" =>
        /\ Names(alq) \cup Names(moq) \cup Names(alOut) \subseteq {Req.from}
        /\ \A n \in Nodes : Names(slq[n]) \cup Names(slOut[n]) \subseteq {Req.from}

\* ... and nothing at all when none is polled for.
LEMMA NothingLeft ==
    ASSUME TypeOK, Backlog, timeouts = {}, mon.pc # "poll"
    PROVE  /\ Names(alq) = {} /\ Names(moq) = {} /\ Names(alOut) = {}
           /\ \A n \in Nodes : Names(slq[n]) = {} /\ Names(slOut[n]) = {}
<1>1. Cardinality(timeouts) = 0
  BY FS_EmptySet
<1>2. Outstanding = {}
  <2>1. Cardinality(Outstanding) <= 0 /\ Cardinality(Outstanding) \in Nat
    BY <1>1, FS_CardinalityType DEF Backlog, BacklogBounded
  <2> QED BY <2>1, FS_EmptySet DEF Backlog
<1>3. \A l, n, q : Positions(l, n, q) = {} => Names(q) = {}
  BY DEF Positions, Names
<1> QED BY <1>2, <1>3, OutstandingHas

\* A response that is none of a client's, or the client's own, leaves every
\* client with its own.
LEMMA RespondMine ==
    ASSUME TypeOK, AnswerIsMine, NEW req \in Requests, NEW a, Respond(req, a),
           a \notin Clients \/ a = req.from
    PROVE  AnswerIsMine'
<1>1. CASE UNCHANGED <<answer, client>>
  BY <1>1 DEF AnswerIsMine, Answered
<1>2. CASE /\ client[req.from] = "waiting"
           /\ answer' = [answer EXCEPT ![req.from] = <<a>>]
           /\ client' = [client EXCEPT ![req.from] = "answered"]
  <2>1. \A d \in Clients : d # req.from =>
           /\ client'[d] = client[d] /\ answer'[d] = answer[d]
    BY <1>2 DEF TypeOK
  <2>2. req.from \in Clients => Head(answer'[req.from]) = a
    BY <1>2 DEF TypeOK
  <2> QED BY <2>1, <2>2 DEF AnswerIsMine, Answered
<1> QED BY <1>1, <1>2 DEF Respond

\* As long as no command has run out of polls, every client gets the response
\* to its own command (fwd_cmd_on_commline, monitor_thread).
LEMMA MineKept ==
    ASSUME TypeOK, MonHolds, Backlog, OnlyMine, AnswerIsMineUnlessTimeout,
           [Next]_vars
    PROVE  OnlyMine' /\ AnswerIsMineUnlessTimeout'
<1> USE DEF targetVars
<1> SUFFICES ASSUME timeouts' = {}
             PROVE  AnswerIsMine' /\ OnlyMine'
  BY DEF OnlyMine, AnswerIsMineUnlessTimeout
<1>0. timeouts = {}
  BY DEF Next, vars, ClientSend, ClientTimeout, Monitor, MonitorRecv, MonitorSend,
         MonitorPollHit, MonitorPollMiss, Airline, AirlineCmd,
         AirlineReplyUnblock, Stack, StackCmd, StackReplyUnblock, StackStart,
         StackExit
<1>a. AnswerIsMine
  BY <1>0 DEF AnswerIsMineUnlessTimeout
<1>b. UNCHANGED <<client, answer>> => AnswerIsMine'
  BY <1>a DEF AnswerIsMine, Answered
<1>c. mon'.pc # "poll" => OnlyMine'
  BY DEF OnlyMine
<1>d. mon.pc # "recv" => Req \in Requests
  BY SeqTyped DEF TypeOK, MonHolds, Req
<1>e. \A q : Names(q) = {q[i].from : i \in DOMAIN q}
  BY DEF Names
<1>1. ASSUME NEW c \in Clients, ClientSend(c) PROVE AnswerIsMine' /\ OnlyMine'
  <2>1. /\ answer' = answer /\ UNCHANGED <<mon, targetVars>>
        /\ \A d \in Clients : client'[d] = client[d] \/ client'[d] = "waiting"
    BY <1>1 DEF ClientSend, TypeOK
  <2> QED BY <1>0, <1>a, <2>1 DEF AnswerIsMine, Answered, OnlyMine, Req
<1>2. ASSUME NEW c \in Clients, ClientTimeout(c) PROVE AnswerIsMine' /\ OnlyMine'
  <2>1. /\ answer' = answer /\ UNCHANGED <<mon, targetVars>>
        /\ \A d \in Clients : client'[d] = client[d] \/ client'[d] = "gone"
    BY <1>2 DEF ClientTimeout, TypeOK
  <2> QED BY <1>0, <1>a, <2>1 DEF AnswerIsMine, Answered, OnlyMine, Req
<1>3. CASE MonitorRecv
  <2>1. Head(udpq) \in Requests
    BY <1>3, SeqTyped DEF MonitorRecv, TypeOK
  <2>2. ASSUME NEW a \in {"INVALID_LINE", "INVALID_CMD"}, Respond(Head(udpq), a)
        PROVE  AnswerIsMine'
    <3>1. a \notin Clients
      BY OamAssumption
    <3> QED BY <1>a, <2>1, <2>2, <3>1, RespondMine
  <2>3. AnswerIsMine'
    BY <1>3, <1>b, <2>2 DEF MonitorRecv
  <2>4. mon'.pc # "poll"
    BY <1>3 DEF MonitorRecv
  <2> QED BY <1>c, <2>3, <2>4
<1>4. CASE MonitorSend
  <2>1. /\ mon.pc = "send" /\ Req' = Req /\ UNCHANGED <<client, answer>>
        /\ moq' = moq /\ alOut' = alOut /\ slOut' = slOut
    BY <1>4 DEF MonitorSend, TypeOK, Req
  <2>2. /\ Names(alq) = {} /\ Names(moq) = {} /\ Names(alOut) = {}
        /\ \A n \in Nodes : Names(slq[n]) = {} /\ Names(slOut[n]) = {}
    BY <1>0, <2>1, NothingLeft
  <2>3. CASE alq' = Append(alq, Req) /\ UNCHANGED slq
    <3>1. Names(alq') = Names(alq) \cup {Req.from}
      BY <1>d, <2>1, <2>3, NamesOf DEF TypeOK
    <3> QED BY <1>b, <2>1, <2>2, <2>3, <3>1 DEF OnlyMine
  <2>4. CASE /\ Bound(SrcId(Cmd))
             /\ slq' = [slq EXCEPT ![SrcId(Cmd)] = Append(@, Req)]
             /\ UNCHANGED alq
    <3> DEFINE n == SrcId(Cmd)
    <3>1. n \in Nodes
      BY <2>4 DEF Bound
    <3> HIDE DEF n
    <3>2. slq'[n] = Append(slq[n], Req) /\ \A k \in Nodes : k # n => slq'[k] = slq[k]
      BY <2>4, <3>1 DEF TypeOK, n
    <3>3. Names(slq'[n]) = Names(slq[n]) \cup {Req.from}
      BY <1>d, <2>1, <3>1, <3>2, NamesOf DEF TypeOK
    <3>4. \A k \in Nodes : Names(slq'[k]) \subseteq {Req.from}
      BY <2>2, <3>2, <3>3
    <3> QED BY <1>b, <2>1, <2>2, <2>4, <3>4 DEF OnlyMine
  <2>5. CASE UNCHANGED <<alq, slq>>
    BY <1>b, <2>1, <2>2, <2>5 DEF OnlyMine
  <2> QED BY <1>4, <2>3, <2>4, <2>5 DEF MonitorSend
<1>5. CASE MonitorPollHit
  <2>1. Head(moq).from \in Names(moq)
    BY <1>5, NamesOf DEF MonitorPollHit, TypeOK
  <2>2. Head(moq).from = Req.from
    BY <1>0, <1>5, <2>1 DEF OnlyMine, MonitorPollHit
  <2>3. AnswerIsMine'
    BY <1>5, <1>a, <1>d, <2>2, RespondMine DEF MonitorPollHit
  <2>4. mon'.pc # "poll"
    BY <1>5 DEF MonitorPollHit, MonIdle
  <2> QED BY <1>c, <2>3, <2>4
<1>6. CASE MonitorPollMiss
  <2>1. /\ mon' = [mon EXCEPT !.c = @ + 1] /\ UNCHANGED <<client, answer>>
        /\ mon.pc = "poll"
    BY <1>6 DEF MonitorPollMiss
  <2>2. mon'.pc = mon.pc /\ Req' = Req
    BY <2>1 DEF TypeOK, Req
  <2>3. Names(moq') \subseteq Names(moq)
    <3>1. CASE UNCHANGED moq
      BY <3>1
    <3>2. CASE moq # <<>> /\ moq' = Tail(moq)
      BY <3>2, NamesOf DEF TypeOK
    <3> QED BY <1>6, <3>1, <3>2 DEF MonitorPollMiss
  <2>4. alq' = alq /\ slq' = slq /\ alOut' = alOut /\ slOut' = slOut
    BY <1>6 DEF MonitorPollMiss
  <2> QED BY <1>0, <1>b, <2>1, <2>2, <2>3, <2>4 DEF OnlyMine
<1>7. CASE AirlineCmd
  <2> DEFINE req   == Head(alq)
             reply == [from |-> req.from, empty |-> Outcome(req.cmd) = "empty"]
  <2>1. /\ UNCHANGED <<client, answer, mon>> /\ Req' = Req
        /\ slq' = slq /\ slOut' = slOut
    BY <1>7 DEF AirlineCmd, Req
  <2>2. req.from \in Names(alq) /\ Names(alq') \subseteq Names(alq) /\ req \in Requests
    BY <1>7, NamesOf, SeqTyped DEF AirlineCmd, TypeOK
  <2>3. reply \in Replies /\ reply.from \in Names(alq)
    BY <2>2, ReplyTyped
  <2> HIDE DEF reply
  <2>4. \/ UNCHANGED <<moq, alOut>>
        \/ moq' = Append(moq, reply) /\ UNCHANGED alOut
        \/ alOut' = <<reply>> /\ UNCHANGED moq
    BY <1>7 DEF AirlineCmd, reply
  <2>5. /\ Names(moq') \subseteq Names(moq) \cup Names(alq)
        /\ Names(alOut') \subseteq Names(alOut) \cup Names(alq)
    <3>1. CASE moq' = Append(moq, reply) /\ UNCHANGED alOut
      BY <2>3, <3>1, NamesOf DEF TypeOK
    <3>2. CASE alOut' = <<reply>> /\ UNCHANGED moq
      BY <2>3, <3>2 DEF Names
    <3> QED BY <2>4, <3>1, <3>2
  <2> QED BY <1>0, <1>b, <2>1, <2>2, <2>5 DEF OnlyMine
<1>8. CASE AirlineReplyUnblock
  <2>1. /\ UNCHANGED <<client, answer, mon>> /\ Req' = Req
        /\ alq' = alq /\ slq' = slq /\ slOut' = slOut
    BY <1>8 DEF AirlineReplyUnblock, Req
  <2>2. /\ Head(alOut).from \in Names(alOut) /\ Head(alOut) \in Replies
        /\ Names(alOut') = {}
    BY <1>8, NamesOf, SeqTyped DEF AirlineReplyUnblock, TypeOK
  <2>3. Names(moq') = Names(moq) \cup {Head(alOut).from}
    BY <1>8, <2>2, NamesOf DEF AirlineReplyUnblock, TypeOK
  <2> QED BY <1>0, <1>b, <2>1, <2>2, <2>3 DEF OnlyMine
<1>9. ASSUME NEW n \in Nodes, StackCmd(n) PROVE AnswerIsMine' /\ OnlyMine'
  <2> DEFINE c     == Head(slq[n]).from
             reply == [from |-> c, empty |-> FALSE]
  <2>1. /\ UNCHANGED <<client, answer, mon>> /\ Req' = Req
        /\ alq' = alq /\ alOut' = alOut
    BY <1>9 DEF StackCmd, Req
  <2>2. /\ slq'[n] = Tail(slq[n]) /\ slq[n] # <<>> /\ slq[n] \in Seq(Requests)
        /\ \A k \in Nodes : k # n => slq'[k] = slq[k]
    BY <1>9 DEF StackCmd, TypeOK
  <2>3. /\ Head(slq[n]) \in Requests /\ c \in Names(slq[n])
        /\ Names(slq'[n]) \subseteq Names(slq[n])
    BY <2>2, NamesOf, SeqTyped
  <2>4. reply \in Replies /\ reply.from = c
    BY <2>3, ReplyTyped
  <2> HIDE DEF c, reply
  <2>5. \A k \in Nodes : Names(slq'[k]) \subseteq Names(slq[k])
    BY <2>2, <2>3
  <2>6. CASE moq' = Append(moq, reply) /\ UNCHANGED slOut
    <3>1. Names(moq') = Names(moq) \cup {c}
      BY <2>4, <2>6, NamesOf DEF TypeOK
    <3> QED BY <1>0, <1>b, <2>1, <2>3, <2>5, <2>6, <3>1 DEF OnlyMine
  <2>7. CASE slOut' = [slOut EXCEPT ![n] = <<reply>>] /\ UNCHANGED moq
    <3>1. /\ slOut'[n] = <<reply>>
          /\ \A k \in Nodes : k # n => slOut'[k] = slOut[k]
      BY <2>7 DEF TypeOK
    <3>2. Names(slOut'[n]) = {c}
      BY <2>4, <3>1 DEF Names
    <3>3. \A k \in Nodes : Names(slOut'[k]) \subseteq Names(slOut[k]) \cup {c}
      BY <3>1, <3>2
    <3> QED BY <1>0, <1>b, <2>1, <2>3, <2>5, <2>7, <3>3 DEF OnlyMine
  <2> QED BY <1>9, <2>6, <2>7 DEF StackCmd, reply, c
<1>10. ASSUME NEW n \in Nodes, StackReplyUnblock(n) PROVE AnswerIsMine' /\ OnlyMine'
  <2> DEFINE r == Head(slOut[n])
  <2>1. /\ UNCHANGED <<client, answer, mon>> /\ Req' = Req
        /\ alq' = alq /\ slq' = slq /\ alOut' = alOut
    BY <1>10 DEF StackReplyUnblock, Req
  <2>2. /\ slOut'[n] = <<>> /\ slOut[n] # <<>> /\ slOut[n] \in Seq(Replies)
        /\ \A k \in Nodes : k # n => slOut'[k] = slOut[k]
        /\ moq' = Append(moq, r)
    BY <1>10 DEF StackReplyUnblock, TypeOK
  <2>3. r \in Replies /\ r.from \in Names(slOut[n]) /\ Names(slOut'[n]) = {}
    BY <2>2, NamesOf, SeqTyped
  <2> HIDE DEF r
  <2>4. Names(moq') = Names(moq) \cup {r.from}
    BY <2>2, <2>3, NamesOf DEF TypeOK
  <2>5. \A k \in Nodes : Names(slOut'[k]) \subseteq Names(slOut[k])
    BY <2>2, <2>3
  <2> QED BY <1>0, <1>b, <2>1, <2>3, <2>4, <2>5 DEF OnlyMine
<1>11. ASSUME NEW n \in Nodes, StackStart(n) \/ StackExit(n)
       PROVE  AnswerIsMine' /\ OnlyMine'
  <2>1. /\ UNCHANGED <<client, answer, mon>> /\ Req' = Req
        /\ alq' = alq /\ alOut' = alOut /\ moq' = moq
        /\ \A k \in Nodes : /\ slq'[k] = slq[k] \/ slq'[k] = <<>>
                            /\ slOut'[k] = slOut[k] \/ slOut'[k] = <<>>
    BY <1>11 DEF StackStart, StackExit, TypeOK, Req
  <2>2. Names(<<>>) = {}
    BY DEF Names
  <2> QED BY <1>0, <1>b, <2>1, <2>2 DEF OnlyMine
<1>12. CASE UNCHANGED vars
  <2>1. UNCHANGED <<client, answer, mon, alq, slq, moq, alOut, slOut>> /\ Req' = Req
    BY <1>12 DEF vars, Req
  <2> QED BY <1>0, <1>b, <2>1 DEF OnlyMine
<1> QED
  BY <1>1, <1>2, <1>3, <1>4, <1>5, <1>6, <1>7, <1>8, <1>9, <1>10, <1>11, <1>12
  DEF Next, Monitor, Airline, Stack

\* "wfshell sends the command to Airline or Stackline and prints the response":
\* it does, until the first command runs out of polls.
THEOREM OamAnswerIsMine == Spec => []AnswerIsMineUnlessTimeout
<1>1. Init => Tokens /\ Backlog /\ OnlyMine /\ AnswerIsMineUnlessTimeout
  <2>1. Init => OnlyMine /\ AnswerIsMineUnlessTimeout
    BY DEF Init, MonIdle, OnlyMine, AnswerIsMineUnlessTimeout, AnswerIsMine, Answered
  <2> QED BY <2>1, InitTokens, InitBacklog
<1>2. TypeOK /\ MonHolds /\ Tokens /\ Backlog /\ OnlyMine
        /\ AnswerIsMineUnlessTimeout /\ [Next]_vars
      => Tokens' /\ Backlog' /\ OnlyMine' /\ AnswerIsMineUnlessTimeout'
  BY TokensKept, BacklogKept, MineKept
<1> QED BY <1>1, <1>2, OamTypeCorrect, PTL DEF Spec

=============================================================================
