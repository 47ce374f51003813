--------------------------------- MODULE Oam --------------------------------
(***************************************************************************)
(* The OAM path: clients (wfshell's udp_cmd, canvas) send a command in one *)
(* UDP datagram to the monitor thread of the forker process, which puts it *)
(* on the AIRLINE or STACKLINE line, polls the MONITOR line for a reply,   *)
(* and sends what it finds, or NO_RSP_FROM_LINE, back to the client.       *)
(* Airline and the stacklines answer when they get to it; an answer that   *)
(* comes after the last poll stays in the MONITOR socket.                  *)
(***************************************************************************)
EXTENDS Commline, Naturals, Sequences, FiniteSets, SequencesExt

CONSTANTS
    Clients,         \* client processes
    Cmds,            \* commands they may send
    Nodes,           \* node ids: configured nodes, each with its stackline
    MacMaxRetrySet,  \* the configuration has a macMaxRetry
    PollMax,         \* polls of the MONITOR line per command (100)
    QLen             \* datagrams a socket holds before a sender waits

ASSUME OamAssumption ==
    /\ Nodes \subseteq Ids
    /\ MacMaxRetrySet \in BOOLEAN
    /\ PollMax \in Nat \ {0}
    /\ QLen \in Nat \ {0}
    /\ Clients \cap {"INVALID_LINE", "INVALID_CMD", "NO_RSP_FROM_LINE"} = {}

\* A command as the client wrote it: the line prefix, the node id (CL_MGR_ID
\* when it has none), whether a colon follows the id, the name, and what the
\* argument is: absent, usable or not a number.
CmdLines == {"AL", "SL", "other"}
CmdArgs  == {"none", "good", "junk"}
CmdType  == [line : CmdLines, id : Nat, colon : BOOLEAN, name : STRING,
             arg : CmdArgs]

ASSUME CmdsAssumption == Cmds \subseteq CmdType

VARIABLES
    client,    \* per client, "new", "waiting", "gone" (timed out) or "answered"
    answer,    \* per client, the answer it got
    udpq,      \* the monitor's UDP socket
    mon,       \* the monitor thread: pc, the request it serves, polls done
    alq,       \* commands in the AIRLINE socket
    slq,       \* per node, commands in the STACKLINE socket
    moq,       \* replies in the MONITOR socket
    alOut,     \* reply Airline's blocked sendto holds (at most one)
    slOut,     \* per node, reply the stackline's blocked sendto holds
    running,   \* Airline, forker and stacklines run
    stack,     \* "new" (not bound yet), "up" or "dead", per stackline
    timeouts   \* history: clients whose command ended in NO_RSP_FROM_LINE

vars == <<client, answer, udpq, mon, alq, slq, moq, alOut, slOut, running,
          stack, timeouts>>

targetVars == <<alq, slq, moq, alOut, slOut, running, stack>>

\* A request is named by the client it came from: each sends one.  Requests
\* and the replies to them carry that name as history; the code has no such
\* identity.
Requests == [from : Clients, cmd : Cmds]
Replies  == [from : Clients, empty : BOOLEAN]
Answers  == {"INVALID_LINE", "INVALID_CMD", "NO_RSP_FROM_LINE"} \cup Clients

MonIdle == [pc |-> "recv", req |-> <<>>, c |-> 0]

TypeOK ==
    /\ client \in [Clients -> {"new", "waiting", "gone", "answered"}]
    /\ answer \in [Clients -> Seq(Answers)]
    /\ udpq \in Seq(Requests)
    /\ mon \in [pc : {"recv", "send", "poll"}, req : Seq(Requests),
               c : 0..(PollMax - 1)]
    /\ alq \in Seq(Requests)
    /\ slq \in [Nodes -> Seq(Requests)]
    /\ moq \in Seq(Replies)
    /\ alOut \in Seq(Replies)
    /\ slOut \in [Nodes -> Seq(Replies)]
    /\ running \in BOOLEAN
    /\ stack \in [Nodes -> {"new", "up", "dead"}]
    /\ timeouts \subseteq Clients

Init ==
    /\ client = [c \in Clients |-> "new"]
    /\ answer = [c \in Clients |-> <<>>]
    /\ udpq = <<>>
    /\ mon = MonIdle
    /\ alq = <<>>
    /\ slq = [n \in Nodes |-> <<>>]
    /\ moq = <<>>
    /\ alOut = <<>>
    /\ slOut = [n \in Nodes |-> <<>>]
    /\ running = TRUE
    /\ stack = [n \in Nodes |-> "new"]
    /\ timeouts = {}

-----------------------------------------------------------------------------
(* Clients.                                                                 *)

ClientSend(c) ==
    /\ client[c] = "new"
    /\ \E cmd \in Cmds : udpq' = Append(udpq, [from |-> c, cmd |-> cmd])
    /\ client' = [client EXCEPT ![c] = "waiting"]
    /\ UNCHANGED <<answer, mon, targetVars, timeouts>>

\* Half a second (udp_cmd) or a second (canvas) without a datagram.
ClientTimeout(c) ==
    /\ client[c] = "waiting"
    /\ client' = [client EXCEPT ![c] = "gone"]
    /\ UNCHANGED <<answer, udpq, mon, targetVars, timeouts>>

-----------------------------------------------------------------------------
(* The monitor thread.                                                      *)

Req == Head(mon.req)
Cmd == Req.cmd

\* The response and the END datagram go to the address the command came from;
\* a client that has given up gets nothing.
Respond(req, a) ==
    IF client[req.from] = "waiting"
    THEN /\ answer' = [answer EXCEPT ![req.from] = <<a>>]
         /\ client' = [client EXCEPT ![req.from] = "answered"]
    ELSE UNCHANGED <<answer, client>>

\* recvfrom and the parsing of the command.
MonitorRecv ==
    /\ running
    /\ mon.pc = "recv"
    /\ udpq # <<>>
    /\ LET req == Head(udpq)
       IN  \/ /\ req.cmd.line = "other"
              /\ Respond(req, "INVALID_LINE")
              /\ UNCHANGED mon
           \/ /\ req.cmd.line # "other"
              /\ ~req.cmd.colon
              /\ Respond(req, "INVALID_CMD")
              /\ UNCHANGED mon
           \/ /\ req.cmd.line # "other"
              /\ req.cmd.colon
              /\ mon' = [pc |-> "send", req |-> <<req>>, c |-> 0]
              /\ UNCHANGED <<answer, client>>
    /\ udpq' = Tail(udpq)
    /\ UNCHANGED <<targetVars, timeouts>>

\* src_id is a uint16_t.
SrcId(cmd) == cmd.id % 65536

\* A stackline listens for the id.
Bound(n) == n \in Nodes /\ stack[n] = "up"

\* cl_sendto_q, whose result is ignored: nobody listens for the id, or the
\* message is queued; while the socket is full the thread waits.
MonitorSend ==
    /\ running
    /\ mon.pc = "send"
    /\ \/ /\ Cmd.line = "AL"
          /\ Len(alq) < QLen
          /\ alq' = Append(alq, Req)
          /\ UNCHANGED slq
       \/ /\ Cmd.line = "SL"
          /\ Bound(SrcId(Cmd))
          /\ Len(slq[SrcId(Cmd)]) < QLen
          /\ slq' = [slq EXCEPT ![SrcId(Cmd)] = Append(@, Req)]
          /\ UNCHANGED alq
       \/ /\ Cmd.line = "SL"
          /\ ~Bound(SrcId(Cmd))
          /\ UNCHANGED <<alq, slq>>
    /\ mon' = [mon EXCEPT !.pc = "poll"]
    /\ UNCHANGED <<client, answer, udpq, moq, alOut, slOut, running, stack,
                   timeouts>>

\* Mutant: serve the poll with whatever the socket holds and leave it there.
MonitorPollHitPeek ==
    /\ running
    /\ mon.pc = "poll"
    /\ moq # <<>>
    /\ ~Head(moq).empty
    /\ Respond(Req, Head(moq).from)
    /\ mon' = MonIdle
    /\ UNCHANGED <<udpq, targetVars, timeouts>>

\* A poll that finds a reply answers the request being served with it.
MonitorPollHit ==
    /\ running
    /\ mon.pc = "poll"
    /\ moq # <<>>
    /\ ~Head(moq).empty
    /\ Respond(Req, Head(moq).from)
    /\ moq' = Tail(moq)
    /\ mon' = MonIdle
    /\ UNCHANGED <<udpq, alq, slq, alOut, slOut, running, stack, timeouts>>

\* Mutant: the poll count is never reached.
MonitorPollMissForever ==
    /\ running
    /\ mon.pc = "poll"
    /\ \/ moq = <<>> /\ UNCHANGED moq
       \/ moq # <<>> /\ Head(moq).empty /\ moq' = Tail(moq)
    /\ UNCHANGED <<mon, client, answer, udpq, alq, slq, alOut, slOut, running,
                   stack, timeouts>>

\* Mutant: one poll too many.
MonitorPollMissLate ==
    /\ running
    /\ mon.pc = "poll"
    /\ \/ moq = <<>> /\ UNCHANGED moq
       \/ moq # <<>> /\ Head(moq).empty /\ moq' = Tail(moq)
    /\ \/ /\ mon.c < PollMax
          /\ mon' = [mon EXCEPT !.c = @ + 1]
          /\ UNCHANGED <<client, answer, timeouts>>
       \/ /\ mon.c >= PollMax
          /\ Respond(Req, "NO_RSP_FROM_LINE")
          /\ mon' = MonIdle
          /\ timeouts' = timeouts \cup {Req.from}
    /\ UNCHANGED <<udpq, alq, slq, alOut, slOut, running, stack>>

\* A poll that finds nothing, or a reply of length 0, which it drops; the last
\* one gives up on the command, not on its reply.
MonitorPollMiss ==
    /\ running
    /\ mon.pc = "poll"
    /\ \/ moq = <<>> /\ UNCHANGED moq
       \/ moq # <<>> /\ Head(moq).empty /\ moq' = Tail(moq)
    /\ \/ /\ mon.c + 1 < PollMax
          /\ mon' = [mon EXCEPT !.c = @ + 1]
          /\ UNCHANGED <<client, answer, timeouts>>
       \/ /\ mon.c + 1 >= PollMax
          /\ Respond(Req, "NO_RSP_FROM_LINE")
          /\ mon' = MonIdle
          /\ timeouts' = timeouts \cup {Req.from}
    /\ UNCHANGED <<udpq, alq, slq, alOut, slOut, running, stack>>

-----------------------------------------------------------------------------
(* Airline's command handlers (msgrecvCallback, al_handle_cmd).             *)

\* What handling a command yields: a reply with text, a reply of length 0, or
\* a C++ exception, which leaves the simulator and ends the program.
Outcome(cmd) ==
    LET id == SrcId(cmd)
    IN  CASE cmd.name = "cmd_node_exec" ->
               IF id \in Nodes THEN "text" ELSE "empty"
          [] cmd.name = "cmd_node_position" ->
               IF cmd.arg # "none" \/ id \in Nodes \cup {CL_MGR_ID}
               THEN "text" ELSE "empty"
          [] cmd.name = "cmd_set_node_position" ->
               IF id \in Nodes /\ cmd.arg = "junk" THEN "throw" ELSE "text"
          [] cmd.name = "cmd_mac_stats" ->
               IF MacMaxRetrySet THEN "text" ELSE "throw"
          [] OTHER -> "text"

\* The blocking send of a reply to the MONITOR line, by Airline or a stackline.
CanReply == Len(moq) < QLen

\* msgReader takes a command: an empty one ends its loop unhandled; a handled
\* one is answered on the MONITOR line.  An exception leaves the simulator's run;
\* startManager catches it, main ignores that it failed, and Airline exits,
\* taking the forker and the stacklines with it.
AirlineCmd ==
    /\ running
    /\ alOut = <<>>
    /\ alq # <<>>
    /\ LET req   == Head(alq)
           reply == [from |-> req.from, empty |-> Outcome(req.cmd) = "empty"]
       IN  \/ /\ req.cmd.name = ""
              /\ UNCHANGED <<moq, alOut, running>>
           \/ /\ req.cmd.name # ""
              /\ Outcome(req.cmd) = "throw"
              /\ running' = FALSE
              /\ UNCHANGED <<moq, alOut>>
           \/ /\ req.cmd.name # ""
              /\ Outcome(req.cmd) # "throw"
              /\ IF CanReply THEN moq' = Append(moq, reply) /\ UNCHANGED alOut
                             ELSE alOut' = <<reply>> /\ UNCHANGED moq
              /\ UNCHANGED running
    /\ alq' = Tail(alq)
    /\ UNCHANGED <<client, answer, udpq, mon, slq, slOut, stack, timeouts>>

AirlineReplyUnblock ==
    /\ running
    /\ alOut # <<>>
    /\ CanReply
    /\ moq' = Append(moq, Head(alOut))
    /\ alOut' = <<>>
    /\ UNCHANGED <<client, answer, udpq, mon, alq, slq, slOut, running, stack,
                   timeouts>>

-----------------------------------------------------------------------------
(* Stacklines (sl_handle_cmd): every command, known or not, is answered.    *)

\* Mutant: a command is answered twice.
StackCmdTwice(n) ==
    /\ running
    /\ stack[n] = "up"
    /\ slOut[n] = <<>>
    /\ slq[n] # <<>>
    /\ LET reply == [from |-> Head(slq[n]).from, empty |-> FALSE]
       IN  IF CanReply THEN moq' = moq \o <<reply, reply>> /\ UNCHANGED slOut
                       ELSE slOut' = [slOut EXCEPT ![n] = <<reply>>] /\ UNCHANGED moq
    /\ slq' = [slq EXCEPT ![n] = Tail(@)]
    /\ UNCHANGED <<client, answer, udpq, mon, alq, alOut, running, stack, timeouts>>

StackCmd(n) ==
    /\ running
    /\ stack[n] = "up"
    /\ slOut[n] = <<>>
    /\ slq[n] # <<>>
    /\ LET reply == [from |-> Head(slq[n]).from, empty |-> FALSE]
       IN  IF CanReply THEN moq' = Append(moq, reply) /\ UNCHANGED slOut
                       ELSE slOut' = [slOut EXCEPT ![n] = <<reply>>] /\ UNCHANGED moq
    /\ slq' = [slq EXCEPT ![n] = Tail(@)]
    /\ UNCHANGED <<client, answer, udpq, mon, alq, alOut, running, stack, timeouts>>

StackReplyUnblock(n) ==
    /\ running
    /\ slOut[n] # <<>>
    /\ CanReply
    /\ moq' = Append(moq, Head(slOut[n]))
    /\ slOut' = [slOut EXCEPT ![n] = <<>>]
    /\ UNCHANGED <<client, answer, udpq, mon, alq, slq, alOut, running, stack,
                   timeouts>>

\* The stackline binds its STACKLINE address.
StackStart(n) ==
    /\ running
    /\ stack[n] = "new"
    /\ stack' = [stack EXCEPT ![n] = "up"]
    /\ UNCHANGED <<client, answer, udpq, mon, alq, slq, moq, alOut, slOut,
                   running, timeouts>>

\* A stackline process exits; its socket and what it held are gone.
StackExit(n) ==
    /\ running
    /\ stack[n] = "up"
    /\ stack' = [stack EXCEPT ![n] = "dead"]
    /\ slq' = [slq EXCEPT ![n] = <<>>]
    /\ slOut' = [slOut EXCEPT ![n] = <<>>]
    /\ UNCHANGED <<client, answer, udpq, mon, alq, moq, alOut, running, timeouts>>

-----------------------------------------------------------------------------
Monitor == MonitorRecv \/ MonitorSend \/ MonitorPollHit \/ MonitorPollMiss

Airline == AirlineCmd \/ AirlineReplyUnblock

Stack(n) == StackCmd(n) \/ StackReplyUnblock(n)

Next == \/ \E c \in Clients : ClientSend(c) \/ ClientTimeout(c)
        \/ Monitor
        \/ Airline
        \/ \E n \in Nodes : Stack(n) \/ StackStart(n) \/ StackExit(n)

Spec == Init /\ [][Next]_vars

\* The monitor thread runs, and Airline and every stackline that lives get to
\* what they have received, if late.
Fairness == WF_vars(Monitor) /\ WF_vars(Airline) /\ \A n \in Nodes : WF_vars(Stack(n))

FairSpec == Spec /\ Fairness

-----------------------------------------------------------------------------
(* Properties.                                                              *)

Answered(c) == client[c] = "answered"

\* A client is answered with the response to its own command: "wfshell sends
\* the command to Airline or Stackline and prints the response".
AnswerIsMine ==
    \A c \in Clients : Answered(c) /\ Head(answer[c]) \in Clients
                          => Head(answer[c]) = c

\* As long as no command has run out of polls, every response a client gets is
\* the one to its own command, however many clients and lines there are: the
\* MONITOR line is shared, and only one command is outstanding at a time
\* (fwd_cmd_on_commline).
AnswerIsMineUnlessTimeout == timeouts = {} => AnswerIsMine

\* A response is given to at most one client, however late it comes.
NoSharedAnswer ==
    \A c, d \in Clients :
        c # d /\ Answered(c) /\ Answered(d) /\ Head(answer[c]) \in Clients
            => Head(answer[c]) # Head(answer[d])

\* Where a message can be: a position of a queue, of node n if nodes have one.
Positions(line, n, q) == {<<line, n, i>> : i \in DOMAIN q}

\* Work in progress: where commands not handled and replies not collected are.
Outstanding ==
    Positions("alq", 0, alq) \cup Positions("moq", 0, moq)
      \cup Positions("alOut", 0, alOut)
      \cup UNION {Positions("slq", n, slq[n]) \cup Positions("slOut", n, slOut[n]) :
                     n \in Nodes}

\* What is left over on the lines never exceeds the number of commands that
\* ran out of polls, plus the one being served: each command adds one message
\* and takes at most one reply away, so nothing but a timeout builds a backlog
\* (fwd_cmd_on_commline, sl_handle_cmd, msgrecvCallback).  In particular no
\* reply can hold up Airline, and with it the simulation, before as many
\* commands have run out of polls as the MONITOR socket holds replies.
BacklogBounded ==
    Cardinality(Outstanding)
        <= Cardinality(timeouts) + (IF mon.pc = "poll" THEN 1 ELSE 0)

\* The monitor waits to send to a line whose socket is full, while who listens
\* there waits to send a reply to the monitor: neither goes on, for ever.
LockedUp ==
    /\ mon.pc = "send"
    /\ ~CanReply
    /\ \/ Cmd.line = "AL" /\ Len(alq) >= QLen /\ alOut # <<>>
       \/ /\ Cmd.line = "SL"
          /\ Bound(SrcId(Cmd))
          /\ Len(slq[SrcId(Cmd)]) >= QLen
          /\ slOut[SrcId(Cmd)] # <<>>

\* The monitor locks itself up with a line only after more commands have run out
\* of polls than the two sockets between them hold messages: their late replies
\* are what fills the MONITOR socket (fwd_cmd_on_commline, msgrecvCallback,
\* sl_handle_cmd).
LockUpNeedsTimeouts == LockedUp => Cardinality(timeouts) > 2 * QLen

\* Every client is answered or gives up, whether its command is understood,
\* answered late or by nobody, and although the monitor serves one at a time
\* and waits for room in the sockets it sends to (monitor_thread,
\* fwd_cmd_on_commline); unless Airline ends, or so many commands have run out
\* of polls that the monitor may be locked up, and then clients may wait for ever.
EveryCommandAnswered ==
    \A c \in Clients :
        client[c] = "waiting" ~> \/ client[c] # "waiting"
                                 \/ ~running
                                 \/ Cardinality(timeouts) > 2 * QLen

=============================================================================
