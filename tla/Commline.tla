------------------------------ MODULE Commline ------------------------------
(***************************************************************************)
(* The addressing of Commline, the datagram lines that join Whitefield's   *)
(* processes (src/commline/).  Every receiving end is an abstract unix     *)
(* datagram socket whose name is derived from a message type, and a        *)
(* message type packs a line number and a 16-bit node id.                  *)
(***************************************************************************)
EXTENDS Integers

\* Lines are numbered from 1; MAX_CL_LINE itself is not a line.
STACKLINE   == 1
AIRLINE     == 2
FORKER      == 3
MONITOR     == 4
MAX_CL_LINE == 5

CL_DSTID_MACHDR_PRESENT == 65534   \* 0xfffe: the frame brings its own MAC header
CL_MGR_ID               == 65535   \* 0xffff: a line's managing end
BCAST                   == 65535   \* 0xffff as a destination: all nodes

Ids   == {i \in Nat : i <= 65535}   \* uint16_t
Lines == STACKLINE..MONITOR

\* The upper bound is exclusive.
IN_RANGE(val, min, max) == val >= min /\ val < max

\* (LINE << 16) | ID on ids that fit 16 bits.
MTYPE(line, id) == line * 65536 + id

\* MT >> 16
GET_LINE(mtype) == mtype \div 65536

\* usock_setabsaddr prints the whole message type into the socket's name, so
\* the name of an end is its message type.
usock_setabsaddr(mtype) == mtype

=============================================================================
