------------------------------- MODULE Address ------------------------------
(***************************************************************************)
(* How a node id becomes an address on each medium and comes back: the     *)
(* 16-bit LR-WPAN short address, the 48-bit power-line MAC address, and    *)
(* the 64-bit address stacklines derive.  Addresses are sequences of       *)
(* bytes; the host is little endian.                                       *)
(***************************************************************************)
EXTENDS Commline, Naturals, Sequences

Hi(id) == id \div 256
Lo(id) == id % 256
Word(hi, lo) == 256 * hi + lo

\* LrwpanIface.cc: the address a frame is sent to ...
id2addr(id) == <<Hi(id), Lo(id)>>

\* ... the address a node is given ...
setShortAddress(id) == <<Hi(id), Lo(id)>>

\* ... and the id a received or confirmed address stands for.
addr2id(addr) == Word(addr[1], addr[2])

\* cl_stackline_helpers.c: g_serial_id with the last two bytes replaced; the
\* broadcast id has the zero address.
cl_get_id2longaddr(id) ==
    IF id = 65535 THEN <<0, 0, 0, 0, 0, 0, 0, 0>>
                  ELSE <<1, 2, 3, 4, 5, 6, Hi(id), Lo(id)>>

cl_get_longaddr2id(addr) ==
    IF \A i \in 1..8 : addr[i] = 0 THEN 65535 ELSE Word(addr[7], addr[8])

\* PowerLineCommHandler.cc: 00:00:00:00 and the id plus one in 16 bits.
getMacAddress(id) ==
    IF id = 65535 THEN <<255, 255, 255, 255, 255, 255>>
    ELSE LET i == (id + 1) % 65536 IN <<0, 0, 0, 0, Hi(i), Lo(i)>>

\* Mutant: forget that addresses are offset by one.
getIdFromMacAddrRaw(addr) ==
    IF addr = <<255, 255, 255, 255, 255, 255>> THEN 65535
    ELSE Word(addr[5], addr[6])

\* Minus one in 16 bits; ids from 0xff00 up are taken for node 0.
getIdFromMacAddr(addr) ==
    IF addr = <<255, 255, 255, 255, 255, 255>> THEN 65535
    ELSE LET id == (Word(addr[5], addr[6]) + 65535) % 65536
         IN  IF id >= 65280 THEN 0 ELSE id

-----------------------------------------------------------------------------
\* A frame addressed to a node's id carries the address that node was given,
\* and the address comes back as the same id, broadcast included (id2addr,
\* setShortAddress, addr2id).
LrwpanAgree(id) ==
    /\ id2addr(id) = setShortAddress(id)
    /\ addr2id(id2addr(id)) = id

\* A stackline's long address comes back as the id it was made from
\* (cl_get_id2longaddr, cl_get_longaddr2id).
LongAgree(id) == cl_get_longaddr2id(cl_get_id2longaddr(id)) = id

\* A power-line address comes back as the id it was made from, except that the
\* 255 ids 0xff00..0xfffe come back as node 0 (getMacAddress,
\* getIdFromMacAddr).
PlcAgree(id) ==
    getIdFromMacAddr(getMacAddress(id)) =
        IF id >= 65280 /\ id # 65535 THEN 0 ELSE id

=============================================================================
