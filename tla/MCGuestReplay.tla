--------------------------- MODULE MCGuestReplay ---------------------------
(***************************************************************************)
(* Three bytes of read-only data, eleven of stack and a heap of 32, apart. *)
(***************************************************************************)
EXTENDS GuestReplay

MCRegions ==
  << [start |-> 16, len |-> 3, writable |-> FALSE],
     [start |-> 32, len |-> 11, writable |-> TRUE],
     [start |-> 64, len |-> 32, writable |-> TRUE] >>

MCRodata == [a \in 16 .. 18 |-> a - 15]

\* Read-only data, the stack at its start and a byte on, and past its end.
MCAddrs == {16, 32, 33, 42}

MCSizes == {0, 2, 3}

MCStoreAddrs == {32, 34, 39}

MCRegisters == {<< 7, 8, 9, 0, 0, 0, 0, 0 >>, << 2, 255, 255, 255, 255, 255, 255, 255 >>}

MCAllocSizes == {0, 3, 8, 17, 120}
=============================================================================
