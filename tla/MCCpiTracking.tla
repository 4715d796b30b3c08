--------------------------- MODULE MCCpiTracking ---------------------------
(***************************************************************************)
(* Three registered programs of two pcs each, and one of three pcs the     *)
(* detector has no range for.                                              *)
(***************************************************************************)
EXTENDS CpiTracking

MCPC == 0 .. 8

MCCode ==
  [primary |-> 0 .. 1, token |-> 2 .. 3, vault |-> 4 .. 5, stranger |-> 6 .. 8]

MCPrograms == DOMAIN MCCode

MCKnownRanges ==
  << [name |-> "primary", range |-> 0 .. 1],
     [name |-> "token", range |-> 2 .. 3],
     [name |-> "vault", range |-> 4 .. 5] >>
=============================================================================
