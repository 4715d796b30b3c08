-------------------------- MODULE MCSnapshotCalls --------------------------
(***************************************************************************)
(* `entry` (pcs 0..4) calls `check` (7..10); both call third-party code    *)
(* (21..22), and `check` calls `fail` (13..15), whose return it may pass   *)
(* on without a snapshot that has a location.  pc 18 is of the user's code *)
(* in no function, pc 19 has no location, and the code at pc 14 of `fail`  *)
(* is third-party code inlined there.                                      *)
(***************************************************************************)
EXTENDS SnapshotCalls

MCBody ==
  [entry |-> 0 .. 4, check |-> 7 .. 10, fail |-> 13 .. 15, third |-> 21 .. 22]

MCPC == UNION {MCBody[f] : f \in DOMAIN MCBody} \cup {18, 19}

At(file, line, column) == [file |-> file, line |-> line, column |-> column]

\* pcs 3 and 4 are on one line of `entry`; pc 9 has no location.
MCLocation ==
  [pc \in MCPC |->
     CASE pc \in 0 .. 2 -> At("lib.rs", pc + 1, 1)
       [] pc \in 3 .. 4 -> At("lib.rs", 4, pc)
       [] pc \in {7, 8, 10} -> At("lib.rs", 3 + pc, Nil)
       [] pc \in {13, 15} -> At("lib.rs", 7 + pc, 5)
       [] pc = 18 -> At("util.rs", 30, 1)
       [] pc \in {14, 21} -> At("alloc.rs", 1, 1)
       [] OTHER -> Nil]

MCFnAt ==
  [l \in (1 .. 4) \cup (10 .. 13) \cup (20 .. 22) |->
     IF l < 10 THEN "entry" ELSE IF l < 20 THEN "check" ELSE "fail"]

MCFnAtPc == [pc \in MCPC |-> "fn_at_pc"]

MCCallsTo ==
  [pc \in MCPC |-> CASE pc = 0 -> {7, 21} [] pc = 2 -> {21} [] pc = 8 -> {13, 21}
                     [] OTHER -> {}]

\* `fail` ends in an `Err`, `check` in an `Ok` or in a `?`; `entry` says
\* nothing of what it returns.
MCReturnAt ==
  [l \in {11, 13, 20, 22} |->
     CASE l = 11 -> "?" [] l = 13 -> "Ok" [] l = 20 -> "Err(1)" [] OTHER -> "Err(2)"]

ASSUME OneFilePerLine == UserLinesTellFiles
=============================================================================
