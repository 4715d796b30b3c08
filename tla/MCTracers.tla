----------------------------- MODULE MCTracers -----------------------------
(***************************************************************************)
(* `entry` (0..5) calls `check` (9..13) and may skip an instruction;       *)
(* `check` loops and calls `leaf` (17..18).  pc 3 and pc 10 are glue       *)
(* without a location, and util.rs has no table.                           *)
(***************************************************************************)
EXTENDS Tracers, TLC

Instruction(op, to) == [op |-> op, to |-> to]

MCText ==
  [pc \in (0 .. 5) \cup (9 .. 13) \cup {17, 18} |->
     CASE pc = 0 -> Instruction("call_imm", {9})
       [] pc = 1 -> Instruction("call_imm", {})
       [] pc = 2 -> Instruction("other", {3, 4})
       [] pc = 4 -> Instruction("call_reg", {9, 17})
       [] pc = 11 -> Instruction("other", {9, 12})
       [] pc = 12 -> Instruction("call_imm", {17})
       [] pc \in {5, 13, 18} -> Instruction("exit", {})
       [] OTHER -> Instruction("other", {pc + 1})]

Loc(source, line, column) == [file |-> source, line |-> line, column |-> column]

\* pcs 1 and 2 are two statements of a line; `leaf` is on one position.
MCLocation ==
  [pc \in DOMAIN MCText |->
     CASE pc \in {3, 10} -> Nil
       [] pc \in {1, 2} -> Loc("lib.rs", 2, pc)
       [] pc < 6 -> Loc("lib.rs", pc + 1, 1)
       [] pc < 14 -> Loc("lib.rs", pc + 1, Nil)
       [] OTHER -> Loc("util.rs", 20, pc)]

MCFnAtPc == [pc \in DOMAIN MCText |-> "fn_at_pc_" \o ToString(pc)]

ASSUME ProgramIsFollowable == JumpsTellCalls /\ LinesTellFiles
=============================================================================
