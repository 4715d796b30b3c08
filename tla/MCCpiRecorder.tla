--------------------------- MODULE MCCpiRecorder ---------------------------
(***************************************************************************)
(* A primary program of two functions, a token program and a vault with a  *)
(* location each, a program the registry does not know, and pcs without    *)
(* a location.                                                             *)
(***************************************************************************)
EXTENDS CpiRecorder, TLC

MCPC == 0 .. 14

MCKnownRanges ==
  << [name |-> "primary", range |-> 0 .. 6],
     [name |-> "token", range |-> 7 .. 11],
     [name |-> "vault", range |-> 12 .. 13] >>

At(file, line, column) == [file |-> file, line |-> line, column |-> column]

\* Lines 1..2 are `entry`, 10..11 are `helper`.  pcs 1 and 2 are two
\* statements of one line; pcs 0 and 6 are compiler glue without a location.
\* token.rs has no table; its lines 1 and 11 are mistaken for those of the
\* primary's functions.
MCLocation ==
  [pc \in MCPC |->
     CASE pc = 1 -> At("primary.rs", 2, 1)
       [] pc = 2 -> At("primary.rs", 2, 5)
       [] pc \in 3 .. 4 -> At("primary.rs", pc + 7, 1)
       [] pc = 5 -> At("primary.rs", 2, Nil)
       [] pc = 7 -> At("token.rs", 20, 3)
       [] pc = 8 -> At("token.rs", 1, 3)
       [] pc = 11 -> At("token.rs", 11, 3)
       [] pc = 12 -> At("vault.rs", 40, 1)
       [] OTHER -> Nil]

MCFnAt == [l \in {1, 2, 10, 11} |-> IF l < 10 THEN "entry" ELSE "helper"]

MCProgramAt ==
  [pc \in MCPC |-> IF pc < 7 THEN "primary" ELSE IF pc < 12 THEN "token"
                   ELSE IF pc < 14 THEN "vault" ELSE Nil]

MCSbfFile ==
  [p \in {"primary", "token", "vault", "unknown_at_pc"} |->
     CASE p = "primary" -> "primary.sbf" [] p = "token" -> "token.sbf"
       [] p = "vault" -> "vault.sbf" [] OTHER -> "unknown_at_pc.sbf"]

MCFnAtPc == [pc \in MCPC |-> "fn_at_pc_" \o ToString(pc)]

MCTabled == {"primary.rs", "vault.rs"}

ASSUME OneFilePerLine == LinesTellFiles
=============================================================================
