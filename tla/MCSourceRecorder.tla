------------------------- MODULE MCSourceRecorder -------------------------
(***************************************************************************)
(* A program of two functions.  `main` (0..4) calls `helper` (5..9) from   *)
(* inside an inlined call; `helper` enters an inlined call, a second one   *)
(* inside it, may loop, and may call itself or -- through a register --    *)
(* `main`.                                                                 *)
(***************************************************************************)
EXTENDS SourceRecorder

Instruction(op, to) == [op |-> op, to |-> to]

MCText ==
  [pc \in 0 .. 9 |->
     CASE pc = 1 -> Instruction("call_imm", {5})
       [] pc = 2 -> Instruction("call_imm", {})
       [] pc = 3 -> Instruction("store", {})
       [] pc = 7 -> Instruction("other", {8, 9})
       [] pc = 8 -> Instruction("call_reg", {0, 5})
       [] pc \in {4, 9} -> Instruction("exit", {})
       [] OTHER -> Instruction("other", {pc + 1})]

MCFunctionAt == [pc \in 0 .. 9 |-> IF pc < 5 THEN "main" ELSE "helper"]

\* A helper from a library built without debug information.
MCFunctionAtPartly == [MCFunctionAt EXCEPT ![5] = Nil, ![6] = Nil, ![7] = Nil, ![8] = Nil, ![9] = Nil]

Scope(call, pcs) == [call |-> call, pcs |-> pcs]

MCScopes ==
  [main |-> << Scope("min", 1 .. 2) >>,
   helper |-> << Scope("next", {6, 7}), Scope("get", {7}), Scope("len", {8, 9}) >>]

At(file, line, column) == [file |-> file, line |-> line, column |-> column]

\* The call, the callee's first instructions and its last are on one position,
\* as in a macro's expansion; the column of pc 4 is past its line's end.
MCPositionAt ==
  [pc \in 0 .. 9 |->
     CASE pc = 0 -> At("lib.rs", 1, 1)
       [] pc \in {1, 2, 5, 6, 9} -> At("lib.rs", 2, 5)
       [] pc = 4 -> At("lib.rs", 3, 90)
       [] pc = 7 -> At("core.rs", 1, 1)
       [] pc = 8 -> At("lib.rs", 2, Nil)
       [] OTHER -> Nil]

MCAddressable == {"lib.rs"} \X (1 .. 3) \X (1 .. 5)
=============================================================================
