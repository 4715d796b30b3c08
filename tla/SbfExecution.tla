--------------------------- MODULE SbfExecution ---------------------------
(***************************************************************************)
(* One execution of an SBF program and what it leaves for the recorder:    *)
(* `execute_with_memory_trace` (src/src/executor.rs) runs the program in   *)
(* the `solana_sbpf` interpreter and returns an ExecutionTrace.            *)
(*                                                                         *)
(* The interpreter is external.  A snapshot keeps of the registers the pc  *)
(* and the value an instruction would store; what the interpreter knows    *)
(* and the recorder must reconstruct -- the calls it is in and the memory  *)
(* -- is beside it, for the properties.                                    *)
(***************************************************************************)
EXTENDS Naturals, Sequences

CONSTANTS
  Text,          \* Text[pc]: the instruction in slot pc: its op, and the pcs
                 \* it can continue at; a call_imm to none is a syscall
  Entry,         \* the first pc
  Cells,         \* the guest memory
  Values,        \* what a cell can hold
  Zero,          \* what every cell holds at the start
  MaxSnapshots,  \* bound on the length of an execution
  MaxCallDepth   \* config.max_call_depth

PC == DOMAIN Text

Ops == {"call_imm", "call_reg", "exit", "store", "other"}

ASSUME TextType ==
  /\ PC \subseteq Nat
  /\ Text \in [PC -> [op : Ops, to : SUBSET PC]]
  /\ Entry \in PC
  /\ Zero \in Values
  /\ MaxSnapshots \in Nat \ {0}
  /\ MaxCallDepth \in Nat

VARIABLES
  snapshots,       \* ExecutionTrace.regs, parsed
  syscall_writes,  \* ExecutionTrace.syscall_writes
  executed         \* the execution is over

----------------------------------------------------------------------------
Writes == UNION {[C -> Values] : C \in SUBSET Cells}

Memory == [Cells -> Values]

\* callers: the pcs of the calls the interpreter is in, outermost first.
SnapshotRecord == [pc : PC, callers : Seq(PC), operand : Writes, memory : Memory]

IsSyscall(pc) == Text[pc].op = "call_imm" /\ Text[pc].to = {}

\* memory with the cells of w overwritten.
Overwrite(memory, w) == [c \in Cells |-> IF c \in DOMAIN w THEN w[c] ELSE memory[c]]

\* What the instruction at pc can be asked to store.
Operands(pc) ==
  IF Text[pc].op = "store" THEN {w \in Writes : \E c \in Cells : DOMAIN w = {c}}
                           ELSE {<< >>}

SnapshotAt(pc, callers, memory) ==
  {[pc |-> pc, callers |-> callers, operand |-> w, memory |-> memory] : w \in Operands(pc)}

ExecutionInit ==
  /\ snapshots \in {<< s >> : s \in SnapshotAt(Entry, << >>, [c \in Cells |-> Zero])}
  /\ syscall_writes = << >>
  /\ executed = FALSE

Current == snapshots[Len(snapshots)]

\* The interpreter traces the registers before the next instruction.
Continue(pc, callers, memory) ==
  /\ ~ executed
  /\ Len(snapshots) < MaxSnapshots
  /\ pc \in PC
  /\ \E s \in SnapshotAt(pc, callers, memory) : snapshots' = Append(snapshots, s)
  /\ UNCHANGED executed

ExecuteCall ==
  /\ Text[Current.pc].op \in {"call_imm", "call_reg"}
  /\ Len(Current.callers) < MaxCallDepth
  /\ \E target \in Text[Current.pc].to :
       Continue(target, Append(Current.callers, Current.pc), Current.memory)
  /\ UNCHANGED syscall_writes

\* A handler journals its invocation, with the memory it wrote.
ExecuteSyscall ==
  /\ IsSyscall(Current.pc)
  /\ \E w \in Writes :
       /\ syscall_writes' = Append(syscall_writes, w)
       /\ Continue(Current.pc + 1, Current.callers, Overwrite(Current.memory, w))

ExecuteExit ==
  /\ Text[Current.pc].op = "exit"
  /\ Current.callers # << >>
  /\ LET depth == Len(Current.callers)
     IN  Continue(Current.callers[depth] + 1, SubSeq(Current.callers, 1, depth - 1),
                  Current.memory)
  /\ UNCHANGED syscall_writes

ExecuteStore ==
  /\ Text[Current.pc].op = "store"
  /\ Continue(Current.pc + 1, Current.callers, Overwrite(Current.memory, Current.operand))
  /\ UNCHANGED syscall_writes

ExecuteOther ==
  /\ Text[Current.pc].op = "other"
  /\ \E target \in Text[Current.pc].to : Continue(target, Current.callers, Current.memory)
  /\ UNCHANGED syscall_writes

\* The outermost exit, a fault or the end of the budget: the error, if any,
\* is printed and the trace so far returned.  A syscall that fails has
\* journaled its invocation, unless it failed to read its arguments.
Stop ==
  /\ ~ executed
  /\ executed' = TRUE
  /\ \/ UNCHANGED syscall_writes
     \/ IsSyscall(Current.pc) /\ syscall_writes' = Append(syscall_writes, << >>)
  /\ UNCHANGED snapshots

Execute ==
  \/ ExecuteCall \/ ExecuteSyscall \/ ExecuteExit \/ ExecuteStore \/ ExecuteOther
  \/ Stop

ExecutionTypeOK ==
  /\ snapshots \in Seq(SnapshotRecord) /\ Len(snapshots) \in 1 .. MaxSnapshots
  /\ syscall_writes \in Seq(Writes)
  /\ executed \in BOOLEAN
=============================================================================
