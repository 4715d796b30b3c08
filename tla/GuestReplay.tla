---------------------------- MODULE GuestReplay ----------------------------
(***************************************************************************)
(* A program that stores and makes syscalls, and then the recorder's       *)
(* replay of its memory: the stores from the registers each ran with, the  *)
(* syscalls from their journal (src/src/source_recorder.rs, run).          *)
(***************************************************************************)
EXTENDS Syscalls, FiniteSets

CONSTANTS
  Addrs, Sizes,    \* the addresses and lengths syscalls are given
  StoreAddrs,      \* the addresses stores are given
  Registers,       \* what a register can hold, as its eight bytes
  AllocSizes,
  MaxInstructions

ASSUME InputsType ==
  /\ Addrs \subseteq Nat /\ Sizes \subseteq Nat /\ StoreAddrs \subseteq Nat
  /\ Registers \subseteq [1 .. 8 -> Byte]
  /\ AllocSizes \subseteq Nat
  /\ MaxInstructions \in Nat

VARIABLES
  instructions,  \* the stores and syscalls executed, with their operands
  images,        \* the memory before each, for the properties
  blocks,        \* the blocks handed out, likewise
  program_pos,   \* the position of the program's own BumpAllocator
  ended,         \* the program has exited
  shadow,        \* the ShadowMemory
  replayed,      \* how many instructions were replayed
  consumed       \* how far the iterator over the journal is

program_vars == << instructions, images, blocks, program_pos, ended >>
replay_vars == << shadow, replayed, consumed >>
vars == << syscall_vars, program_vars, replay_vars >>

Init ==
  /\ SyscallsInit
  /\ instructions = << >> /\ images = << >> /\ blocks = << >>
  /\ program_pos = 0
  /\ ended = FALSE
  /\ shadow = InitialMemory
  /\ replayed = 0
  /\ consumed = 0

----------------------------------------------------------------------------
\* The registers are traced before the instruction runs.
Traced(instruction) ==
  /\ ~ halted /\ ~ ended
  /\ Len(instructions) < MaxInstructions
  /\ instructions' = Append(instructions, instruction)
  /\ images' = Append(images, memory)
  /\ UNCHANGED << program_pos, ended, replay_vars >>

CallImm == [op |-> "call_imm"]

Store(addr, value, size) ==
  /\ Traced([op |-> "store", addr |-> addr, value |-> value, size |-> size])
  /\ \/ /\ Storable(addr, size)
        /\ memory' = Patched(memory, addr, SubSeq(value, 1, size))
        /\ UNCHANGED halted
     \/ /\ ~ Storable(addr, size)
        /\ halted' = TRUE
        /\ UNCHANGED memory
  /\ UNCHANGED << log, mem_writes, bump_pos, r0, blocks >>

\* The syscalls that are logged and nothing more.
LoggingSyscall ==
  /\ Traced(CallImm)
  /\ \/ abort \/ sol_panic_ \/ sol_log_64_ \/ sol_log_pubkey
     \/ sol_log_compute_units_ \/ sol_log_data
     \/ \E ptr \in Addrs, len \in Sizes : sol_log_(ptr, len)
  /\ UNCHANGED blocks

MemorySyscall ==
  /\ Traced(CallImm)
  /\ \E dst \in Addrs, n \in Sizes :
       \/ \E src \in Addrs :
            \/ sol_memcpy_(dst, src, n)
            \/ sol_memmove_(dst, src, n)
            \/ \E result \in StoreAddrs : sol_memcmp_(dst, src, n, result)
       \/ sol_memset_(dst, 258, n)
  /\ UNCHANGED blocks

AllocSyscall(size, free_addr) ==
  /\ Traced(CallImm)
  /\ sol_alloc_free_(size, free_addr)
  /\ blocks' = IF r0' = 0 THEN blocks ELSE Append(blocks, [start |-> r0', len |-> size])

Exit ==
  /\ ~ halted /\ ~ ended
  /\ ended' = TRUE
  /\ UNCHANGED << syscall_vars, instructions, images, blocks, program_pos, replay_vars >>

----------------------------------------------------------------------------
Executed == halted \/ ended

\* Defect: the register is written whole, whatever the store's width.
StoredWide(instruction) == instruction.value

\* The bytes a store leaves.
Stored(instruction) == SubSeq(instruction.value, 1, instruction.size)

\* Memory is brought up to date with one instruction.
Replay ==
  /\ Executed
  /\ replayed < Len(instructions)
  /\ LET instruction == instructions[replayed + 1]
     IN  \/ /\ instruction.op = "store"
            /\ shadow' = ShadowWrite(shadow, instruction.addr, Stored(instruction))
            /\ UNCHANGED consumed
         \/ /\ instruction.op = "call_imm"
            /\ consumed < Len(mem_writes)
            /\ shadow' = ShadowWrites(shadow, mem_writes[consumed + 1])
            /\ consumed' = consumed + 1
         \/ /\ instruction.op = "call_imm"
            /\ consumed = Len(mem_writes)
            /\ UNCHANGED << shadow, consumed >>
  /\ replayed' = replayed + 1
  /\ UNCHANGED << syscall_vars, program_vars >>

Next ==
  \/ \E addr \in StoreAddrs, value \in Registers, size \in {1, 2, 4, 8} :
       Store(addr, value, size)
  \/ LoggingSyscall
  \/ MemorySyscall
  \/ \E size \in AllocSizes, free_addr \in {0, HeapStart + 8} : AllocSyscall(size, free_addr)
  \/ Exit
  \/ Replay

Spec == Init /\ [][Next]_vars

----------------------------------------------------------------------------
\* The `BumpAllocator` linked into a program (external).  Its position is 0
\* before the first request.
ProgramAlloc(size) ==
  LET top == IF program_pos = 0 THEN HeapStart + HeapLen ELSE program_pos
      pos == IF size > top THEN 0 ELSE top - size
      aligned == pos - (pos % 8)
  IN  /\ ~ halted /\ ~ ended
      /\ Len(blocks) < MaxInstructions
      /\ aligned >= HeapStart + 8
      /\ program_pos' = aligned
      /\ blocks' = Append(blocks, [start |-> aligned, len |-> size])
      /\ UNCHANGED << syscall_vars, instructions, images, ended, replay_vars >>

\* A program that uses both allocators.
AlternatingNext ==
  \E size \in AllocSizes : ProgramAlloc(size) \/ AllocSyscall(size, 0)

AlternatingSpec == Init /\ [][AlternatingNext]_vars

----------------------------------------------------------------------------
Instruction ==
  [op : {"call_imm"}] \cup
  [op : {"store"}, addr : StoreAddrs, value : Registers, size : {1, 2, 4, 8}]

TypeOK ==
  /\ SyscallsTypeOK
  /\ instructions \in Seq(Instruction)
  /\ images \in Seq(Image)
  /\ Len(instructions) = Len(images)
  /\ ended \in BOOLEAN
  /\ shadow \in Image
  /\ replayed \in 0 .. Len(instructions)
  /\ consumed \in 0 .. Len(mem_writes)

(***************************************************************************)
(* "the memory contents *before* instruction `i` are available exactly     *)
(* when the registers before instruction `i` are" (sbf_memory.rs): byte by *)
(* byte, whatever the widths, the overlaps and the writes out of bounds.   *)
(***************************************************************************)
ReplayIsExact ==
  Executed =>
    \/ replayed < Len(instructions) /\ shadow = images[replayed + 1]
    \/ replayed = Len(instructions) /\ (halted \/ shadow = memory)

\* How many of the first n instructions are syscalls.
SyscallsAmong(executed, n) == Cardinality({i \in 1 .. n : executed[i].op = "call_imm"})

SyscallsExecuted == SyscallsAmong(instructions, Len(instructions))

(***************************************************************************)
(* The n-th journal entry is that of the n-th syscall: only a syscall that *)
(* ends the program may be missing from the journal.                       *)
(***************************************************************************)
JournalAligned ==
  /\ Len(log) = Len(mem_writes)
  /\ \/ Len(mem_writes) = SyscallsExecuted
     \/ halted /\ Len(mem_writes) + 1 = SyscallsExecuted

(***************************************************************************)
(* What a syscall writes, it writes where a program may: read-only data    *)
(* stays as it was loaded.                                                 *)
(***************************************************************************)
RodataKept == \A a \in DOMAIN Rodata : memory[a] = Rodata[a]

Apart(b, c) == b.start + b.len <= c.start \/ c.start + c.len <= b.start

(***************************************************************************)
(* No byte of the heap is handed out twice.                                *)
(***************************************************************************)
BlocksApart == \A i, j \in DOMAIN blocks : i # j => Apart(blocks[i], blocks[j])

(***************************************************************************)
(* Blocks are aligned, lie in the heap, and leave the word at its start    *)
(* alone, which is where a program keeps its own allocator's position.     *)
(***************************************************************************)
BlocksInHeap ==
  \A i \in DOMAIN blocks :
    /\ blocks[i].start % 8 = 0
    /\ blocks[i].start >= HeapStart + 8
    /\ blocks[i].start + blocks[i].len <= HeapStart + HeapLen

\* What makes the last two inductive: the blocks are above the position.
BlocksInv ==
  /\ bump_pos \in HeapStart .. HeapStart + HeapLen
  /\ blocks \in Seq([start : Nat, len : Nat])
  /\ \A i \in DOMAIN blocks : blocks[i].start >= bump_pos
  /\ BlocksInHeap
  /\ BlocksApart

(***************************************************************************)
(* "a program that alternates between the program-side `BumpAllocator` and *)
(* the syscall path doesn't collide with itself" (syscalls.rs).            *)
(***************************************************************************)
AllocatorsDoNotCollide == BlocksApart
=============================================================================
