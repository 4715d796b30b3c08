----------------------------- MODULE Syscalls -----------------------------
(***************************************************************************)
(* The syscall handlers of the recorder's VM (src/src/syscalls.rs).  Each  *)
(* invocation is logged, and journaled with the memory it wrote; a handler *)
(* that returns an error halts the program.  The text that is logged is    *)
(* left out, the name is kept.                                             *)
(***************************************************************************)
EXTENDS GuestMemory

CONSTANTS
  Rodata,     \* Rodata[addr]: the program's read-only data
  HeapStart,  \* SyscallState.heap_start
  HeapLen     \* SyscallState.heap_len

ASSUME HeapType ==
  /\ DOMAIN Rodata \subseteq Mapped /\ \A a \in DOMAIN Rodata : Rodata[a] \in Byte
  /\ HeapStart \in Nat \ {0} /\ HeapLen \in Nat
  /\ HeapStart % 8 = 0 /\ HeapLen % 8 = 0

\* The program's read-only data (get_ro_region) is no part of a writable region.
ASSUME RodataIsReadOnly ==
  \A i \in DOMAIN Regions : Regions[i].writable => Addresses(Regions[i]) \cap DOMAIN Rodata = {}

VARIABLES
  memory,      \* the guest's memory
  log,         \* the names of the syscalls logged
  mem_writes,  \* the writes of each, aligned with log
  bump_pos,
  r0,          \* what the last syscall returned
  halted       \* an error ended the program

syscall_vars == << memory, log, mem_writes, bump_pos, r0, halted >>

\* ExecutionTrace.initial_memory: the stack, the heap and the input, which
\* has no accounts and no data, start zeroed.
InitialMemory == [a \in Mapped |-> IF a \in DOMAIN Rodata THEN Rodata[a] ELSE 0]

SyscallsInit ==
  /\ memory = InitialMemory
  /\ log = << >>
  /\ mem_writes = << >>
  /\ bump_pos = HeapStart + HeapLen
  /\ r0 = 0
  /\ halted = FALSE

----------------------------------------------------------------------------
push(name, writes) ==
  /\ log' = Append(log, name)
  /\ mem_writes' = Append(mem_writes, writes)

Fault ==
  /\ halted' = TRUE
  /\ UNCHANGED << memory, bump_pos, r0 >>

\* The handlers that do nothing to the guest but return.
Logs(name) ==
  /\ push(name, << >>)
  /\ r0' = 0
  /\ UNCHANGED << memory, bump_pos, halted >>

\* The handlers that are logged and fail.
Fails(name) ==
  /\ push(name, << >>)
  /\ Fault

\* The handlers that leave `bytes` at `addr`.
Writes(name, addr, bytes) ==
  /\ push(name, << [addr |-> addr, bytes |-> bytes] >>)
  /\ memory' = Patched(memory, addr, bytes)
  /\ r0' = 0
  /\ UNCHANGED << bump_pos, halted >>

----------------------------------------------------------------------------
abort == Fails("abort")

\* A file name that cannot be read is replaced.
sol_panic_ == Fails("sol_panic_")

\* Nothing is logged of a message that cannot be read.
sol_log_(ptr, len) ==
  \/ /\ len = 0 \/ Loadable(ptr, len)
     /\ Logs("sol_log_")
  \/ /\ len # 0 /\ ~ Loadable(ptr, len)
     /\ Fault
     /\ UNCHANGED << log, mem_writes >>

sol_log_64_ == Logs("sol_log_64_")

\* 32 bytes, or none if they cannot be read.
sol_log_pubkey == Logs("sol_log_pubkey")

sol_log_compute_units_ == Logs("sol_log_compute_units_")

\* Bytes, or none if they cannot be read.
sol_log_data == Logs("sol_log_data")

----------------------------------------------------------------------------
Overlap(dst, src, n) == dst < src + n /\ src < dst + n

\* What copy_nonoverlapping leaves at dst: undefined for an overlap, where
\* a copy through a buffer, upwards and downwards differ.
Copied(dst, src, n) ==
  LET buffered == BytesAt(memory, src, n)
      d == IF dst > src THEN dst - src ELSE src - dst
      upwards == [i \in 1 .. n |-> memory[src + ((i - 1) % d)]]
      downwards == [i \in 1 .. n |-> memory[src + n - 1 - ((n - i) % d)]]
  IN  CASE dst > src /\ Overlap(dst, src, n) -> {buffered, upwards}
        [] dst < src /\ Overlap(dst, src, n) -> {buffered, downwards}
        [] OTHER                             -> {buffered}

\* Defect: the source is journaled, which an overlapping copy has changed.
sol_memcpy_JournalsSource(dst, src, n) ==
  \/ n = 0 /\ Logs("sol_memcpy_")
  \/ n # 0 /\ ~ (Loadable(src, n) /\ Storable(dst, n)) /\ Fails("sol_memcpy_")
  \/ /\ n # 0 /\ Loadable(src, n) /\ Storable(dst, n)
     /\ \E bytes \in Copied(dst, src, n) : memory' = Patched(memory, dst, bytes)
     /\ push("sol_memcpy_", << [addr |-> dst, bytes |-> BytesAt(memory, src, n)] >>)
     /\ r0' = 0
     /\ UNCHANGED << bump_pos, halted >>

\* Nothing keeps the two from overlapping.
sol_memcpy_(dst, src, n) ==
  \/ n = 0 /\ Logs("sol_memcpy_")
  \/ n # 0 /\ ~ (Loadable(src, n) /\ Storable(dst, n)) /\ Fails("sol_memcpy_")
  \/ /\ n # 0 /\ Loadable(src, n) /\ Storable(dst, n)
     /\ \E bytes \in Copied(dst, src, n) : Writes("sol_memcpy_", dst, bytes)

sol_memmove_(dst, src, n) ==
  \/ n = 0 /\ Logs("sol_memmove_")
  \/ n # 0 /\ ~ (Loadable(src, n) /\ Storable(dst, n)) /\ Fails("sol_memmove_")
  \/ /\ n # 0 /\ Loadable(src, n) /\ Storable(dst, n)
     /\ Writes("sol_memmove_", dst, BytesAt(memory, src, n))

\* Defect: a call with nothing to fill returns before it is logged.
sol_memset_NothingLogged(dst, val, n) ==
  \/ /\ n = 0
     /\ r0' = 0
     /\ UNCHANGED << memory, log, mem_writes, bump_pos, halted >>
  \/ n # 0 /\ ~ Storable(dst, n) /\ Fails("sol_memset_")
  \/ /\ n # 0 /\ Storable(dst, n)
     /\ Writes("sol_memset_", dst, [i \in 1 .. n |-> val % 256])

\* `val` is filled in by its low byte.
sol_memset_(dst, val, n) ==
  \/ n = 0 /\ Logs("sol_memset_")
  \/ n # 0 /\ ~ Storable(dst, n) /\ Fails("sol_memset_")
  \/ /\ n # 0 /\ Storable(dst, n)
     /\ Writes("sol_memset_", dst, [i \in 1 .. n |-> val % 256])

\* -1, 0 or 1, as the four bytes of an i32.
Comparison(a, b) ==
  LET differ == {i \in DOMAIN a : a[i] # b[i]}
      first == CHOOSE i \in differ : \A j \in differ : i <= j
  IN  CASE differ = {}           -> << 0, 0, 0, 0 >>
        [] a[first] < b[first]   -> << 255, 255, 255, 255 >>
        [] OTHER                 -> << 1, 0, 0, 0 >>

\* The result is written even for n = 0.
sol_memcmp_(s1, s2, n, result) ==
  LET readable == n = 0 \/ (Loadable(s1, n) /\ Loadable(s2, n))
  IN  \/ ~ (readable /\ Storable(result, 4)) /\ Fails("sol_memcmp_")
      \/ /\ readable /\ Storable(result, 4)
         /\ Writes("sol_memcmp_", result,
                   IF n = 0 THEN << 0, 0, 0, 0 >>
                            ELSE Comparison(BytesAt(memory, s1, n), BytesAt(memory, s2, n)))

----------------------------------------------------------------------------
\* Defect: the word at the start of the heap can be handed out.
AllocatedLow(size) ==
  LET pos == IF size > bump_pos THEN 0 ELSE bump_pos - size
      aligned == pos - (pos % 8)
  IN  IF aligned < HeapStart THEN 0 ELSE aligned

\* Defect: rounded up, as for an allocator that grows upwards.
AllocatedUp(size) ==
  LET pos == IF size > bump_pos THEN 0 ELSE bump_pos - size
      aligned == pos + ((8 - (pos % 8)) % 8)
  IN  IF aligned < HeapStart + 8 THEN 0 ELSE aligned

\* Defect: the position wraps around at 0.
AllocatedWrapped(size) ==
  LET pos == (bump_pos - size) % 2 ^ 16
      aligned == pos - (pos % 8)
  IN  IF aligned < HeapStart + 8 THEN 0 ELSE aligned

\* The block a request gets, or 0: downwards, saturating, aligned to 8.
Allocated(size) ==
  LET pos == IF size > bump_pos THEN 0 ELSE bump_pos - size
      aligned == pos - (pos % 8)
  IN  IF aligned < HeapStart + 8 THEN 0 ELSE aligned

\* Nothing is ever freed.
sol_alloc_free_(size, free_addr) ==
  /\ push("sol_alloc_free_", << >>)
  /\ IF free_addr # 0
       THEN r0' = 0 /\ UNCHANGED bump_pos
       ELSE /\ r0' = Allocated(size)
            /\ bump_pos' = IF Allocated(size) = 0 THEN bump_pos ELSE Allocated(size)
  /\ UNCHANGED << memory, halted >>

----------------------------------------------------------------------------
JournalEntry == Seq([addr : Nat, bytes : Seq(Byte)])

SyscallNames ==
  { "abort", "sol_panic_", "sol_log_", "sol_log_64_", "sol_log_pubkey", "sol_log_compute_units_",
    "sol_log_data", "sol_memcpy_", "sol_memmove_", "sol_memset_", "sol_memcmp_", "sol_alloc_free_" }

SyscallsTypeOK ==
  /\ memory \in Image
  /\ log \in Seq(SyscallNames)
  /\ mem_writes \in Seq(JournalEntry)
  /\ bump_pos \in HeapStart .. HeapStart + HeapLen
  /\ r0 \in Nat
  /\ halted \in BOOLEAN
=============================================================================
