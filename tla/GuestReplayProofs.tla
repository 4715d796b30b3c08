------------------------- MODULE GuestReplayProofs -------------------------
(***************************************************************************)
(* For every heap and every sequence of stores and syscalls: the blocks    *)
(* sol_alloc_free_ hands out are in the heap, aligned and apart; each      *)
(* syscall has its journal entry; read-only data stays; and the memory the *)
(* recorder replays is, before each instruction, the program's.            *)
(***************************************************************************)
EXTENDS GuestReplay, SequenceTheorems, FiniteSetTheorems, TLAPS

\* A block fits below the position, and spares the heap's first word.
LEMMA AllocatedFits ==
  ASSUME NEW size \in Nat,
         bump_pos \in HeapStart .. HeapStart + HeapLen
  PROVE  \/ Allocated(size) = 0
         \/ /\ Allocated(size) \in Nat
            /\ Allocated(size) % 8 = 0
            /\ Allocated(size) >= HeapStart + 8
            /\ Allocated(size) + size <= bump_pos
<1> USE HeapType
<1>1. bump_pos \in Nat
  OBVIOUS
<1>2. CASE size > bump_pos
  <2>1. 0 - (0 % 8) < HeapStart + 8
    OBVIOUS
  <2>2. Allocated(size) = 0
    BY <1>2, <2>1 DEF Allocated
  <2> QED
    BY <2>2
<1>3. CASE ~ (size > bump_pos)
  <2> DEFINE pos == bump_pos - size
             aligned == pos - (pos % 8)
  <2>1. pos \in Nat
    BY <1>1, <1>3
  <2>2. /\ aligned \in Nat
        /\ aligned % 8 = 0
        /\ aligned <= pos
    <3>1. \A p \in Nat : p - (p % 8) \in Nat /\ (p - (p % 8)) % 8 = 0 /\ p - (p % 8) <= p
      OBVIOUS
    <3> QED
      BY <2>1, <3>1
  <2>3. aligned + size <= bump_pos
    BY <1>1, <2>2
  <2>4. Allocated(size) = IF aligned < HeapStart + 8 THEN 0 ELSE aligned
    BY <1>3 DEF Allocated
  <2> HIDE DEF pos, aligned
  <2> QED
    BY <2>2, <2>3, <2>4
<1> QED
  BY <1>2, <1>3

\* A block below all the others joins them.
LEMMA BlockJoins ==
  ASSUME BlocksInv, NEW size \in Nat, NEW start \in Nat,
         start % 8 = 0, start >= HeapStart + 8, start + size <= bump_pos,
         bump_pos' = start,
         blocks' = Append(blocks, [start |-> start, len |-> size])
  PROVE  BlocksInv'
<1> USE HeapType
<1> DEFINE block == [start |-> start, len |-> size]
<1>1. /\ block \in [start : Nat, len : Nat]
      /\ block.start = start
      /\ block.len = size
  OBVIOUS
<1>2. /\ blocks' \in Seq([start : Nat, len : Nat])
      /\ DOMAIN blocks' = DOMAIN blocks \cup {Len(blocks) + 1}
      /\ \A i \in DOMAIN blocks : blocks'[i] = blocks[i]
      /\ blocks'[Len(blocks) + 1] = block
  BY <1>1 DEF BlocksInv
<1>3. bump_pos' \in HeapStart .. HeapStart + HeapLen
  BY DEF BlocksInv
<1>4. \A i \in DOMAIN blocks : blocks[i].start \in Nat /\ blocks[i].len \in Nat
  <2> DEFINE Blocks == [start : Nat, len : Nat]
  <2>1. blocks \in Seq(Blocks)
    BY DEF BlocksInv
  <2> HIDE DEF Blocks
  <2>2. \A i \in DOMAIN blocks : blocks[i] \in Blocks
    BY <2>1, ElementOfSeq, LenProperties
  <2> QED
    BY <2>2 DEF Blocks
<1> HIDE DEF block
<1>5. \A i \in DOMAIN blocks' : blocks'[i].start >= bump_pos'
  <2>1. bump_pos' <= bump_pos /\ bump_pos \in Nat /\ bump_pos' \in Nat
    BY DEF BlocksInv
  <2>2. ASSUME NEW i \in DOMAIN blocks PROVE blocks'[i].start >= bump_pos'
    <3>1. blocks[i].start >= bump_pos
      BY DEF BlocksInv
    <3>2. \A a, b, c \in Nat : a >= b /\ c <= b => a >= c
      OBVIOUS
    <3> QED
      BY <1>2, <1>4, <2>1, <3>1, <3>2, Zenon
  <2> QED
    BY <1>1, <1>2, <2>2
<1>6. BlocksInHeap'
  <2>1. ASSUME NEW i \in DOMAIN blocks
        PROVE  /\ blocks'[i].start % 8 = 0
               /\ blocks'[i].start >= HeapStart + 8
               /\ blocks'[i].start + blocks'[i].len <= HeapStart + HeapLen
    BY <1>2 DEF BlocksInv, BlocksInHeap
  <2>2. start + size <= HeapStart + HeapLen
    BY DEF BlocksInv
  <2> QED
    BY <1>1, <1>2, <2>1, <2>2 DEF BlocksInHeap
<1>7. BlocksApart'
  <2>1. ASSUME NEW i \in DOMAIN blocks
        PROVE  start + size <= blocks[i].start
    BY <1>4 DEF BlocksInv
  <2>2. ASSUME NEW i \in DOMAIN blocks, NEW j \in DOMAIN blocks, i # j
        PROVE  Apart(blocks'[i], blocks'[j])
    BY <1>2, <2>2 DEF BlocksInv, BlocksApart
  <2>3. ASSUME NEW i \in DOMAIN blocks
        PROVE  Apart(blocks'[i], block) /\ Apart(block, blocks'[i])
    BY <1>1, <1>2, <2>1 DEF Apart
  <2> QED
    BY <1>2, <2>2, <2>3 DEF BlocksApart
<1> QED
  BY <1>2, <1>3, <1>5, <1>6, <1>7 DEF BlocksInv

LEMMA BlocksInit ==
  Init => BlocksInv
BY HeapType, EmptySeq
   DEF Init, SyscallsInit, BlocksInv, BlocksInHeap, BlocksApart

LEMMA BlocksStutter ==
  BlocksInv /\ UNCHANGED << bump_pos, blocks >> => BlocksInv'
BY DEF BlocksInv, BlocksInHeap, BlocksApart

LEMMA BlocksStep ==
  BlocksInv /\ [Next]_vars => BlocksInv'
<1> SUFFICES ASSUME BlocksInv, [Next]_vars PROVE BlocksInv'
  OBVIOUS
<1>1. ASSUME NEW addr \in StoreAddrs, NEW value \in Registers, NEW size \in {1, 2, 4, 8},
             Store(addr, value, size)
      PROVE  BlocksInv'
  BY <1>1, BlocksStutter DEF Store
<1>2. CASE LoggingSyscall
  <2>1. UNCHANGED bump_pos
    BY <1>2 DEF LoggingSyscall, abort, sol_panic_, sol_log_64_, sol_log_pubkey,
                sol_log_compute_units_, sol_log_data, sol_log_, Fails, Logs, Fault
  <2> QED
    BY <1>2, <2>1, BlocksStutter DEF LoggingSyscall
<1>3. CASE MemorySyscall
  <2>1. ASSUME NEW dst, NEW src, NEW n, sol_memcpy_(dst, src, n) PROVE UNCHANGED bump_pos
    BY <2>1, Zenon DEF sol_memcpy_, Fails, Logs, Fault, Writes
  <2>2. ASSUME NEW dst, NEW src, NEW n, sol_memmove_(dst, src, n) PROVE UNCHANGED bump_pos
    BY <2>2, Zenon DEF sol_memmove_, Fails, Logs, Fault, Writes
  <2>3. ASSUME NEW dst, NEW val, NEW n, sol_memset_(dst, val, n) PROVE UNCHANGED bump_pos
    BY <2>3, Zenon DEF sol_memset_, Fails, Logs, Fault, Writes
  <2>4. ASSUME NEW s1, NEW s2, NEW n, NEW result, sol_memcmp_(s1, s2, n, result)
        PROVE  UNCHANGED bump_pos
    BY <2>4, Zenon DEF sol_memcmp_, Fails, Fault, Writes
  <2>5. UNCHANGED bump_pos
    BY <1>3, <2>1, <2>2, <2>3, <2>4, Zenon DEF MemorySyscall
  <2> QED
    BY <1>3, <2>5, BlocksStutter DEF MemorySyscall
<1>4. ASSUME NEW size \in AllocSizes, NEW free_addr \in {0, HeapStart + 8},
             AllocSyscall(size, free_addr)
      PROVE  BlocksInv'
  <2>1. size \in Nat /\ bump_pos \in HeapStart .. HeapStart + HeapLen
    BY InputsType DEF BlocksInv
  <2>2. CASE r0' = 0
    <3>1. UNCHANGED bump_pos
      BY <1>4, <2>2 DEF AllocSyscall, sol_alloc_free_
    <3> QED
      BY <1>4, <2>2, <3>1, BlocksStutter DEF AllocSyscall
  <2>3. CASE r0' # 0
    <3>1. /\ r0' = Allocated(size)
          /\ bump_pos' = Allocated(size)
          /\ blocks' = Append(blocks, [start |-> Allocated(size), len |-> size])
      BY <1>4, <2>3 DEF AllocSyscall, sol_alloc_free_
    <3>2. /\ Allocated(size) \in Nat
          /\ Allocated(size) % 8 = 0
          /\ Allocated(size) >= HeapStart + 8
          /\ Allocated(size) + size <= bump_pos
      BY <2>1, <2>3, <3>1, AllocatedFits
    <3> QED
      BY <2>1, <3>1, <3>2, BlockJoins
  <2> QED
    BY <2>2, <2>3
<1>5. CASE Exit
  BY <1>5, BlocksStutter DEF Exit, syscall_vars
<1>6. CASE Replay
  BY <1>6, BlocksStutter DEF Replay, syscall_vars, program_vars
<1>7. CASE UNCHANGED vars
  BY <1>7, BlocksStutter DEF vars, syscall_vars, program_vars
<1> QED
  BY <1>1, <1>2, <1>3, <1>4, <1>5, <1>6, <1>7 DEF Next

\* The position and the blocks keep their order.
LEMMA BlocksInvariant ==
  Spec => []BlocksInv
BY BlocksInit, BlocksStep, PTL DEF Spec

\* No byte of the heap is handed out twice, whatever is asked for.
THEOREM BlocksApartInvariant ==
  Spec => []BlocksApart
<1>1. BlocksInv => BlocksApart
  BY DEF BlocksInv
<1> QED
  BY <1>1, BlocksInvariant, PTL

\* Every block is aligned, in the heap and above its first word.
THEOREM BlocksInHeapInvariant ==
  Spec => []BlocksInHeap
<1>1. BlocksInv => BlocksInHeap
  BY DEF BlocksInv
<1> QED
  BY <1>1, BlocksInvariant, PTL
----------------------------------------------------------------------------
(***************************************************************************)
(* Memory: what is written inside a region is an image again.              *)
(***************************************************************************)
LEMMA RegionRecords ==
  \A i \in DOMAIN Regions : Regions[i] \in [start : Nat, len : Nat, writable : BOOLEAN]
<1> DEFINE R == [start : Nat, len : Nat, writable : BOOLEAN]
<1>1. Regions \in Seq(R)
  BY RegionsType
<1> HIDE DEF R
<1>2. \A i \in DOMAIN Regions : Regions[i] \in R
  BY <1>1, ElementOfSeq, LenProperties
<1> QED BY <1>2 DEF R

LEMMA StorableIsLoadable ==
  ASSUME NEW addr, NEW len, Storable(addr, len) PROVE Loadable(addr, len)
BY DEF Storable, Loadable

\* What can be loaded is mapped.
LEMMA LoadableIsMapped ==
  ASSUME NEW addr \in Nat, NEW len \in Nat, Loadable(addr, len),
         NEW a \in Int, addr <= a, a < addr + len
  PROVE  a \in Mapped
<1>1. PICK i \in DOMAIN Regions : Within(Regions[i], addr, len)
  BY DEF Loadable
<1>2. Regions[i].start \in Nat /\ Regions[i].len \in Nat
  BY <1>1, RegionRecords
<1>3. a \in Addresses(Regions[i])
  BY <1>1, <1>2 DEF Within, Addresses
<1> QED BY <1>3 DEF Mapped

LEMMA PatchedIsImage ==
  ASSUME NEW image \in Image, NEW addr \in Nat, NEW bytes \in Seq(Byte)
  PROVE  Patched(image, addr, bytes) \in Image
<1>1. ASSUME NEW a \in Mapped, a \in addr .. addr + Len(bytes) - 1
      PROVE  bytes[a - addr + 1] \in Byte
  <2>1. Len(bytes) \in Nat
    BY LenProperties
  <2>2. a - addr + 1 \in 1 .. Len(bytes)
    BY <1>1, <2>1
  <2> QED BY <2>2, ElementOfSeq
<1>2. \A a \in Mapped : image[a] \in Byte
  BY DEF Image
<1> QED BY <1>1, <1>2 DEF Patched, Image

LEMMA ShadowWriteIsImage ==
  ASSUME NEW image \in Image, NEW addr \in Nat, NEW bytes \in Seq(Byte)
  PROVE  ShadowWrite(image, addr, bytes) \in Image
BY PatchedIsImage DEF ShadowWrite

LEMMA InitialMemoryIsImage ==
  InitialMemory \in Image
BY HeapType DEF InitialMemory, Image, Byte

\* A journal entry without a write leaves memory alone.
LEMMA NoWrite ==
  ASSUME NEW image PROVE ShadowWrites(image, << >>) = image
<1> DEFINE F(f) == f = [i \in 0 .. 0 |-> IF i = 0 THEN image
                          ELSE ShadowWrite(f[i - 1], << >>[i].addr, << >>[i].bytes)]
<1>1. F([i \in 0 .. 0 |-> image])
  OBVIOUS
<1>2. \A f : F(f) => f[0] = image
  OBVIOUS
<1> QED BY <1>1, <1>2 DEF ShadowWrites

\* The entry of one write does that one.
LEMMA OneWrite ==
  ASSUME NEW image, NEW write
  PROVE  ShadowWrites(image, << write >>) = ShadowWrite(image, write.addr, write.bytes)
<1> DEFINE w == << write >>
           F(f) == f = [i \in 0 .. 1 |-> IF i = 0 THEN image
                          ELSE ShadowWrite(f[i - 1], w[i].addr, w[i].bytes)]
           g == [i \in 0 .. 1 |-> IF i = 0 THEN image
                          ELSE ShadowWrite(image, write.addr, write.bytes)]
<1>1. F(g)
  OBVIOUS
<1>2. \A f : F(f) => f[1] = ShadowWrite(image, write.addr, write.bytes)
  OBVIOUS
<1> QED BY <1>1, <1>2 DEF ShadowWrites

LEMMA ShadowWritesIsImage ==
  ASSUME NEW image \in Image, NEW writes \in JournalEntry, Len(writes) <= 1
  PROVE  ShadowWrites(image, writes) \in Image
<1> DEFINE W == [addr : Nat, bytes : Seq(Byte)]
<1>1. writes \in Seq(W)
  BY DEF JournalEntry
<1> HIDE DEF W
<1>2. CASE Len(writes) = 0
  <2>1. writes = << >>
    BY <1>1, <1>2, EmptySeq
  <2> QED BY <2>1, NoWrite
<1>3. CASE Len(writes) = 1
  <2>1. writes[1] \in W /\ writes = << writes[1] >>
    BY <1>1, <1>3, ElementOfSeq, LenProperties
  <2>2. writes[1].addr \in Nat /\ writes[1].bytes \in Seq(Byte)
    BY <2>1 DEF W
  <2>3. ShadowWrites(image, writes) = ShadowWrite(image, writes[1].addr, writes[1].bytes)
    BY <2>1, OneWrite
  <2> QED BY <2>2, <2>3, ShadowWriteIsImage
<1>4. Len(writes) \in Nat
  BY <1>1, LenProperties
<1>5. \A n \in Nat : n <= 1 => n = 0 \/ n = 1
  OBVIOUS
<1> QED BY <1>2, <1>3, <1>4, <1>5, Zenon

----------------------------------------------------------------------------
(***************************************************************************)
(* Syscalls: each is journaled with what it wrote, unless it ends the      *)
(* program.                                                                *)
(***************************************************************************)
\* A syscall with a journal entry, of one write at most.
Journaled ==
  \E name \in SyscallNames, writes \in JournalEntry :
    /\ push(name, writes)
    /\ Len(writes) <= 1
    /\ memory' = ShadowWrites(memory, writes)
    /\ halted' \in BOOLEAN
    /\ r0' \in Nat

\* A syscall that ends the program before it is logged.
Unlogged ==
  /\ halted' = TRUE
  /\ UNCHANGED << memory, log, mem_writes, r0 >>

\* The writes of a journal entry stay out of read-only data.
SparesRodata == \A a \in DOMAIN Rodata : memory'[a] = memory[a]

LEMMA LogsIsJournaled ==
  ASSUME NEW name \in SyscallNames, Logs(name), halted \in BOOLEAN
  PROVE  Journaled /\ SparesRodata
<1>1. << >> \in JournalEntry /\ Len(<< >>) <= 1
  BY EmptySeq DEF JournalEntry
<1>2. memory' = ShadowWrites(memory, << >>)
  BY NoWrite DEF Logs
<1> QED BY <1>1, <1>2, Zenon DEF Logs, Journaled, SparesRodata

LEMMA FailsIsJournaled ==
  ASSUME NEW name \in SyscallNames, Fails(name), r0 \in Nat
  PROVE  Journaled /\ SparesRodata
<1>1. << >> \in JournalEntry /\ Len(<< >>) <= 1
  BY EmptySeq DEF JournalEntry
<1>2. memory' = ShadowWrites(memory, << >>)
  BY NoWrite DEF Fails, Fault
<1> QED BY <1>1, <1>2, Zenon DEF Fails, Fault, Journaled, SparesRodata

\* What can be stored is no read-only data.
LEMMA StoreSparesRodata ==
  ASSUME NEW addr \in Nat, NEW bytes \in Seq(Byte), Storable(addr, Len(bytes)),
         NEW a \in DOMAIN Rodata
  PROVE  Patched(memory, addr, bytes)[a] = memory[a]
<1>1. PICK i \in DOMAIN Regions : Regions[i].writable /\ Within(Regions[i], addr, Len(bytes))
  BY DEF Storable
<1>2. a \in Mapped
  BY HeapType
<1>3. a \notin Addresses(Regions[i])
  BY <1>1, RodataIsReadOnly
<1>4. a \in Int
  BY <1>2, RegionRecords DEF Mapped, Addresses
<1>5. Regions[i].start \in Nat /\ Regions[i].len \in Nat /\ Len(bytes) \in Nat
  BY <1>1, RegionRecords, LenProperties
<1>6. a \notin addr .. addr + Len(bytes) - 1
  BY <1>1, <1>3, <1>4, <1>5 DEF Within, Addresses
<1> QED BY <1>2, <1>6 DEF Patched

LEMMA WritesIsJournaled ==
  ASSUME NEW name \in SyscallNames, NEW addr \in Nat, NEW bytes \in Seq(Byte),
         Storable(addr, Len(bytes)), Writes(name, addr, bytes), halted \in BOOLEAN
  PROVE  Journaled /\ SparesRodata
<1> DEFINE write == [addr |-> addr, bytes |-> bytes]
<1>1. << write >> \in JournalEntry /\ Len(<< write >>) <= 1
  BY DEF JournalEntry
<1>2. Loadable(addr, Len(bytes))
  BY StorableIsLoadable
<1>3. write.addr = addr /\ write.bytes = bytes
  OBVIOUS
<1> HIDE DEF write
<1>4. memory' = ShadowWrites(memory, << write >>)
  BY <1>2, <1>3, OneWrite DEF Writes, ShadowWrite
<1>5. push(name, << write >>) /\ halted' \in BOOLEAN /\ r0' \in Nat
  BY DEF Writes, write
<1>6. SparesRodata
  BY StoreSparesRodata DEF Writes, SparesRodata
<1> QED BY <1>1, <1>4, <1>5, <1>6, Zenon DEF Journaled

\* Bytes that can be loaded.
LEMMA BytesAtIsSeq ==
  ASSUME NEW image \in Image, NEW addr \in Nat, NEW n \in Nat, Loadable(addr, n)
  PROVE  BytesAt(image, addr, n) \in Seq(Byte) /\ Len(BytesAt(image, addr, n)) = n
<1>1. ASSUME NEW i \in 1 .. n PROVE image[addr + i - 1] \in Byte
  BY LoadableIsMapped DEF Image
<1>2. BytesAt(image, addr, n) \in [1 .. n -> Byte]
  BY <1>1 DEF BytesAt
<1> QED BY <1>2

LEMMA RemainderBounds ==
  \A x, d \in Nat : d # 0 => x % d \in 0 .. d - 1
OBVIOUS

\* An overlapping copy leaves bytes of its source, whichever way it runs.
LEMMA CopiedIsSeq ==
  ASSUME memory \in Image, NEW dst \in Nat, NEW src \in Nat, NEW n \in Nat,
         Loadable(src, n), NEW bytes \in Copied(dst, src, n)
  PROVE  bytes \in Seq(Byte) /\ Len(bytes) = n
<1> DEFINE d == IF dst > src THEN dst - src ELSE src - dst
           upwards == [i \in 1 .. n |-> memory[src + ((i - 1) % d)]]
           downwards == [i \in 1 .. n |-> memory[src + n - 1 - ((n - i) % d)]]
<1>1. \/ bytes = BytesAt(memory, src, n)
      \/ dst > src /\ Overlap(dst, src, n) /\ bytes = upwards
      \/ dst < src /\ Overlap(dst, src, n) /\ bytes = downwards
  BY DEF Copied
<1>2. CASE dst > src /\ Overlap(dst, src, n) /\ bytes = upwards
  <2>1. d \in Nat /\ d # 0 /\ d < n
    BY <1>2 DEF Overlap
  <2>2. ASSUME NEW i \in 1 .. n PROVE memory[src + ((i - 1) % d)] \in Byte
    <3>1. (i - 1) % d \in 0 .. d - 1
      <4> HIDE DEF d
      <4> QED BY <2>1, RemainderBounds
    <3> HIDE DEF d
    <3>2. src + ((i - 1) % d) \in Mapped
      BY <2>1, <3>1, LoadableIsMapped
    <3> QED BY <3>2 DEF Image
  <2>3. upwards \in [1 .. n -> Byte]
    <3> HIDE DEF d
    <3> QED BY <2>2
  <2> QED BY <1>2, <2>3
<1>3. CASE dst < src /\ Overlap(dst, src, n) /\ bytes = downwards
  <2>1. d \in Nat /\ d # 0 /\ d < n
    BY <1>3 DEF Overlap
  <2>2. ASSUME NEW i \in 1 .. n PROVE memory[src + n - 1 - ((n - i) % d)] \in Byte
    <3>1. (n - i) % d \in 0 .. d - 1
      <4> HIDE DEF d
      <4> QED BY <2>1, RemainderBounds
    <3> HIDE DEF d
    <3>2. src + n - 1 - ((n - i) % d) \in Mapped
      BY <2>1, <3>1, LoadableIsMapped
    <3> QED BY <3>2 DEF Image
  <2>3. downwards \in [1 .. n -> Byte]
    <3> HIDE DEF d
    <3> QED BY <2>2
  <2> QED BY <1>3, <2>3
<1> QED BY <1>1, <1>2, <1>3, BytesAtIsSeq

LEMMA AllocatedIsNat ==
  ASSUME SyscallsTypeOK, NEW size \in Nat PROVE Allocated(size) \in Nat
BY AllocatedFits DEF SyscallsTypeOK

LEMMA MemcpyIsJournaled ==
  ASSUME SyscallsTypeOK, NEW dst \in Nat, NEW src \in Nat, NEW n \in Nat, sol_memcpy_(dst, src, n)
  PROVE  Journaled /\ SparesRodata
<1>1. memory \in Image /\ halted \in BOOLEAN /\ r0 \in Nat /\ "sol_memcpy_" \in SyscallNames
  BY DEF SyscallsTypeOK, SyscallNames
<1>2. ASSUME Storable(dst, n), Loadable(src, n), NEW bytes \in Copied(dst, src, n),
             Writes("sol_memcpy_", dst, bytes)
      PROVE  Journaled /\ SparesRodata
  BY <1>1, <1>2, CopiedIsSeq, WritesIsJournaled
<1> QED BY <1>1, <1>2, LogsIsJournaled, FailsIsJournaled DEF sol_memcpy_

LEMMA MemmoveIsJournaled ==
  ASSUME SyscallsTypeOK, NEW dst \in Nat, NEW src \in Nat, NEW n \in Nat, sol_memmove_(dst, src, n)
  PROVE  Journaled /\ SparesRodata
<1>1. memory \in Image /\ halted \in BOOLEAN /\ r0 \in Nat /\ "sol_memmove_" \in SyscallNames
  BY DEF SyscallsTypeOK, SyscallNames
<1>2. ASSUME Storable(dst, n), Loadable(src, n),
             Writes("sol_memmove_", dst, BytesAt(memory, src, n))
      PROVE  Journaled /\ SparesRodata
  BY <1>1, <1>2, BytesAtIsSeq, WritesIsJournaled
<1> QED BY <1>1, <1>2, LogsIsJournaled, FailsIsJournaled DEF sol_memmove_

LEMMA MemsetIsJournaled ==
  ASSUME SyscallsTypeOK, NEW dst \in Nat, NEW val \in Nat, NEW n \in Nat, sol_memset_(dst, val, n)
  PROVE  Journaled /\ SparesRodata
<1>1. halted \in BOOLEAN /\ r0 \in Nat /\ "sol_memset_" \in SyscallNames
  BY DEF SyscallsTypeOK, SyscallNames
<1> DEFINE bytes == [i \in 1 .. n |-> val % 256]
<1>2. bytes \in Seq(Byte) /\ Len(bytes) = n
  <2>1. bytes \in [1 .. n -> Byte]
    BY DEF Byte
  <2> QED BY <2>1
<1>3. ASSUME Storable(dst, n), Writes("sol_memset_", dst, bytes)
      PROVE  Journaled /\ SparesRodata
  BY <1>1, <1>2, <1>3, WritesIsJournaled
<1> QED BY <1>1, <1>3, LogsIsJournaled, FailsIsJournaled DEF sol_memset_

LEMMA ComparisonIsSeq ==
  ASSUME NEW a, NEW b
  PROVE  Comparison(a, b) \in Seq(Byte) /\ Len(Comparison(a, b)) = 4
<1>1. Comparison(a, b) \in {<< 0, 0, 0, 0 >>, << 255, 255, 255, 255 >>, << 1, 0, 0, 0 >>}
  BY ONLY Zenon DEF Comparison
<1>2. ASSUME NEW bytes \in {<< 0, 0, 0, 0 >>, << 255, 255, 255, 255 >>, << 1, 0, 0, 0 >>}
      PROVE  bytes \in Seq(Byte) /\ Len(bytes) = 4
  <2>1. ASSUME NEW x \in Byte, NEW y \in Byte
        PROVE  << x, y, y, y >> \in Seq(Byte) /\ Len(<< x, y, y, y >>) = 4
    OBVIOUS
  <2>2. 0 \in Byte /\ 1 \in Byte /\ 255 \in Byte
    BY DEF Byte
  <2>3. \E x, y \in Byte : bytes = << x, y, y, y >>
    <3>1. CASE bytes = << 0, 0, 0, 0 >>
      BY ONLY <2>2, <3>1
    <3>2. CASE bytes = << 255, 255, 255, 255 >>
      BY ONLY <2>2, <3>2
    <3>3. CASE bytes = << 1, 0, 0, 0 >>
      BY ONLY <2>2, <3>3
    <3> QED BY <3>1, <3>2, <3>3
  <2> QED BY ONLY <2>1, <2>3, Zenon
<1> QED BY ONLY <1>1, <1>2, Zenon

LEMMA MemcmpIsJournaled ==
  ASSUME SyscallsTypeOK, NEW s1 \in Nat, NEW s2 \in Nat, NEW n \in Nat, NEW result \in Nat,
         sol_memcmp_(s1, s2, n, result)
  PROVE  Journaled /\ SparesRodata
<1>1. halted \in BOOLEAN /\ r0 \in Nat /\ "sol_memcmp_" \in SyscallNames
  BY DEF SyscallsTypeOK, SyscallNames
<1> DEFINE bytes == IF n = 0 THEN << 0, 0, 0, 0 >>
                    ELSE Comparison(BytesAt(memory, s1, n), BytesAt(memory, s2, n))
<1>2. bytes \in Seq(Byte) /\ Len(bytes) = 4
  <2>1. << 0, 0, 0, 0 >> \in Seq(Byte) /\ Len(<< 0, 0, 0, 0 >>) = 4
    BY DEF Byte
  <2> QED BY <2>1, ComparisonIsSeq
<1>3. ASSUME Storable(result, 4), Writes("sol_memcmp_", result, bytes)
      PROVE  Journaled /\ SparesRodata
  <2> HIDE DEF bytes
  <2> QED BY <1>1, <1>2, <1>3, WritesIsJournaled
<1> QED BY <1>1, <1>3, FailsIsJournaled DEF sol_memcmp_

\* Every syscall of a program.
SomeSyscall ==
  \/ LoggingSyscall
  \/ MemorySyscall
  \/ \E size \in AllocSizes, free_addr \in {0, HeapStart + 8} : AllocSyscall(size, free_addr)

LEMMA SyscallIsJournaled ==
  ASSUME SyscallsTypeOK, SomeSyscall
  PROVE  (Journaled \/ Unlogged) /\ SparesRodata
<1>1. halted \in BOOLEAN /\ memory \in Image
  BY DEF SyscallsTypeOK
<1>0. r0 \in Nat
  BY DEF SyscallsTypeOK
<1>2. CASE LoggingSyscall
  <2> USE LogsIsJournaled, FailsIsJournaled, <1>0, <1>1 DEF SyscallNames
  <2>1. ASSUME abort \/ sol_panic_ PROVE Journaled /\ SparesRodata
    BY <2>1 DEF abort, sol_panic_
  <2>2. ASSUME sol_log_64_ \/ sol_log_pubkey \/ sol_log_compute_units_ \/ sol_log_data
        PROVE  Journaled /\ SparesRodata
    BY <2>2 DEF sol_log_64_, sol_log_pubkey, sol_log_compute_units_, sol_log_data
  <2>3. ASSUME NEW ptr, NEW len, sol_log_(ptr, len)
        PROVE  (Journaled \/ Unlogged) /\ SparesRodata
    BY <2>3 DEF sol_log_, Fault, Unlogged, SparesRodata
  <2> QED BY <1>2, <2>1, <2>2, <2>3 DEF LoggingSyscall
<1>3. CASE MemorySyscall
  <2>1. PICK dst \in Addrs, n \in Sizes :
          \/ \E src \in Addrs :
               \/ sol_memcpy_(dst, src, n)
               \/ sol_memmove_(dst, src, n)
               \/ \E result \in StoreAddrs : sol_memcmp_(dst, src, n, result)
          \/ sol_memset_(dst, 258, n)
    BY <1>3 DEF MemorySyscall
  <2>2. dst \in Nat /\ n \in Nat /\ Addrs \subseteq Nat /\ StoreAddrs \subseteq Nat
    BY InputsType
  <2> QED
    BY <2>1, <2>2, MemcpyIsJournaled, MemmoveIsJournaled, MemcmpIsJournaled, MemsetIsJournaled
<1>4. ASSUME NEW size \in AllocSizes, NEW free_addr, AllocSyscall(size, free_addr)
      PROVE  Journaled /\ SparesRodata
  <2>1. << >> \in JournalEntry /\ Len(<< >>) <= 1 /\ "sol_alloc_free_" \in SyscallNames
    BY EmptySeq DEF JournalEntry, SyscallNames
  <2>2. memory' = ShadowWrites(memory, << >>)
    BY <1>4, NoWrite DEF AllocSyscall, sol_alloc_free_
  <2>3. r0' \in Nat
    <3>1. Allocated(size) \in Nat
      BY AllocatedIsNat, InputsType
    <3> QED BY <1>4, <3>1 DEF AllocSyscall, sol_alloc_free_
  <2> QED
    BY <1>1, <1>4, <2>1, <2>2, <2>3, Zenon
       DEF AllocSyscall, sol_alloc_free_, Journaled, SparesRodata
<1> QED BY <1>2, <1>3, <1>4 DEF SomeSyscall

\* Its registers are traced first.
LEMMA SyscallIsTraced ==
  ASSUME SomeSyscall PROVE Traced(CallImm)
BY Zenon DEF SomeSyscall, LoggingSyscall, MemorySyscall, AllocSyscall

----------------------------------------------------------------------------
(***************************************************************************)
(* Counting the syscalls among the first instructions.                     *)
(***************************************************************************)
LEMMA CountIsFinite ==
  ASSUME NEW s, NEW n \in Nat
  PROVE  IsFiniteSet({i \in 1 .. n : s[i].op = "call_imm"})
<1>1. IsFiniteSet(1 .. n)
  BY FS_Interval
<1>2. {i \in 1 .. n : s[i].op = "call_imm"} \in SUBSET (1 .. n)
  OBVIOUS
<1> QED BY <1>1, <1>2, FS_Subset, Zenon

LEMMA CountIsNat ==
  ASSUME NEW s, NEW n \in Nat
  PROVE  SyscallsAmong(s, n) \in Nat
<1>1. IsFiniteSet({i \in 1 .. n : s[i].op = "call_imm"})
  BY CountIsFinite
<1> QED BY <1>1, FS_CardinalityType DEF SyscallsAmong

LEMMA CountOfNone ==
  ASSUME NEW s PROVE SyscallsAmong(s, 0) = 0
<1>1. {i \in 1 .. 0 : s[i].op = "call_imm"} = {}
  OBVIOUS
<1> QED BY <1>1, FS_EmptySet DEF SyscallsAmong

LEMMA CountOfNext ==
  ASSUME NEW s, NEW n \in Nat
  PROVE  SyscallsAmong(s, n + 1) =
           IF s[n + 1].op = "call_imm" THEN SyscallsAmong(s, n) + 1 ELSE SyscallsAmong(s, n)
<1> DEFINE C(k) == {i \in 1 .. k : s[i].op = "call_imm"}
<1>1. IsFiniteSet(C(n)) /\ n + 1 \notin C(n)
  BY CountIsFinite
<1>2. C(n + 1) = IF s[n + 1].op = "call_imm" THEN C(n) \cup {n + 1} ELSE C(n)
  OBVIOUS
<1>3. Cardinality(C(n) \cup {n + 1}) = Cardinality(C(n)) + 1
  <2> HIDE DEF C
  <2> QED BY <1>1, FS_AddElement
<1>4. \A k : SyscallsAmong(s, k) = Cardinality(C(k))
  BY DEF SyscallsAmong
<1> HIDE DEF C
<1> QED BY <1>2, <1>3, <1>4, Zenon

LEMMA CountOfPrefix ==
  ASSUME NEW s, NEW t, NEW n \in Nat, \A i \in 1 .. n : s[i] = t[i]
  PROVE  SyscallsAmong(s, n) = SyscallsAmong(t, n)
<1>1. {i \in 1 .. n : s[i].op = "call_imm"} = {i \in 1 .. n : t[i].op = "call_imm"}
  BY Zenon
<1> QED BY <1>1, Zenon DEF SyscallsAmong

LEMMA Appended ==
  ASSUME NEW S, NEW s \in Seq(S), NEW x \in S, NEW t, t = Append(s, x)
  PROVE  /\ t \in Seq(S)
         /\ Len(s) \in Nat
         /\ Len(t) = Len(s) + 1
         /\ DOMAIN s = 1 .. Len(s)
         /\ DOMAIN t = 1 .. Len(s) + 1
         /\ \A i \in 1 .. Len(s) : t[i] = s[i]
         /\ t[Len(s) + 1] = x
BY AppendProperties, LenProperties

----------------------------------------------------------------------------
(***************************************************************************)
(* The inductive invariant.  Each image is the one before it with its      *)
(* instruction replayed: a store's bytes, or the journal entry with the    *)
(* number of the syscall.  So a replay that has consumed as many entries   *)
(* as it has passed syscalls is at the image of the next instruction.      *)
(***************************************************************************)
\* The memory after the first i instructions.
After(i) == IF i + 1 \in DOMAIN images THEN images[i + 1] ELSE memory

\* The i-th instruction did not end the program in an error.
CompletedBy(i) == i < Len(instructions) \/ ~ halted

\* What replaying the i-th instruction leaves.
Replayed(i) ==
  LET instruction == instructions[i]
  IN  IF instruction.op = "store"
        THEN ShadowWrite(images[i], instruction.addr, Stored(instruction))
        ELSE ShadowWrites(images[i], mem_writes[SyscallsAmong(instructions, i)])

ImageFollows(i) ==
  CompletedBy(i) =>
    /\ After(i) = Replayed(i)
    /\ SyscallsAmong(instructions, i) <= Len(mem_writes)

ImagesFollow ==
  /\ After(0) = InitialMemory
  /\ \A i \in DOMAIN instructions : ImageFollows(i)

ReplayFollows ==
  /\ ~ Executed => replayed = 0 /\ shadow = InitialMemory
  /\ CompletedBy(replayed) => shadow = After(replayed)
  /\ consumed = IF SyscallsAmong(instructions, replayed) <= Len(mem_writes)
                  THEN SyscallsAmong(instructions, replayed)
                  ELSE Len(mem_writes)

OneWriteEach == \A i \in DOMAIN mem_writes : Len(mem_writes[i]) <= 1

ReplayInv ==
  /\ TypeOK
  /\ JournalAligned
  /\ ImagesFollow
  /\ OneWriteEach
  /\ ReplayFollows

\* The typing facts the steps use.
LEMMA Types ==
  ASSUME TypeOK
  PROVE  /\ instructions \in Seq(Instruction) /\ images \in Seq(Image)
         /\ Len(instructions) \in Nat /\ Len(images) = Len(instructions)
         /\ DOMAIN instructions = 1 .. Len(instructions)
         /\ DOMAIN images = 1 .. Len(instructions)
         /\ mem_writes \in Seq(JournalEntry) /\ log \in Seq(SyscallNames)
         /\ Len(mem_writes) \in Nat /\ DOMAIN mem_writes = 1 .. Len(mem_writes)
         /\ memory \in Image /\ shadow \in Image
         /\ replayed \in 0 .. Len(instructions) /\ consumed \in 0 .. Len(mem_writes)
         /\ halted \in BOOLEAN /\ ended \in BOOLEAN
         /\ SyscallsTypeOK
BY LenProperties DEF TypeOK, SyscallsTypeOK

\* Recording one more instruction keeps what is known of the earlier ones, and
\* of the replay, which has not begun.
LEMMA TracedKeeps ==
  ASSUME ReplayInv, NEW instruction \in Instruction, Traced(instruction),
         NEW more \in Nat, Len(mem_writes') = Len(mem_writes) + more,
         \A i \in 1 .. Len(mem_writes) : mem_writes'[i] = mem_writes[i],
         halted' \in BOOLEAN
  PROVE  /\ After(0)' = InitialMemory
         /\ \A i \in 1 .. Len(instructions) : ImageFollows(i)'
         /\ ReplayFollows'
<1> DEFINE n == Len(instructions)
<1>0. TypeOK /\ ~ halted /\ ~ ended
  BY DEF ReplayInv, Traced
<1>1. /\ n \in Nat /\ Len(images) = n /\ Len(mem_writes) \in Nat
      /\ DOMAIN images = 1 .. n /\ DOMAIN instructions = 1 .. n
  BY <1>0, Types
<1>2. /\ Len(instructions') = n + 1
      /\ DOMAIN images' = 1 .. n + 1
      /\ \A i \in 1 .. n : instructions'[i] = instructions[i] /\ images'[i] = images[i]
      /\ images'[n + 1] = memory
  <2>1. /\ instructions' = Append(instructions, instruction) /\ images' = Append(images, memory)
        /\ instructions \in Seq(Instruction) /\ images \in Seq(Image) /\ memory \in Image
    BY <1>0, Types DEF Traced
  <2> QED BY <1>1, <2>1, Appended
<1>3. UNCHANGED << ended, shadow, replayed, consumed >>
  BY DEF Traced, replay_vars
<1>4. \A i \in 0 .. n : After(i)' = After(i)
  BY <1>1, <1>2 DEF After
<1>5. \A i \in 0 .. n : SyscallsAmong(instructions', i) = SyscallsAmong(instructions, i)
  BY <1>1, <1>2, CountOfPrefix
<1>6. \A i \in 0 .. n : SyscallsAmong(instructions, i) \in Nat
  BY <1>1, CountIsNat
<1>7. ASSUME NEW i \in 1 .. n PROVE ImageFollows(i)'
  <2>1. /\ After(i) = Replayed(i)
        /\ SyscallsAmong(instructions, i) <= Len(mem_writes)
    BY <1>0, <1>1 DEF ReplayInv, ImagesFollow, ImageFollows, CompletedBy
  <2>2. SyscallsAmong(instructions, i) # 0 \/ instructions[i].op = "store"
    <3>1. i - 1 \in Nat /\ i - 1 + 1 = i
      BY <1>1
    <3>2. SyscallsAmong(instructions, i) = IF instructions[i].op = "call_imm"
                                             THEN SyscallsAmong(instructions, i - 1) + 1
                                             ELSE SyscallsAmong(instructions, i - 1)
      BY <3>1, CountOfNext
    <3>3. SyscallsAmong(instructions, i - 1) \in Nat
      BY <3>1, CountIsNat
    <3>4. instructions[i].op \in {"call_imm", "store"}
      <4>1. instructions[i] \in Instruction
        BY <1>0, <1>1, Types, ElementOfSeq
      <4> QED BY <4>1 DEF Instruction
    <3> QED BY <3>2, <3>3, <3>4
  <2>3. Replayed(i)' = Replayed(i)
    <3>1. CASE instructions[i].op = "store"
      BY <1>2, <3>1 DEF Replayed, Stored
    <3>2. CASE instructions[i].op # "store"
      <4>1. SyscallsAmong(instructions, i) \in 1 .. Len(mem_writes)
        BY <1>1, <1>6, <2>1, <2>2, <3>2
      <4> QED BY <1>2, <1>5, <3>2, <4>1 DEF Replayed
    <3> QED BY <3>1, <3>2
  <2> QED BY <1>1, <1>2, <1>4, <1>5, <1>6, <2>1, <2>3 DEF ImageFollows
<1>8. ReplayFollows'
  <2>1. replayed = 0 /\ shadow = InitialMemory
    BY <1>0 DEF ReplayInv, ReplayFollows, Executed
  <2>2. After(0) = InitialMemory
    BY DEF ReplayInv, ImagesFollow
  <2>3. SyscallsAmong(instructions, 0) = 0 /\ SyscallsAmong(instructions', 0) = 0
    BY CountOfNone
  <2>4. consumed = 0
    BY <1>1, <2>1, <2>3 DEF ReplayInv, ReplayFollows
  <2>5. Len(mem_writes') >= 0
    BY <1>1
  <2> QED BY <1>1, <1>3, <1>4, <2>1, <2>2, <2>3, <2>4, <2>5 DEF ReplayFollows, CompletedBy
<1> QED BY <1>1, <1>4, <1>7, <1>8 DEF ReplayInv, ImagesFollow

\* A store that does not end the program leaves what replaying it leaves.
LEMMA StoreIsReplayed ==
  ASSUME TypeOK, NEW addr \in StoreAddrs, NEW value \in Registers, NEW size \in {1, 2, 4, 8},
         Store(addr, value, size)
  PROVE  /\ memory' \in Image /\ halted' \in BOOLEAN
         /\ \A a \in DOMAIN Rodata : memory'[a] = memory[a]
         /\ halted' \/ memory' = ShadowWrite(memory, addr, SubSeq(value, 1, size))
<1> DEFINE bytes == SubSeq(value, 1, size)
<1>1. bytes \in Seq(Byte) /\ Len(bytes) = size
  <2>1. value \in [1 .. 8 -> Byte]
    BY InputsType
  <2>2. bytes = [i \in 1 .. size |-> value[i]]
    BY <2>1
  <2> HIDE DEF bytes
  <2>3. bytes \in [1 .. size -> Byte]
    BY <2>1, <2>2
  <2> QED BY <2>3
<1>2. addr \in Nat /\ memory \in Image /\ halted \in BOOLEAN
  BY InputsType DEF TypeOK, SyscallsTypeOK
<1> HIDE DEF bytes
<1>3. CASE Storable(addr, size) /\ memory' = Patched(memory, addr, bytes) /\ UNCHANGED halted
  <2>1. memory' \in Image
    BY <1>1, <1>2, <1>3, PatchedIsImage
  <2>2. \A a \in DOMAIN Rodata : memory'[a] = memory[a]
    BY <1>1, <1>2, <1>3, StoreSparesRodata
  <2>3. memory' = ShadowWrite(memory, addr, bytes)
    BY <1>1, <1>3, StorableIsLoadable DEF ShadowWrite
  <2> QED BY <1>2, <1>3, <2>1, <2>2, <2>3 DEF bytes
<1>4. CASE halted' = TRUE /\ UNCHANGED memory
  BY <1>2, <1>4
<1> QED BY <1>3, <1>4 DEF Store, bytes

LEMMA StoreKeepsReplayInv ==
  ASSUME ReplayInv, NEW addr \in StoreAddrs, NEW value \in Registers, NEW size \in {1, 2, 4, 8},
         Store(addr, value, size), TypeOK'
  PROVE  ReplayInv'
<1>0. PICK n \in Nat : n = Len(instructions)
  BY Types DEF ReplayInv
<1> DEFINE instruction == [op |-> "store", addr |-> addr, value |-> value, size |-> size]
<1>1. TypeOK /\ ~ halted
  BY DEF ReplayInv, Store, Traced
<1>2. instruction \in Instruction /\ Traced(instruction)
  BY DEF Instruction, Store
<1>3. UNCHANGED << log, mem_writes >>
  BY DEF Store
<1>4. /\ n \in Nat /\ Len(mem_writes) \in Nat /\ Len(images) = n
      /\ instructions \in Seq(Instruction) /\ images \in Seq(Image) /\ memory \in Image
      /\ halted' \in BOOLEAN
  BY <1>0, <1>1, Types, StoreIsReplayed
<1>5. /\ instructions' = Append(instructions, instruction) /\ images' = Append(images, memory)
  BY <1>2 DEF Traced
<1> HIDE DEF instruction
<1>6. /\ Len(instructions') = n + 1 /\ DOMAIN instructions' = 1 .. n + 1
      /\ DOMAIN images' = 1 .. n + 1
      /\ \A i \in 1 .. n : instructions'[i] = instructions[i]
      /\ instructions'[n + 1] = instruction /\ images'[n + 1] = memory
  BY <1>0, <1>2, <1>4, <1>5, Appended
<1>7. /\ After(0)' = InitialMemory
      /\ \A i \in 1 .. n : ImageFollows(i)'
      /\ ReplayFollows'
  <2>1. /\ Len(mem_writes') = Len(mem_writes) + 0
        /\ \A i \in 1 .. Len(mem_writes) : mem_writes'[i] = mem_writes[i]
    BY <1>3, <1>4
  <2> QED BY <1>0, <1>2, <1>4, <2>1, TracedKeeps
<1>8. SyscallsAmong(instructions', n + 1) = SyscallsAmong(instructions, n)
  <2>1. SyscallsAmong(instructions', n) = SyscallsAmong(instructions, n)
    BY <1>4, <1>6, CountOfPrefix
  <2>2. instructions'[n + 1].op # "call_imm"
    BY <1>6 DEF instruction
  <2> QED BY <1>4, <2>1, <2>2, CountOfNext
<1>9. Len(mem_writes) = SyscallsAmong(instructions, n) /\ Len(log) = Len(mem_writes)
  BY <1>0, <1>1 DEF ReplayInv, JournalAligned, SyscallsExecuted
<1>10. ImageFollows(n + 1)'
  <2>1. ASSUME ~ halted' PROVE After(n + 1)' = Replayed(n + 1)'
    <3>1. memory' = ShadowWrite(memory, addr, SubSeq(value, 1, size))
      BY <1>1, <2>1, StoreIsReplayed
    <3>2. After(n + 1)' = memory'
      BY <1>4, <1>6 DEF After
    <3>3. Replayed(n + 1)' = ShadowWrite(memory, addr, SubSeq(value, 1, size))
      BY <1>6 DEF Replayed, Stored, instruction
    <3> QED BY <3>1, <3>2, <3>3
  <2> QED BY <1>3, <1>4, <1>6, <1>8, <1>9, <2>1 DEF ImageFollows, CompletedBy
<1>11. ImagesFollow'
  <2>1. \A i \in 1 .. n + 1 : i \in 1 .. n \/ i = n + 1
    BY <1>4
  <2> QED BY <1>6, <1>7, <1>10, <2>1 DEF ImagesFollow
<1>12. JournalAligned'
  BY <1>3, <1>6, <1>8, <1>9 DEF JournalAligned, SyscallsExecuted
<1>13. OneWriteEach'
  BY <1>3 DEF ReplayInv, OneWriteEach
<1> QED BY <1>7, <1>11, <1>12, <1>13 DEF ReplayInv

\* A syscall that does not end the program leaves what replaying its journal
\* entry leaves.
LEMMA SyscallKeepsReplayInv ==
  ASSUME ReplayInv, SomeSyscall, TypeOK'
  PROVE  ReplayInv'
<1>0. PICK n \in Nat : n = Len(instructions)
  BY Types DEF ReplayInv
<1>1. TypeOK /\ ~ halted /\ Traced(CallImm)
  BY SyscallIsTraced DEF ReplayInv, Traced
<1>2. CallImm \in Instruction /\ CallImm.op = "call_imm"
  BY DEF Instruction, CallImm
<1>3. Journaled \/ Unlogged
  BY <1>1, Types, SyscallIsJournaled
<1>4. /\ n \in Nat /\ Len(mem_writes) \in Nat /\ Len(images) = n
      /\ instructions \in Seq(Instruction) /\ images \in Seq(Image) /\ memory \in Image
      /\ mem_writes \in Seq(JournalEntry) /\ log \in Seq(SyscallNames)
      /\ DOMAIN mem_writes = 1 .. Len(mem_writes)
  BY <1>0, <1>1, Types
<1>5. halted' \in BOOLEAN
  BY DEF TypeOK, SyscallsTypeOK
<1>6. /\ Len(instructions') = n + 1 /\ DOMAIN instructions' = 1 .. n + 1
      /\ DOMAIN images' = 1 .. n + 1
      /\ \A i \in 1 .. n : instructions'[i] = instructions[i]
      /\ instructions'[n + 1].op = "call_imm" /\ images'[n + 1] = memory
  <2>1. instructions' = Append(instructions, CallImm) /\ images' = Append(images, memory)
    BY <1>1 DEF Traced
  <2> PICK code : code = instructions'
    OBVIOUS
  <2> PICK states : states = images'
    OBVIOUS
  <2>2. /\ Len(code) = n + 1 /\ DOMAIN code = 1 .. n + 1
        /\ \A i \in 1 .. n : code[i] = instructions[i]
        /\ code[n + 1] = CallImm
    BY ONLY <1>0, <1>2, <1>4, <2>1, code = instructions', Appended
  <2>3. DOMAIN states = 1 .. n + 1 /\ states[n + 1] = memory
    BY ONLY <1>0, <1>4, <2>1, states = images', Appended
  <2> QED BY ONLY <1>2, <2>2, <2>3, code = instructions', states = images', Zenon
<1>7. SyscallsAmong(instructions', n + 1) = SyscallsAmong(instructions, n) + 1
  <2>1. SyscallsAmong(instructions', n) = SyscallsAmong(instructions, n)
    BY <1>4, <1>6, CountOfPrefix
  <2> QED BY <1>4, <1>6, <2>1, CountOfNext
<1>8. Len(mem_writes) = SyscallsAmong(instructions, n) /\ Len(log) = Len(mem_writes)
  BY <1>0, <1>1 DEF ReplayInv, JournalAligned, SyscallsExecuted
<1>9. \A i \in 1 .. n + 1 : i \in 1 .. n \/ i = n + 1
  BY <1>4
<1>10. CASE Unlogged
  <2>1. halted' /\ UNCHANGED << memory, log, mem_writes >>
    BY <1>10 DEF Unlogged
  <2>2. /\ After(0)' = InitialMemory
        /\ \A i \in 1 .. n : ImageFollows(i)'
        /\ ReplayFollows'
    <3>1. /\ Len(mem_writes') = Len(mem_writes) + 0
          /\ \A i \in 1 .. Len(mem_writes) : mem_writes'[i] = mem_writes[i]
      BY <2>1, <1>4
    <3> QED BY <1>0, <1>1, <1>2, <1>4, <1>5, <3>1, TracedKeeps
  <2>3. ImageFollows(n + 1)'
    BY <1>4, <1>6, <2>1 DEF ImageFollows, CompletedBy
  <2>4. ImagesFollow'
    BY <1>6, <1>9, <2>2, <2>3 DEF ImagesFollow
  <2>5. JournalAligned'
    BY <1>6, <1>7, <1>8, <2>1 DEF JournalAligned, SyscallsExecuted
  <2>6. OneWriteEach'
    BY <2>1 DEF ReplayInv, OneWriteEach
  <2> QED BY <2>2, <2>4, <2>5, <2>6 DEF ReplayInv
<1>11. CASE Journaled
  <2>1. PICK name \in SyscallNames, writes \in JournalEntry :
          /\ push(name, writes)
          /\ Len(writes) <= 1
          /\ memory' = ShadowWrites(memory, writes)
    BY <1>11 DEF Journaled
  <2>2. /\ Len(mem_writes') = Len(mem_writes) + 1
        /\ DOMAIN mem_writes' = 1 .. Len(mem_writes) + 1
        /\ \A i \in 1 .. Len(mem_writes) : mem_writes'[i] = mem_writes[i]
        /\ mem_writes'[Len(mem_writes) + 1] = writes
    BY <1>4, <2>1, Appended DEF push
  <2>3. Len(log') = Len(log) + 1
    BY <1>4, <2>1, Appended DEF push
  <2>4. /\ After(0)' = InitialMemory
        /\ \A i \in 1 .. n : ImageFollows(i)'
        /\ ReplayFollows'
    BY <1>0, <1>1, <1>2, <1>4, <1>5, <2>2, TracedKeeps
  <2>5. ImageFollows(n + 1)'
    <3>1. After(n + 1)' = memory'
      BY <1>4, <1>6 DEF After
    <3>2. Replayed(n + 1)' = ShadowWrites(memory, writes)
      BY <1>6, <1>7, <1>8, <2>2 DEF Replayed
    <3> QED BY <1>7, <1>8, <2>1, <2>2, <1>4, <3>1, <3>2 DEF ImageFollows
  <2>6. ImagesFollow'
    BY <1>6, <1>9, <2>4, <2>5 DEF ImagesFollow
  <2>7. JournalAligned'
    BY <1>6, <1>7, <1>8, <2>2, <2>3 DEF JournalAligned, SyscallsExecuted
  <2>8. OneWriteEach'
    <3>1. \A i \in 1 .. Len(mem_writes) + 1 : i \in 1 .. Len(mem_writes) \/ i = Len(mem_writes) + 1
      BY <1>4
    <3> QED BY <1>4, <2>1, <2>2, <3>1 DEF ReplayInv, OneWriteEach
  <2> QED BY <2>4, <2>6, <2>7, <2>8 DEF ReplayInv
<1> QED BY <1>3, <1>10, <1>11

----------------------------------------------------------------------------
(***************************************************************************)
(* The step of each action, and the theorems.                              *)
(***************************************************************************)
LEMMA TracedIsTyped ==
  ASSUME TypeOK, NEW instruction \in Instruction, Traced(instruction), Len(mem_writes') >= Len(mem_writes)
  PROVE  /\ instructions' \in Seq(Instruction) /\ images' \in Seq(Image)
         /\ Len(instructions') = Len(images')
         /\ ended' \in BOOLEAN /\ shadow' \in Image
         /\ replayed' \in 0 .. Len(instructions')
         /\ Len(mem_writes') \in Nat => consumed' \in 0 .. Len(mem_writes')
<1>1. /\ instructions \in Seq(Instruction) /\ images \in Seq(Image) /\ memory \in Image
      /\ Len(instructions) \in Nat /\ Len(images) = Len(instructions) /\ Len(mem_writes) \in Nat
  BY Types
<1>2. /\ instructions' = Append(instructions, instruction) /\ images' = Append(images, memory)
      /\ UNCHANGED << ended, shadow, replayed, consumed >>
  BY DEF Traced, replay_vars
<1>3. /\ instructions' \in Seq(Instruction) /\ images' \in Seq(Image)
      /\ Len(instructions') = Len(instructions) + 1 /\ Len(images') = Len(instructions) + 1
  BY <1>1, <1>2, Appended
<1>4. /\ ended \in BOOLEAN /\ shadow \in Image
      /\ replayed \in 0 .. Len(instructions) /\ consumed \in 0 .. Len(mem_writes)
  BY Types
<1> QED BY <1>1, <1>2, <1>3, <1>4

LEMMA SyscallIsTyped ==
  ASSUME TypeOK, SomeSyscall, bump_pos' \in HeapStart .. HeapStart + HeapLen
  PROVE  TypeOK'
<1>1. /\ mem_writes \in Seq(JournalEntry) /\ log \in Seq(SyscallNames) /\ memory \in Image
      /\ SyscallsTypeOK /\ Len(mem_writes) \in Nat
  BY Types
<1>2. Traced(CallImm) /\ CallImm \in Instruction
  BY SyscallIsTraced DEF Instruction, CallImm
<1>3. CASE Unlogged
  <2>1. SyscallsTypeOK'
    BY <1>1, <1>3 DEF Unlogged, SyscallsTypeOK
  <2>2. mem_writes' = mem_writes
    BY <1>3 DEF Unlogged
  <2> QED BY <1>1, <1>2, <2>1, <2>2, TracedIsTyped DEF TypeOK
<1>4. CASE Journaled
  <2>1. PICK name \in SyscallNames, writes \in JournalEntry :
          /\ push(name, writes)
          /\ Len(writes) <= 1
          /\ memory' = ShadowWrites(memory, writes)
          /\ halted' \in BOOLEAN
          /\ r0' \in Nat
    BY <1>4 DEF Journaled
  <2>2. /\ log' \in Seq(SyscallNames) /\ mem_writes' \in Seq(JournalEntry)
        /\ Len(mem_writes') = Len(mem_writes) + 1
    BY <1>1, <2>1, Appended DEF push
  <2>3. memory' \in Image
    BY <1>1, <2>1, ShadowWritesIsImage
  <2>4. SyscallsTypeOK'
    BY <2>1, <2>2, <2>3 DEF SyscallsTypeOK
  <2> QED BY <1>1, <1>2, <2>2, <2>4, TracedIsTyped DEF TypeOK
<1> QED BY <1>1, <1>3, <1>4, SyscallIsJournaled

LEMMA StoreIsTyped ==
  ASSUME TypeOK, NEW addr \in StoreAddrs, NEW value \in Registers, NEW size \in {1, 2, 4, 8},
         Store(addr, value, size)
  PROVE  TypeOK'
<1> DEFINE instruction == [op |-> "store", addr |-> addr, value |-> value, size |-> size]
<1>1. instruction \in Instruction /\ Traced(instruction)
  BY DEF Instruction, Store
<1> HIDE DEF instruction
<1>2. UNCHANGED << log, mem_writes, bump_pos, r0 >> /\ memory' \in Image /\ halted' \in BOOLEAN
  BY StoreIsReplayed DEF Store
<1>3. SyscallsTypeOK /\ Len(mem_writes) \in Nat
  BY Types
<1>4. SyscallsTypeOK'
  BY <1>2, <1>3 DEF SyscallsTypeOK
<1>5. Len(mem_writes') = Len(mem_writes)
  BY <1>2
<1> QED BY <1>1, <1>3, <1>4, <1>5, TracedIsTyped DEF TypeOK

\* The writes of an instruction are numbers and bytes.
LEMMA ReplayedIsImage ==
  ASSUME TypeOK, NEW i \in 1 .. Len(instructions), instructions[i].op = "store"
  PROVE  ShadowWrite(shadow, instructions[i].addr, Stored(instructions[i])) \in Image
<1>1. instructions[i] \in Instruction
  BY Types, ElementOfSeq
<1> DEFINE instruction == instructions[i]
<1>0. instruction \in [op : {"store"}, addr : StoreAddrs, value : Registers, size : {1, 2, 4, 8}]
  BY <1>1 DEF Instruction
<1> HIDE DEF instruction
<1>2. instruction.addr \in Nat /\ instruction.value \in [1 .. 8 -> Byte] /\ instruction.size \in 1 .. 8
  <2>1. instruction.addr \in StoreAddrs /\ instruction.value \in Registers
        /\ instruction.size \in {1, 2, 4, 8}
    BY <1>0
  <2>2. StoreAddrs \subseteq Nat /\ Registers \subseteq [1 .. 8 -> Byte]
    BY InputsType
  <2>3. \A size \in {1, 2, 4, 8} : size \in 1 .. 8
    OBVIOUS
  <2> QED BY <2>1, <2>2, <2>3, Zenon
<1>3. Stored(instruction) \in Seq(Byte)
  <2>1. Stored(instruction) = [k \in 1 .. instruction.size |-> instruction.value[k]]
    BY <1>2 DEF Stored
  <2> PICK bytes : bytes = Stored(instruction)
    OBVIOUS
  <2> PICK size \in Nat, value \in [1 .. 8 -> Byte] :
        size = instruction.size /\ value = instruction.value /\ size \in 1 .. 8
    BY ONLY <1>2
  <2>2. bytes = [k \in 1 .. size |-> value[k]]
    BY ONLY <2>1, bytes = Stored(instruction), size = instruction.size,
            value = instruction.value, Zenon
  <2>3. bytes \in [1 .. size -> Byte]
    BY ONLY <2>2, size \in 1 .. 8, value \in [1 .. 8 -> Byte]
  <2>4. bytes \in Seq(Byte)
    BY ONLY <2>3, size \in Nat, SeqDef
  <2> QED BY <2>4
<1> QED BY <1>2, <1>3, Types, ShadowWriteIsImage DEF instruction

\* One step of the replay goes from one image to the next.
LEMMA ReplayKeepsReplayInv ==
  ASSUME ReplayInv, Replay
  PROVE  ReplayInv'
<1>1. /\ TypeOK /\ JournalAligned /\ ImagesFollow /\ OneWriteEach /\ ReplayFollows
      /\ UNCHANGED << syscall_vars, program_vars >>
      /\ replayed' = replayed + 1 /\ Executed /\ replayed < Len(instructions)
  BY DEF ReplayInv, Replay
<1>2. PICK i \in 1 .. Len(instructions) : i = replayed + 1
  BY <1>1, Types
<1>3. /\ UNCHANGED << memory, log, mem_writes, bump_pos, r0, halted >>
      /\ UNCHANGED << instructions, images, blocks, program_pos, ended >>
  BY <1>1 DEF syscall_vars, program_vars
<1>4. /\ Len(instructions) \in Nat /\ Len(mem_writes) \in Nat /\ shadow \in Image
      /\ consumed \in 0 .. Len(mem_writes) /\ replayed \in Nat
      /\ DOMAIN instructions = 1 .. Len(instructions) /\ DOMAIN images = 1 .. Len(instructions)
      /\ mem_writes \in Seq(JournalEntry) /\ DOMAIN mem_writes = 1 .. Len(mem_writes)
  BY <1>1, Types
<1> DEFINE count(k) == SyscallsAmong(instructions, k)
<1>5. /\ count(i) = IF instructions[i].op = "call_imm" THEN count(replayed) + 1 ELSE count(replayed)
      /\ count(replayed) \in Nat
  BY <1>2, <1>4, CountOfNext, CountIsNat
<1>6. shadow = After(replayed) /\ After(replayed) = images[i]
  BY <1>1, <1>2, <1>4 DEF ReplayFollows, CompletedBy, After
<1>7. consumed = IF count(replayed) <= Len(mem_writes) THEN count(replayed) ELSE Len(mem_writes)
  BY <1>1 DEF ReplayFollows
<1>8. ImageFollows(i)
  BY <1>1, <1>4 DEF ImagesFollow
<1> HIDE DEF count
<1>9. /\ shadow' \in Image
      /\ consumed' = IF count(i) <= Len(mem_writes) THEN count(i) ELSE Len(mem_writes)
      /\ CompletedBy(i) => shadow' = Replayed(i)
  <2>1. CASE /\ instructions[i].op = "store"
             /\ shadow' = ShadowWrite(shadow, instructions[i].addr, Stored(instructions[i]))
             /\ UNCHANGED consumed
    <3>1. shadow' \in Image
      BY <1>1, <2>1, ReplayedIsImage
    <3>2. count(i) = count(replayed)
      BY <1>5, <2>1
    <3>3. shadow' = Replayed(i)
      BY <1>6, <2>1 DEF Replayed
    <3> QED BY <1>7, <2>1, <3>1, <3>2, <3>3
  <2>2. CASE /\ instructions[i].op = "call_imm"
             /\ consumed < Len(mem_writes)
             /\ shadow' = ShadowWrites(shadow, mem_writes[consumed + 1])
             /\ consumed' = consumed + 1
    <3>1. count(i) = consumed + 1 /\ count(i) \in 1 .. Len(mem_writes)
      <4>1. \A c, m, k \in Nat : k < m /\ k = (IF c <= m THEN c ELSE m) => c = k /\ c + 1 \in 1 .. m
        OBVIOUS
      <4>2. consumed \in Nat
        BY <1>4
      <4>3. consumed = count(replayed) /\ count(replayed) + 1 \in 1 .. Len(mem_writes)
        BY <1>4, <1>5, <1>7, <2>2, <4>1, <4>2
      <4> QED BY <1>5, <2>2, <4>3
    <3>2. shadow' = Replayed(i)
      BY <1>6, <2>2, <3>1 DEF Replayed, count
    <3>3. mem_writes[consumed + 1] \in JournalEntry /\ Len(mem_writes[consumed + 1]) <= 1
      BY <1>1, <1>4, <3>1, ElementOfSeq DEF OneWriteEach
    <3>4. shadow' \in Image
      BY <1>4, <2>2, <3>3, ShadowWritesIsImage
    <3> QED BY <1>4, <2>2, <3>1, <3>2, <3>4
  <2>3. CASE /\ instructions[i].op = "call_imm"
             /\ consumed = Len(mem_writes)
             /\ UNCHANGED << shadow, consumed >>
    <3>1. count(i) > Len(mem_writes)
      BY <1>4, <1>5, <1>7, <2>3
    <3>2. ~ CompletedBy(i)
      BY <1>4, <1>5, <1>8, <3>1 DEF ImageFollows, count
    <3> QED BY <1>4, <1>5, <2>3, <3>1, <3>2
  <2> QED BY <1>2, <2>1, <2>2, <2>3 DEF Replay
<1>10. replayed' = i
  BY <1>1, <1>2
<1>11. After(i)' = After(i) /\ CompletedBy(i)' = CompletedBy(i)
  BY <1>3 DEF After, CompletedBy
<1>12. ReplayFollows'
  <2>1. CompletedBy(i) => shadow' = After(i)
    BY <1>8, <1>9 DEF ImageFollows
  <2>2. SyscallsAmong(instructions', replayed') = count(i)
    BY <1>3, <1>10 DEF count
  <2>3. CompletedBy(replayed)' = CompletedBy(i) /\ After(replayed)' = After(i)
    BY <1>3, <1>10 DEF CompletedBy, After
  <2>4. Executed'
    BY <1>1, <1>3 DEF Executed
  <2> QED BY <1>3, <1>9, <2>1, <2>2, <2>3, <2>4 DEF ReplayFollows
<1>13. TypeOK'
  <2>1. SyscallsTypeOK'
    BY <1>1, <1>3 DEF TypeOK, SyscallsTypeOK
  <2>2. consumed' \in 0 .. Len(mem_writes') /\ replayed' \in 0 .. Len(instructions')
    <3>1. count(i) \in Nat
      BY <1>4, <1>5
    <3> QED BY <1>2, <1>3, <1>4, <1>9, <1>10, <3>1
  <2> QED BY <1>1, <1>3, <1>9, <2>1, <2>2 DEF TypeOK
<1>14. JournalAligned' /\ OneWriteEach'
  BY <1>1, <1>3 DEF JournalAligned, SyscallsExecuted, OneWriteEach
<1>15. ImagesFollow'
  BY <1>1, <1>3 DEF ImagesFollow, ImageFollows, CompletedBy, After, Replayed
<1> QED BY <1>12, <1>13, <1>14, <1>15 DEF ReplayInv

LEMMA ReplayInvInit ==
  ASSUME Init PROVE ReplayInv
<1>1. TypeOK
  <2>1. /\ memory = InitialMemory /\ log = << >> /\ mem_writes = << >> /\ r0 = 0
        /\ bump_pos = HeapStart + HeapLen /\ halted = FALSE
        /\ instructions = << >> /\ images = << >> /\ shadow = InitialMemory
        /\ replayed = 0 /\ consumed = 0 /\ ended = FALSE
    BY DEF Init, SyscallsInit
  <2>2. \A S : << >> \in Seq(S) /\ Len(<< >>) = 0
    BY EmptySeq
  <2>3. HeapStart + HeapLen \in HeapStart .. HeapStart + HeapLen
    BY HeapType
  <2>4. 0 \in Nat /\ 0 \in 0 .. 0
    OBVIOUS
  <2>5. SyscallsTypeOK
    BY <2>1, <2>2, <2>3, <2>4, InitialMemoryIsImage, Zenon DEF SyscallsTypeOK
  <2> QED BY <2>1, <2>2, <2>4, <2>5, InitialMemoryIsImage, Zenon DEF TypeOK
<1>2. SyscallsAmong(instructions, 0) = 0
  BY CountOfNone
<1>3. Len(instructions) = 0 /\ Len(mem_writes) = 0 /\ Len(log) = 0
  BY DEF Init, SyscallsInit
<1>4. JournalAligned
  BY <1>2, <1>3 DEF JournalAligned, SyscallsExecuted
<1>5. After(0) = InitialMemory /\ DOMAIN instructions = {} /\ DOMAIN mem_writes = {}
  BY DEF Init, SyscallsInit, After
<1>6. ImagesFollow /\ OneWriteEach
  BY <1>5 DEF ImagesFollow, OneWriteEach
<1>7. ReplayFollows
  BY <1>2, <1>3, <1>5 DEF Init, SyscallsInit, ReplayFollows
<1> QED BY <1>1, <1>4, <1>6, <1>7 DEF ReplayInv

LEMMA ExitKeepsReplayInv ==
  ASSUME ReplayInv, Exit PROVE ReplayInv'
<1>1. /\ UNCHANGED << memory, log, mem_writes, bump_pos, r0, halted >>
      /\ UNCHANGED << instructions, images, blocks, program_pos, shadow, replayed, consumed >>
      /\ ended' = TRUE
  BY DEF Exit, syscall_vars, replay_vars
<1>2. TypeOK'
  BY <1>1 DEF ReplayInv, TypeOK, SyscallsTypeOK
<1>3. JournalAligned' /\ OneWriteEach'
  BY <1>1 DEF ReplayInv, JournalAligned, SyscallsExecuted, OneWriteEach
<1>4. ImagesFollow'
  BY <1>1 DEF ReplayInv, ImagesFollow, ImageFollows, CompletedBy, After, Replayed
<1>5. ReplayFollows'
  BY <1>1 DEF ReplayInv, ReplayFollows, CompletedBy, After, Executed
<1> QED BY <1>2, <1>3, <1>4, <1>5 DEF ReplayInv

LEMMA StutterKeepsReplayInv ==
  ASSUME ReplayInv, UNCHANGED vars PROVE ReplayInv'
BY DEF vars, syscall_vars, program_vars, replay_vars, ReplayInv, TypeOK, SyscallsTypeOK,
       JournalAligned, SyscallsExecuted, OneWriteEach, ImagesFollow, ImageFollows, CompletedBy,
       After, Replayed, ReplayFollows, Executed

LEMMA NextCases ==
  ASSUME [Next]_vars
  PROVE  \/ \E addr \in StoreAddrs, value \in Registers, size \in {1, 2, 4, 8} :
              Store(addr, value, size)
         \/ SomeSyscall \/ Exit \/ Replay \/ UNCHANGED vars
BY Zenon DEF Next, SomeSyscall

LEMMA ReplayInvStep ==
  ASSUME ReplayInv, BlocksInv, [Next]_vars PROVE ReplayInv'
<1>1. bump_pos' \in HeapStart .. HeapStart + HeapLen
  BY BlocksStep DEF BlocksInv
<1>2. CASE SomeSyscall
  BY <1>1, <1>2, SyscallIsTyped, SyscallKeepsReplayInv DEF ReplayInv
<1>3. ASSUME NEW addr \in StoreAddrs, NEW value \in Registers, NEW size \in {1, 2, 4, 8},
             Store(addr, value, size)
      PROVE  ReplayInv'
  <2>1. TypeOK'
    BY <1>3, StoreIsTyped DEF ReplayInv
  <2> QED BY <1>3, <2>1, StoreKeepsReplayInv
<1> QED
  BY <1>2, <1>3, ExitKeepsReplayInv, ReplayKeepsReplayInv, StutterKeepsReplayInv, NextCases

LEMMA ReplayInvariant ==
  Spec => [](ReplayInv /\ BlocksInv)
<1>1. Init => ReplayInv /\ BlocksInv
  BY ReplayInvInit, BlocksInit
<1>2. ReplayInv /\ BlocksInv /\ [Next]_vars => (ReplayInv /\ BlocksInv)'
  BY ReplayInvStep, BlocksStep
<1> QED BY <1>1, <1>2, PTL DEF Spec

\* Memory, shadow, journal and cursors keep their types.
THEOREM GuestReplayTypeOK ==
  Spec => []TypeOK
<1>1. ReplayInv => TypeOK
  BY DEF ReplayInv
<1> QED BY <1>1, ReplayInvariant, PTL

\* The n-th journal entry is that of the n-th syscall.
THEOREM JournalIsAligned ==
  Spec => []JournalAligned
<1>1. ReplayInv => JournalAligned
  BY DEF ReplayInv
<1> QED BY <1>1, ReplayInvariant, PTL

\* The replay shows before each instruction what the program had in memory,
\* byte by byte, for every layout, width, overlap and write out of bounds.
THEOREM ReplayExact ==
  Spec => []ReplayIsExact
<1>1. ASSUME ReplayInv PROVE ReplayIsExact
  <2>1. /\ replayed \in 0 .. Len(instructions) /\ Len(instructions) \in Nat
        /\ DOMAIN images = 1 .. Len(instructions) /\ halted \in BOOLEAN
    BY <1>1, Types DEF ReplayInv
  <2>2. CompletedBy(replayed) => shadow = After(replayed)
    BY <1>1 DEF ReplayInv, ReplayFollows
  <2>3. CASE replayed < Len(instructions)
    BY <2>1, <2>2, <2>3 DEF ReplayIsExact, CompletedBy, After
  <2>4. CASE replayed = Len(instructions)
    BY <2>1, <2>2, <2>4 DEF ReplayIsExact, CompletedBy, After
  <2> QED BY <2>1, <2>3, <2>4
<1> QED BY <1>1, ReplayInvariant, PTL

\* No store and no syscall changes read-only data.
THEOREM RodataStays ==
  Spec => []RodataKept
<1>1. Init => RodataKept
  BY HeapType DEF Init, SyscallsInit, InitialMemory, RodataKept
<1>2. ASSUME RodataKept, ReplayInv, [Next]_vars PROVE RodataKept'
  <2>1. \A a \in DOMAIN Rodata : memory'[a] = memory[a]
    <3>1. TypeOK /\ SyscallsTypeOK
      BY <1>2, Types DEF ReplayInv
    <3>2. CASE SomeSyscall
      BY <3>1, <3>2, SyscallIsJournaled DEF SparesRodata
    <3>3. CASE Exit \/ Replay \/ UNCHANGED vars
      BY <3>3 DEF Exit, Replay, vars, syscall_vars
    <3> QED BY <1>2, <3>1, <3>2, <3>3, StoreIsReplayed, NextCases
  <2> QED BY <1>2, <2>1 DEF RodataKept
<1> QED BY <1>1, <1>2, ReplayInvariant, PTL DEF Spec
=============================================================================
