---------------------------- MODULE GuestMemory ----------------------------
(***************************************************************************)
(* The memory of a guest program as bytes in regions, seen from two sides: *)
(* the VM's MemoryMapping (the `solana_sbpf` crate), which the syscall     *)
(* handlers go through, and the ShadowMemory the recorder replays          *)
(* (src/src/sbf_memory.rs).                                                *)
(***************************************************************************)
EXTENDS Integers, Sequences

CONSTANT Regions  \* a sequence of [start, len, writable] records

ASSUME RegionsType ==
  /\ Regions \in Seq([start : Nat, len : Nat, writable : BOOLEAN])
  /\ \A i, j \in DOMAIN Regions :
       i < j => Regions[i].start + Regions[i].len < Regions[j].start

Byte == 0 .. 255

Addresses(region) == region.start .. region.start + region.len - 1

Mapped == UNION {Addresses(Regions[i]) : i \in DOMAIN Regions}

Image == [Mapped -> Byte]

\* `len` bytes at `addr` lie inside a region.
Within(region, addr, len) ==
  region.start <= addr /\ addr + len <= region.start + region.len

Loadable(addr, len) == \E i \in DOMAIN Regions : Within(Regions[i], addr, len)

\* Defect: a mapping for a store is requested as one for a load.
StorableAnywhere(addr, len) == Loadable(addr, len)

Storable(addr, len) ==
  \E i \in DOMAIN Regions : Regions[i].writable /\ Within(Regions[i], addr, len)

BytesAt(image, addr, len) == [i \in 1 .. len |-> image[addr + i - 1]]

Patched(image, addr, bytes) ==
  [a \in Mapped |-> IF a \in addr .. addr + Len(bytes) - 1 THEN bytes[a - addr + 1]
                                                         ELSE image[a]]

----------------------------------------------------------------------------
\* ShadowMemory::write: dropped unless the bytes lie inside a region, of
\* whichever kind.
ShadowWrite(shadow, addr, bytes) ==
  IF Loadable(addr, Len(bytes)) THEN Patched(shadow, addr, bytes) ELSE shadow

\* A journal entry, write by write.
ShadowWrites(shadow, writes) ==
  LET after[i \in 0 .. Len(writes)] ==
        IF i = 0 THEN shadow ELSE ShadowWrite(after[i - 1], writes[i].addr, writes[i].bytes)
  IN  after[Len(writes)]
=============================================================================
