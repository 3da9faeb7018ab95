------------------------------ MODULE IpcRing ------------------------------
(***************************************************************************)
(* The byte ring shared by the ROM stub and the QEMU doorbell device:      *)
(*                                                                         *)
(*    { u32 head; u32 tail; u32 rsvd[2]; u8 data[HALO_BLE_RING_DATA]; }    *)
(*                                                                         *)
(* head and tail are free-running 32-bit byte counters, the slot of a      *)
(* counter is its value masked with HALO_BLE_RING_DATA-1; the producer     *)
(* advances head and the consumer tail.  Both directions (host to guest,   *)
(* guest to host) and both implementations (halo_ble.c on the host,        *)
(* stub_ipc.c in the guest) use this arithmetic, so it stands alone here   *)
(* and its lemmas are proved once, in DoorbellLemmas.                      *)
(*                                                                         *)
(* A byte is a "cell", a value that says which byte of which frame it is;  *)
(* the model never looks inside a payload.                                 *)
(***************************************************************************)
EXTENDS Integers, Sequences

CONSTANTS
  RingData,    (* HALO_BLE_RING_DATA, the number of data bytes            *)
  CounterMod   (* the modulus of the head and tail counters: 2^32         *)

(***************************************************************************)
(* 0x2000 divides 2^32.  That is what lets the mask of a wrapped counter   *)
(* name the slot the unwrapped counter would have named.  They differ, or  *)
(* a full ring would look empty.                                           *)
(***************************************************************************)
ASSUME RingAssumption ==
  /\ RingData \in Nat \ {0}
  /\ CounterMod \in Nat \ {0}
  /\ CounterMod % RingData = 0
  /\ CounterMod > RingData

Counter == 0 .. CounterMod - 1
Slots   == 0 .. RingData - 1

(* head - tail in uint32_t arithmetic: the bytes written and not yet read. *)
Used(head, tail) ==
  IF head >= tail THEN head - tail ELSE head - tail + CounterMod

(* Mutant: one byte too many is thought free.                              *)
SpaceOffByOne(head, tail) == RingData - Used(head, tail) + 1

(* The bytes the producer may still write.                                 *)
Space(head, tail) == RingData - Used(head, tail)

(* Mutant: a counter that does not wrap where the other side's does.       *)
AdvanceUnwrapped(counter, n) == counter + n

(* counter + n in uint32_t arithmetic, for n at most the ring's size.      *)
Advance(counter, n) ==
  IF counter + n < CounterMod THEN counter + n ELSE counter + n - CounterMod

(* counter & (HALO_BLE_RING_DATA - 1)                                      *)
Slot(counter) == counter % RingData

(* The data array after the byte loop that stores cells from head on.      *)
Put(data, head, cells) ==
  [s \in Slots |->
     LET offset == (s - head) % RingData
     IN  IF offset < Len(cells) THEN cells[offset + 1] ELSE data[s]]

(* What the byte loop that loads n cells from tail on returns.             *)
Get(data, tail, n) ==
  [i \in 1 .. n |-> data[Slot(Advance(tail, i - 1))]]

(* Everything in the ring, oldest first.                                   *)
Contents(data, head, tail) == Get(data, tail, Used(head, tail))
=============================================================================
