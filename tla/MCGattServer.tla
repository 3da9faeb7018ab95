---------------------------- MODULE MCGattServer ----------------------------
(***************************************************************************)
(* GattServer with a BLE task and one or two more threads.  Two buffers    *)
(* are enough for two holders, and for two other threads to leave none to  *)
(* the BLE task.                                                           *)
(***************************************************************************)
EXTENDS GattServer, TLC

Symmetries == Permutations(Buffers) \cup Permutations(Values)
              \cup Permutations(Threads \ {BleTask})
=============================================================================
