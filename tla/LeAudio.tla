------------------------------ MODULE LeAudio -------------------------------
(***************************************************************************)
(* LE Audio in the ROM stub: the control of the streams and their data     *)
(* path.  Both are driven by the BLE task, which is in one of them at a    *)
(* time (rwip_process dispatches the host's frames one by one); the        *)
(* firmware's audio threads post buffers at any moment.                    *)
(***************************************************************************)
EXTENDS AseControl, IsoDatapath

vars == <<aseVars, isoVars>>

Init == AseInit /\ IsoInit

(* stub_ase_host_op.                                                       *)
AseOp == host = Rest /\ AseNext /\ UNCHANGED isoVars

Next == AseOp \/ (IsoNext /\ UNCHANGED aseVars)

Spec == Init /\ [][Next]_vars

TypeOK == AseTypeOK /\ IsoTypeOK
=============================================================================
