----------------------------- MODULE MCH2GPath -----------------------------
(***************************************************************************)
(* H2GPath on a small instance.  "s" is the shortest frame, a header with  *)
(* no payload; "l" has one byte of payload.  A header is two bytes here,   *)
(* so a partial header, a partial payload and a whole frame all occur.     *)
(* Read from the middle, a frame says a length that happens to fit, or one *)
(* that no buffer holds.                                                   *)
(***************************************************************************)
EXTENDS H2GPath, TLC

MCFrames == {"s", "l"}

MCFrameLen == [f \in MCFrames |-> IF f = "s" THEN 2 ELSE 3]

MCStrayLen == (<<"s", 1>> :> 2) @@ (<<"l", 1>> :> 9) @@ (<<"l", 2>> :> 3)

NoOpZero == {}

OneFrame == {"l"}

OneFrameLen == [f \in OneFrame |-> 3]

OneStrayLen == (<<"l", 1>> :> 9) @@ (<<"l", 2>> :> 2)

(* A client that sends op 0, which halo_rom_ipc.h does not define.         *)
ShortIsOpZero == {<<"s", 0>>}
=============================================================================
