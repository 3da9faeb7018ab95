----------------------------- MODULE MCG2HPath -----------------------------
(***************************************************************************)
(* G2HPath on a small instance: two threads, a ring of four bytes and a    *)
(* socket of two.  "s" is a header alone, "l" has a byte of payload; a     *)
(* call emits one frame, or two like hstub_gatt_db_svc_add.                *)
(***************************************************************************)
EXTENDS G2HPath, TLC

MCFrames == {"s", "l"}

MCFrameLen == [f \in MCFrames |-> IF f = "s" THEN 2 ELSE 3]

MCStrayLen == (<<"s", 1>> :> 2) @@ (<<"l", 1>> :> 9) @@ (<<"l", 2>> :> 3)

MCJobs == {<<"s">>, <<"l", "s">>}
=============================================================================
