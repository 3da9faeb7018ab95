---------------------------- MODULE EventStream ----------------------------
(***************************************************************************)
(* What the guest-to-host half of the doorbell promises: the events the    *)
(* firmware's threads emit form one queue of bytes in the order they were  *)
(* emitted.  A front part of it has been handed over to the client's       *)
(* socket and can no longer be lost while the client stays; the client     *)
(* receives the bytes one by one from the very front.  A byte is not       *)
(* received only when                                                      *)
(*   - the client hangs up: what it was handed and has not read goes with  *)
(*     it, and the rest waits;                                             *)
(*   - there is no client: any front part may be dropped;                  *)
(*   - the machine is reset: what has not been handed over is gone.        *)
(***************************************************************************)
EXTENDS FrameCells

CONSTANT
  NoCell             (* nothing received yet                               *)

VARIABLES
  q,                 (* bytes emitted and not yet received                 *)
  sent,              (* how many of them have been handed over             *)
  conn,              (* a client is connected                              *)
  last,              (* the last byte it received, or none                 *)
  resets             (* how often the machine has been reset               *)

vars == <<q, sent, conn, last, resets>>

Init ==
  /\ q = << >>
  /\ sent = 0
  /\ conn = TRUE
  /\ last = NoCell
  /\ resets = 0

Emit(f) ==
  /\ q' = q \o Bytes(f)
  /\ UNCHANGED <<sent, conn, last, resets>>

HandOver ==
  /\ conn
  /\ sent' \in sent + 1 .. Len(q)
  /\ UNCHANGED <<q, conn, last, resets>>

Receive ==
  /\ conn
  /\ sent > 0
  /\ last' = Head(q)
  /\ q' = Tail(q)
  /\ sent' = sent - 1
  /\ UNCHANGED <<conn, resets>>

HangUp ==
  /\ conn
  /\ conn' = FALSE
  /\ q' = Drop(q, sent)
  /\ sent' = 0
  /\ UNCHANGED <<last, resets>>

Lose ==
  /\ ~conn
  /\ \E n \in 1 .. Len(q) : q' = Drop(q, n)
  /\ UNCHANGED <<sent, conn, last, resets>>

Dial ==
  /\ ~conn
  /\ conn' = TRUE
  /\ last' = NoCell
  /\ UNCHANGED <<q, sent, resets>>

Reset ==
  /\ resets' = resets + 1
  /\ q' = Take(q, sent)
  /\ UNCHANGED <<sent, conn, last>>

Next ==
  \/ \E f \in Frames : Emit(f)
  \/ HandOver \/ Receive \/ HangUp \/ Lose \/ Dial \/ Reset

Spec == Init /\ [][Next]_vars
=============================================================================
