---------------------------- MODULE FrameStream ----------------------------
(***************************************************************************)
(* What the host-to-guest half of the doorbell promises: the bytes the     *)
(* client wrote form one queue, and the guest takes whole frames from its  *)
(* front, each once, unchanged and in order.  Bytes leave the queue any    *)
(* other way only when                                                     *)
(*   - the guest goes down, or is down: a prefix is dropped;               *)
(*   - the client hangs up: a suffix it had not got across is dropped;     *)
(*   - the reader meets a length no frame has: it drops from there on.     *)
(***************************************************************************)
EXTENDS FrameCells

CONSTANT Limit       (* the longest frame the reader accepts               *)

VARIABLES
  q,                 (* bytes written and not yet handed to the guest      *)
  out,               (* the frame the guest is handling, or none           *)
  up,                (* the guest's stack is up                            *)
  conn               (* the client is connected                            *)

vars == <<q, out, up, conn>>

Init == q = << >> /\ out = << >> /\ up = FALSE /\ conn = TRUE

Send(f) ==
  /\ conn
  /\ q' = q \o Bytes(f)
  /\ UNCHANGED <<out, up, conn>>

Receive ==
  /\ up
  /\ out = << >>
  /\ HasFrame(q)
  /\ out' = Take(q, ParsedLen(q[1]))
  /\ q' = Drop(q, ParsedLen(q[1]))
  /\ UNCHANGED <<up, conn>>

Handled == out' = << >> /\ UNCHANGED <<q, up, conn>>

Down ==
  /\ up' = FALSE
  /\ out' = << >>
  /\ \E n \in 0 .. Len(q) : q' = Drop(q, n)
  /\ UNCHANGED conn

Up == ~up /\ up' = TRUE /\ UNCHANGED <<q, out, conn>>

HangUp ==
  /\ conn
  /\ conn' = FALSE
  /\ \E n \in 0 .. Len(q) : q' = Take(q, n)
  /\ UNCHANGED <<out, up>>

Dial == ~conn /\ conn' = TRUE /\ UNCHANGED <<q, out, up>>

Resync ==
  /\ \E i, j \in 0 .. Len(q) :
       /\ i < j
       /\ ParsedLen(q[i + 1]) > Limit
       /\ q' = Take(q, i) \o Drop(q, j)
  /\ UNCHANGED <<out, up, conn>>

Next ==
  \/ \E f \in Frames : Send(f)
  \/ Receive \/ Handled \/ Down \/ Up \/ HangUp \/ Dial \/ Resync

Spec == Init /\ [][Next]_vars
=============================================================================
