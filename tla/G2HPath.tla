------------------------------ MODULE G2HPath ------------------------------
(***************************************************************************)
(* The guest-to-host half of the doorbell transport.                       *)
(*                                                                         *)
(* Several firmware threads emit events through the ROM stub: each takes   *)
(* the interrupt lock, appends a whole frame to the G2H ring, and after    *)
(* its last frame writes the G2H_KICK register (stub_ipc.c).  The write    *)
(* is an MMIO exit: QEMU drains the ring into the chardev before it        *)
(* returns, holding the big lock, and waits there while the client's       *)
(* socket is full (halo_ble.c, g2h_drain).  The board has one CPU, so no   *)
(* guest thread, main-loop callback or reset runs during a drain.          *)
(*                                                                         *)
(* A thread that finds the ring full kicks and tries again, a bounded      *)
(* number of times; then the event is dropped and its caller is not told   *)
(* (every caller ignores stub_ipc_send's result).                          *)
(***************************************************************************)
EXTENDS IpcRing, FrameCells

CONSTANTS
  Threads,     (* the firmware threads that call into the stub             *)
  Jobs,        (* what one API call emits: a non-empty sequence of frames  *)
  MaxSpins,    (* 1000000: how often a full ring is tried again            *)
  Chunk,       (* 256: the size of g2h_drain's buffer                      *)
  SocketCap,   (* bytes the client's socket holds                          *)
  MaxResets,   (* the bound on how often the machine is reset              *)
  NoThread,
  NoCell

ASSUME G2HAssumption ==
  /\ Jobs \subseteq Seq(Frames) \ {<< >>}
  /\ \A f \in Frames : FrameLen[f] <= RingData
  /\ MaxSpins \in Nat
  /\ Chunk \in Nat \ {0}
  /\ SocketCap \in Nat \ {0}
  /\ MaxResets \in Nat
  /\ NoThread \notin Threads
  /\ NoCell \notin Cells

VARIABLES
  resets,             (* how often the machine has been reset              *)
  conn,               (* a client is connected to the chardev              *)
  sock,               (* bytes written to it that it has not read          *)
  last,               (* the last byte it read on this connection, or none *)
  up,                 (* ble_stack_init has run                            *)
  ghead, gtail, gdata,  (* the G2H ring                                    *)
  pc,                 (* where each thread is in stub_ipc_send and _kick   *)
  todo,               (* the frames its call has still to emit             *)
  spins,              (* spins: how often it has tried this frame again    *)
  contended,          (* history: frames others put since its first kick   *)
  kicker,             (* the thread whose kick is draining, or none        *)
  dhead, dtail        (* head and tail in g2h_drain                        *)

client  == <<conn, sock, last>>
ring    == <<ghead, gtail, gdata>>
threads == <<pc, todo, spins, contended>>
drain   == <<kicker, dhead, dtail>>
vars    == <<resets, client, up, ring, threads, drain>>

Min2(a, b) == IF a < b THEN a ELSE b

Init ==
  /\ resets = 0
  /\ conn = TRUE
  /\ sock = << >>
  /\ last = NoCell
  /\ up = FALSE
  /\ ghead = 0
  /\ gtail = 0
  /\ gdata = [s \in Slots |-> NoCell]
  /\ pc = [t \in Threads |-> "idle"]
  /\ todo = [t \in Threads |-> << >>]
  /\ spins = [t \in Threads |-> 0]
  /\ contended = [t \in Threads |-> 0]
  /\ kicker = NoThread
  /\ dhead = 0
  /\ dtail = 0

-----------------------------------------------------------------------------
(* The guest.  None of this runs while the CPU is inside a kick.           *)

GuestRuns == kicker = NoThread

(* ble_stack_init, G2H half.                                               *)
StackInit ==
  /\ GuestRuns
  /\ ~up
  /\ up' = TRUE
  /\ ghead' = 0
  /\ gtail' = 0
  /\ UNCHANGED <<resets, client, gdata, threads, drain>>

(* A thread enters an API call that emits the frames of job.               *)
Call(t, job) ==
  /\ GuestRuns
  /\ up
  /\ pc[t] = "idle"
  /\ pc' = [pc EXCEPT ![t] = "send"]
  /\ todo' = [todo EXCEPT ![t] = job]
  /\ UNCHANGED <<resets, client, up, ring, spins, contended, drain>>

(* Mutant: an emitter that leaves the kick out.                            *)
AfterFrameNoKick(t) == IF Len(todo[t]) = 1 THEN "idle" ELSE "send"

(* After its last frame a call kicks, whatever became of the frame.        *)
AfterFrame(t) == IF Len(todo[t]) = 1 THEN "kick" ELSE "send"

(* t's call is in the loop that waits for room, after its first try.       *)
Retrying(t) == pc[t] \in {"spin", "spinning", "spun"} \/ spins[t] > 0

NextFrame(t) ==
  /\ pc' = [pc EXCEPT ![t] = AfterFrame(t)]
  /\ todo' = [todo EXCEPT ![t] = Tail(@)]
  /\ spins' = [spins EXCEPT ![t] = 0]

(* A frame of t's delays the others that wait for room.                    *)
Contend(t) ==
  contended' = [u \in Threads |->
    IF u = t THEN 0
    ELSE IF Retrying(u) THEN Min2(contended[u] + 1, MaxSpins)
    ELSE contended[u]]

(* Mutant: the room the frame's header needs is not counted.               *)
PutFrameNoHeader(t) ==
  /\ GuestRuns
  /\ pc[t] = "send"
  /\ Space(ghead, gtail) >= FrameLen[Head(todo[t])] - Hdr
  /\ gdata' = Put(gdata, ghead, Bytes(Head(todo[t])))
  /\ ghead' = Advance(ghead, FrameLen[Head(todo[t])])
  /\ NextFrame(t)
  /\ Contend(t)
  /\ UNCHANGED <<resets, client, up, gtail, drain>>

(***************************************************************************)
(* The test and the writes of stub_ipc_send are one step: they are made    *)
(* with interrupts off, and head is stored three times but no drain can    *)
(* come between.                                                           *)
(***************************************************************************)
PutFrame(t) ==
  /\ GuestRuns
  /\ pc[t] = "send"
  /\ Space(ghead, gtail) >= FrameLen[Head(todo[t])]
  /\ gdata' = Put(gdata, ghead, Bytes(Head(todo[t])))
  /\ ghead' = Advance(ghead, FrameLen[Head(todo[t])])
  /\ NextFrame(t)
  /\ Contend(t)
  /\ UNCHANGED <<resets, client, up, gtail, drain>>

(* Mutant: a full ring is tested again without a kick.                     *)
RingFullNoKick(t) ==
  /\ GuestRuns
  /\ pc[t] = "send"
  /\ Space(ghead, gtail) < FrameLen[Head(todo[t])]
  /\ pc' = [pc EXCEPT ![t] = "spun"]
  /\ UNCHANGED <<resets, client, up, ring, todo, spins, contended, drain>>

(* No room: unlock, and kick next.                                         *)
RingFull(t) ==
  /\ GuestRuns
  /\ pc[t] = "send"
  /\ Space(ghead, gtail) < FrameLen[Head(todo[t])]
  /\ pc' = [pc EXCEPT ![t] = "spin"]
  /\ UNCHANGED <<resets, client, up, ring, todo, spins, contended, drain>>

(* stub_ipc_kick enters g2h_drain, which reads head and tail.              *)
StartDrain(t) ==
  /\ kicker' = t
  /\ dhead' = ghead
  /\ dtail' = gtail

SpinKick(t) ==
  /\ GuestRuns
  /\ pc[t] = "spin"
  /\ StartDrain(t)
  /\ pc' = [pc EXCEPT ![t] = "spinning"]
  /\ UNCHANGED <<resets, client, up, ring, todo, spins, contended>>

Kick(t) ==
  /\ GuestRuns
  /\ pc[t] = "kick"
  /\ StartDrain(t)
  /\ pc' = [pc EXCEPT ![t] = "kicking"]
  /\ UNCHANGED <<resets, client, up, ring, todo, spins, contended>>

(* Mutant: the retries are not counted.                                    *)
SpinAgainUncounted(t) ==
  /\ GuestRuns
  /\ pc[t] = "spun"
  /\ pc' = [pc EXCEPT ![t] = "send"]
  /\ UNCHANGED <<resets, client, up, ring, todo, spins, contended, drain>>

SpinAgain(t) ==
  /\ GuestRuns
  /\ pc[t] = "spun"
  /\ spins[t] < MaxSpins
  /\ spins' = [spins EXCEPT ![t] = @ + 1]
  /\ pc' = [pc EXCEPT ![t] = "send"]
  /\ UNCHANGED <<resets, client, up, ring, todo, contended, drain>>

(* stub_ipc_send returns false: the frame is dropped.                      *)
GiveUp(t) ==
  /\ GuestRuns
  /\ pc[t] = "spun"
  /\ spins[t] = MaxSpins
  /\ NextFrame(t)
  /\ contended' = [contended EXCEPT ![t] = 0]
  /\ UNCHANGED <<resets, client, up, ring, drain>>

-----------------------------------------------------------------------------
(* The device, inside the kick.                                            *)

(* Mutant: a write that does not wait for the client to make room.         *)
DrainSendNonblocking ==
  /\ ~GuestRuns
  /\ conn
  /\ dtail # dhead
  /\ LET n == Min2(Used(dhead, dtail), Chunk)
     IN  /\ sock' = sock \o Get(gdata, dtail, Min2(n, SocketCap - Len(sock)))
         /\ dtail' = Advance(dtail, n)
  /\ UNCHANGED <<resets, conn, last, up, ring, threads, kicker, dhead>>

(***************************************************************************)
(* qemu_chr_fe_write_all of a chunk: as much as the socket takes, and the  *)
(* rest when the client has read.  With the socket full nothing happens    *)
(* until it reads or hangs up.                                             *)
(***************************************************************************)
DrainSend ==
  /\ ~GuestRuns
  /\ conn
  /\ dtail # dhead
  /\ Len(sock) < SocketCap
  /\ LET n == Min2(Min2(Used(dhead, dtail), Chunk), SocketCap - Len(sock))
     IN  /\ sock' = sock \o Get(gdata, dtail, n)
         /\ dtail' = Advance(dtail, n)
  /\ UNCHANGED <<resets, conn, last, up, ring, threads, kicker, dhead>>

(* "Forward even with no client connected: the write just drops."          *)
DrainDiscard ==
  /\ ~GuestRuns
  /\ ~conn
  /\ dtail # dhead
  /\ dtail' = Advance(dtail, Min2(Used(dhead, dtail), Chunk))
  /\ UNCHANGED <<resets, client, up, ring, threads, kicker, dhead>>

(* tail is stored, the MMIO write returns.                                 *)
DrainEnd ==
  /\ ~GuestRuns
  /\ dtail = dhead
  /\ gtail' = dtail
  /\ pc' = [pc EXCEPT ![kicker] = IF @ = "spinning" THEN "spun" ELSE "idle"]
  /\ kicker' = NoThread
  /\ UNCHANGED <<resets, client, up, ghead, gdata, todo, spins, contended,
                 dhead, dtail>>

(***************************************************************************)
(* System reset, with the CPU stopped outside a kick.  As in H2GPath the   *)
(* model forgets the ring's bytes.  The chardev and its client stay.       *)
(***************************************************************************)
Reset ==
  /\ resets < MaxResets
  /\ GuestRuns
  /\ up
  /\ resets' = resets + 1
  /\ up' = FALSE
  /\ ghead' = 0
  /\ gtail' = 0
  /\ gdata' = [s \in Slots |-> NoCell]
  /\ pc' = [t \in Threads |-> "idle"]
  /\ todo' = [t \in Threads |-> << >>]
  /\ spins' = [t \in Threads |-> 0]
  /\ contended' = [t \in Threads |-> 0]
  /\ UNCHANGED <<client, drain>>

-----------------------------------------------------------------------------
(* The chardev's client.                                                   *)

ClientRead ==
  /\ sock # << >>
  /\ last' = Head(sock)
  /\ sock' = Tail(sock)
  /\ UNCHANGED <<resets, conn, up, ring, threads, drain>>

HangUp ==
  /\ conn
  /\ conn' = FALSE
  /\ sock' = << >>
  /\ UNCHANGED <<resets, last, up, ring, threads, drain>>

(* The main loop accepts a client, so not during a drain.                  *)
Dial ==
  /\ ~conn
  /\ GuestRuns
  /\ conn' = TRUE
  /\ last' = NoCell
  /\ UNCHANGED <<resets, sock, up, ring, threads, drain>>

-----------------------------------------------------------------------------
Thread(t) ==
  \/ PutFrame(t) \/ RingFull(t) \/ SpinKick(t) \/ SpinAgain(t) \/ GiveUp(t)
  \/ Kick(t)

Drain == DrainSend \/ DrainDiscard \/ DrainEnd

Next ==
  \/ StackInit
  \/ \E t \in Threads : Thread(t) \/ \E job \in Jobs : Call(t, job)
  \/ Drain
  \/ Reset
  \/ ClientRead \/ HangUp \/ Dial

Spec == Init /\ [][Next]_vars

(***************************************************************************)
(* The firmware's scheduler runs every thread that is ready again and      *)
(* again (strong fairness: another thread's kick stops the only CPU, which *)
(* disables all of them for a while), the drain loop runs on, and the      *)
(* client is one that reads what it is sent (the REPL bridge's doorbell    *)
(* thread): backpressure is by design, so nothing can be promised with a   *)
(* client that does not.                                                   *)
(***************************************************************************)
Fairness ==
  /\ \A t \in Threads : SF_vars(Thread(t))
  /\ WF_vars(Drain)
  /\ WF_vars(ClientRead)

FairSpec == Spec /\ Fairness
-----------------------------------------------------------------------------
(* Properties.                                                             *)

TypeOK ==
  /\ resets \in 0 .. MaxResets
  /\ conn \in BOOLEAN
  /\ sock \in Seq(Cells)
  /\ last \in Cells \cup {NoCell}
  /\ up \in BOOLEAN
  /\ ghead \in Counter
  /\ gtail \in Counter
  /\ gdata \in [Slots -> Cells \cup {NoCell}]
  /\ pc \in [Threads -> {"idle", "send", "spin", "spinning", "spun",
                         "kick", "kicking"}]
  /\ todo \in [Threads -> Seq(Frames)]
  /\ spins \in [Threads -> 0 .. MaxSpins]
  /\ contended \in [Threads -> 0 .. MaxSpins]
  /\ kicker \in Threads \cup {NoThread}
  /\ dhead \in Counter
  /\ dtail \in Counter

(***************************************************************************)
(* No stranded event ("the ring is only drained on the kick").  Bytes in   *)
(* the ring always have a thread inside a call that will kick: the host    *)
(* never polls, so bytes left behind by a thread that is done would wait   *)
(* for some later, unrelated event.                                        *)
(***************************************************************************)
NoStrandedEvent == ghead # gtail => \E t \in Threads : pc[t] # "idle"

(***************************************************************************)
(* An event is dropped only under extreme contention: a thread that has    *)
(* kicked n + 1 times for one frame has seen at least n frames of other    *)
(* threads go ahead of it.  So the million retries of stub_ipc_send end in *)
(* a drop only if other threads put a million frames meanwhile, whatever   *)
(* the client does; alone, a thread never needs a second retry.            *)
(***************************************************************************)
RetriesArePaidFor ==
  \A t \in Threads : pc[t] = "spun" => spins[t] <= contended[t]

(***************************************************************************)
(* The inductive invariant behind the first three.  The ring, and what     *)
(* g2h_drain has left of it, holds bytes of frames and is not overrun; a   *)
(* drain has the ring to itself; and a thread that waits for room has been *)
(* overtaken as often as it has retried, or its last kick left the ring    *)
(* empty for it.                                                           *)
(***************************************************************************)
HoldsCells(ringData, h, t) ==
  /\ Used(h, t) <= RingData
  /\ Contents(ringData, h, t) \in Seq(Cells)

DrainOK ==
  /\ \A t \in Threads : pc[t] \in {"spinning", "kicking"} <=> t = kicker
  /\ kicker # NoThread => dhead = ghead /\ HoldsCells(gdata, dhead, dtail)

CallOK ==
  \A t \in Threads :
    IF pc[t] \in {"send", "spin", "spinning", "spun"}
    THEN todo[t] # << >>
    ELSE spins[t] = 0

PaidFor(t) ==
  /\ pc[t] \in {"spin", "spinning", "spun"} => spins[t] <= contended[t]
  /\ pc[t] = "send" => \/ spins[t] <= contended[t]
                       \/ spins[t] = contended[t] + 1 /\ ghead = gtail
  /\ pc[t] = "spun" => \/ spins[t] < contended[t] \/ spins[t] = MaxSpins
                       \/ ghead = gtail

IInv ==
  /\ TypeOK
  /\ HoldsCells(gdata, ghead, gtail)
  /\ DrainOK
  /\ CallOK
  /\ \A t \in Threads : PaidFor(t)
  /\ NoStrandedEvent

(***************************************************************************)
(* The client's byte stream is made of whole frames in a row, from the     *)
(* first byte of its connection: no frame is cut, mixed with another or    *)
(* overwritten, whoever emits, however the socket stalls, and across       *)
(* resets and reconnections.                                               *)
(***************************************************************************)
Pending ==
  Contents(gdata, ghead, IF GuestRuns THEN gtail ELSE dtail)

Follows(a, b) ==
  IF a = NoCell \/ a[2] = FrameLen[a[1]] - 1
  THEN Starts(b)
  ELSE b = <<a[1], a[2] + 1>>

FramesUnbroken ==
  LET stream == <<last>> \o sock \o Pending
  IN  conn => /\ NoCell \notin {stream[i] : i \in 2 .. Len(stream)}
              /\ \A i \in 1 .. Len(stream) - 1 :
                   Follows(stream[i], stream[i + 1])

(***************************************************************************)
(* The path implements EventStream: an event that is in the ring reaches a *)
(* client that stays connected, once and in order ("notifications must not *)
(* drop"), unless the machine is reset before it was handed to the socket; *)
(* a hang-up loses what the socket held, and nothing behind it.            *)
(***************************************************************************)
Events == INSTANCE EventStream WITH q <- sock \o Pending, sent <- Len(sock)

ImplementsEvents == Events!Spec

(***************************************************************************)
(* With a client that keeps reading, or none, every call into the stub     *)
(* returns (unless the machine is reset).                                  *)
(***************************************************************************)
CallsReturn == \A t \in Threads : pc[t] # "idle" ~> pc[t] = "idle"
=============================================================================
