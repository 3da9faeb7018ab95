------------------------------ MODULE H2GPath ------------------------------
(***************************************************************************)
(* The host-to-guest half of the doorbell transport.                       *)
(*                                                                         *)
(* A client of the halo-ble chardev writes frames into a socket.  QEMU's   *)
(* main loop reassembles them in rxbuf and pushes whole frames into the    *)
(* H2G ring (halo_ble.c), raising the capture interrupt; the guest's       *)
(* interrupt handler clears it and posts the BLE task, which drains the    *)
(* ring (stub_ipc.c, stub_core.c).  The ring is shared memory: the main    *)
(* loop and the guest's CPU run at the same time, and the stores to data,  *)
(* head, tail and the interrupt are steps of their own.                    *)
(*                                                                         *)
(* A main-loop callback holds QEMU's big lock, so callbacks, device reset  *)
(* and MMIO writes exclude one another; the guest's plain loads and stores *)
(* do not.                                                                 *)
(***************************************************************************)
EXTENDS IpcRing, FrameCells

CONSTANTS
  RxBuf,       (* sizeof(rxbuf): 4 + HALO_BLE_MAX_FRAME                    *)
  SocketCap,   (* bytes the socket holds: the bound on wire                *)
  ZeroOp,      (* cells that, read as the first byte of a header, say op 0 *)
  TaskBlocks,  (* TRUE: the BLE task waits on a semaphore, as a firmware   *)
               (* with an RTOS does; FALSE: it tests a flag and then WFIs, *)
               (* as the bare-metal test firmware does                     *)
  MaxResets,   (* the bound on how often the machine is reset              *)
  MaxCrashes,  (* the bound on how often the client goes away              *)
  NoCell

ASSUME H2GAssumption ==
  /\ RxBuf \in Nat
  /\ Hdr <= RxBuf
  /\ RxBuf <= RingData
  /\ SocketCap \in Nat
  /\ ZeroOp \subseteq Cells
  /\ TaskBlocks \in BOOLEAN
  /\ MaxResets \in Nat
  /\ MaxCrashes \in Nat
  /\ NoCell \notin Cells

VARIABLES
  resets,    (* how often the machine has been reset                       *)
  crashes,   (* how often the client has gone away                         *)
  conn,      (* a client is connected to the chardev                       *)
  wire,      (* the bytes it wrote that the chardev has not read           *)
  rxbuf,     (* the device's reassembly buffer, rxlen = Len(rxbuf)         *)
  rxBlocked, (* rx_blocked: a whole frame is parked for want of room       *)
  retry,     (* retry_timer is armed                                       *)
  dev,       (* where the main loop is in rx_deliver and h2g_push          *)
  head, tail, data,  (* the H2G ring                                       *)
  irq,       (* chan_int has CAPTURE_A, which is the interrupt line        *)
  phase,     (* how far the guest's boot has come                          *)
  initHead,  (* the head stub_ipc_init loaded and is about to store        *)
  posted,    (* p_rtos_evt_post happened and the task has not taken it     *)
  task,      (* where the BLE task is                                      *)
  got        (* the frame copied out of the ring and being handled, or none *)

faults == <<resets, crashes>>
client == <<conn, wire>>
device == <<rxbuf, rxBlocked, retry, dev>>
ring   == <<head, tail, data>>
guest  == <<phase, initHead, posted, task, got>>
vars   == <<faults, client, device, ring, irq, guest>>

Min2(a, b) == IF a < b THEN a ELSE b

(* Where the BLE task is between two runs of rwip_process.                 *)
Resting == IF TaskBlocks THEN "wait" ELSE "loop"

Init ==
  /\ resets = 0
  /\ crashes = 0
  /\ conn = TRUE
  /\ wire = << >>
  /\ rxbuf = << >>
  /\ rxBlocked = FALSE
  /\ retry = FALSE
  /\ dev = "idle"
  /\ head = 0
  /\ tail = 0
  /\ data = [s \in Slots |-> NoCell]
  /\ irq = FALSE
  /\ phase = "off"
  /\ initHead = 0
  /\ posted = FALSE
  /\ task = "off"
  /\ got = << >>

-----------------------------------------------------------------------------
(* The chardev's client.                                                   *)

ClientConnect ==
  /\ ~conn
  /\ wire = << >>
  /\ conn' = TRUE
  /\ UNCHANGED <<faults, wire, device, ring, irq, guest>>

ClientSend(f) ==
  /\ conn
  /\ Len(wire) + FrameLen[f] <= SocketCap
  /\ wire' = wire \o Bytes(f)
  /\ UNCHANGED <<faults, conn, device, ring, irq, guest>>

(***************************************************************************)
(* The client goes away, perhaps in the middle of a frame.  The device     *)
(* registers no chardev event handler, so nothing else happens: what it    *)
(* had reassembled stays in rxbuf.                                         *)
(***************************************************************************)
ClientCrash ==
  /\ crashes < MaxCrashes
  /\ conn
  /\ crashes' = crashes + 1
  /\ conn' = FALSE
  /\ \E n \in 0 .. Len(wire) : wire' = Take(wire, n)
  /\ UNCHANGED <<resets, device, ring, irq, guest>>

-----------------------------------------------------------------------------
(* The device, in QEMU's main loop.                                        *)

(* chr_receive, with as many bytes as chr_can_receive allows at most.      *)
RxChunk ==
  /\ dev = "idle"
  /\ ~rxBlocked
  /\ \E n \in 1 .. Min2(Len(wire), RxBuf - Len(rxbuf)) :
       /\ rxbuf' = rxbuf \o Take(wire, n)
       /\ wire' = Drop(wire, n)
  /\ dev' = "deliver"
  /\ UNCHANGED <<faults, conn, rxBlocked, retry, ring, irq, guest>>

RetryFire ==
  /\ dev = "idle"
  /\ retry
  /\ retry' = FALSE
  /\ dev' = "deliver"
  /\ UNCHANGED <<faults, client, rxbuf, rxBlocked, ring, irq, guest>>

Oversized == Len(rxbuf) >= Hdr /\ ParsedLen(rxbuf[1]) > RxBuf

(* "oversized frame from client, resetting stream"                         *)
DeliverOversized ==
  /\ dev = "deliver"
  /\ Oversized
  /\ rxbuf' = << >>
  /\ rxBlocked' = FALSE
  /\ dev' = "idle"
  /\ UNCHANGED <<faults, client, retry, ring, irq, guest>>

(* Less than a frame: rx_deliver's way out, which unblocks the chardev.    *)
DeliverDone ==
  /\ dev = "deliver"
  /\ ~Oversized
  /\ ~HasFrame(rxbuf)
  /\ rxBlocked' = FALSE
  /\ dev' = "idle"
  /\ UNCHANGED <<faults, client, rxbuf, retry, ring, irq, guest>>

(* Mutant: the device of before ticket 0030, which dropped the frame.      *)
DeliverParkDrops ==
  /\ dev = "deliver"
  /\ ~Oversized
  /\ HasFrame(rxbuf)
  /\ Space(head, tail) < ParsedLen(rxbuf[1])
  /\ rxbuf' = Drop(rxbuf, ParsedLen(rxbuf[1]))
  /\ UNCHANGED <<faults, client, rxBlocked, retry, dev, ring, irq, guest>>

(* Mutant: the frame is parked and nothing polls for room.                 *)
DeliverParkNoTimer ==
  /\ dev = "deliver"
  /\ ~Oversized
  /\ HasFrame(rxbuf)
  /\ Space(head, tail) < ParsedLen(rxbuf[1])
  /\ rxBlocked' = TRUE
  /\ dev' = "idle"
  /\ UNCHANGED <<faults, client, rxbuf, retry, ring, irq, guest>>

(* No room: the frame stays in rxbuf and the timer polls for space.        *)
DeliverPark ==
  /\ dev = "deliver"
  /\ ~Oversized
  /\ HasFrame(rxbuf)
  /\ Space(head, tail) < ParsedLen(rxbuf[1])
  /\ rxBlocked' = TRUE
  /\ retry' = TRUE
  /\ dev' = "idle"
  /\ UNCHANGED <<faults, client, rxbuf, ring, irq, guest>>

(* h2g_push in its three steps: the bytes, then head, then the interrupt.  *)
PushBytes ==
  /\ dev = "deliver"
  /\ ~Oversized
  /\ HasFrame(rxbuf)
  /\ Space(head, tail) >= ParsedLen(rxbuf[1])
  /\ data' = Put(data, head, Take(rxbuf, ParsedLen(rxbuf[1])))
  /\ dev' = "publish"
  /\ UNCHANGED <<faults, client, rxbuf, rxBlocked, retry, head, tail, irq,
                 guest>>

PushHead ==
  /\ dev = "publish"
  /\ head' = Advance(head, ParsedLen(rxbuf[1]))
  /\ dev' = "signal"
  /\ UNCHANGED <<faults, client, rxbuf, rxBlocked, retry, tail, data, irq,
                 guest>>

(* Mutant: the payload is removed from rxbuf, its header is not counted.   *)
PushSignalNoHeader ==
  /\ dev = "signal"
  /\ irq' = TRUE
  /\ rxbuf' = Drop(rxbuf, ParsedLen(rxbuf[1]) - Hdr)
  /\ dev' = "deliver"
  /\ UNCHANGED <<faults, client, rxBlocked, retry, ring, guest>>

PushSignal ==
  /\ dev = "signal"
  /\ irq' = TRUE
  /\ rxbuf' = Drop(rxbuf, ParsedLen(rxbuf[1]))
  /\ dev' = "deliver"
  /\ UNCHANGED <<faults, client, rxBlocked, retry, ring, guest>>

(* Mutant: the reset deletes the timer and leaves rx_blocked set.          *)
ResetKeepsBlocked ==
  /\ resets < MaxResets
  /\ dev = "idle"
  /\ phase # "off"
  /\ resets' = resets + 1
  /\ irq' = FALSE
  /\ rxbuf' = << >>
  /\ retry' = FALSE
  /\ head' = 0
  /\ tail' = 0
  /\ phase' = "off"
  /\ initHead' = 0
  /\ posted' = FALSE
  /\ data' = [s \in Slots |-> NoCell]
  /\ task' = "off"
  /\ got' = << >>
  /\ UNCHANGED <<crashes, client, rxBlocked, dev>>

(***************************************************************************)
(* System reset: halo_ble_reset with the CPU stopped.  The ring headers    *)
(* and the reassembly buffer are emptied, and the guest starts over.  The  *)
(* reset leaves the ring's bytes where they are; the model forgets which   *)
(* they were, so that a guest that read one would show.                    *)
(***************************************************************************)
Reset ==
  /\ resets < MaxResets
  /\ dev = "idle"
  /\ phase # "off"
  /\ resets' = resets + 1
  /\ irq' = FALSE
  /\ rxbuf' = << >>
  /\ rxBlocked' = FALSE
  /\ retry' = FALSE
  /\ head' = 0
  /\ tail' = 0
  /\ phase' = "off"
  /\ initHead' = 0
  /\ posted' = FALSE
  /\ data' = [s \in Slots |-> NoCell]
  /\ task' = "off"
  /\ got' = << >>
  /\ UNCHANGED <<crashes, client, dev>>

-----------------------------------------------------------------------------
(* The guest.  Its interrupt handler preempts the BLE task between steps.  *)

(* stub_ipc_init, H2G half: H2G->tail = H2G->head is a load and a store.   *)
StackInitLoad ==
  /\ phase = "off"
  /\ initHead' = head
  /\ phase' = "init"
  /\ UNCHANGED <<faults, client, device, ring, irq, posted, task, got>>

StackInitStore ==
  /\ phase = "init"
  /\ tail' = initHead
  /\ phase' = "stack"
  /\ UNCHANGED <<faults, client, device, head, data, irq, initHead, posted,
                 task, got>>

(* Mutant: what the device raised during the boot is taken for stale.      *)
RwipInitClears ==
  /\ phase = "stack"
  /\ phase' = "up"
  /\ task' = Resting
  /\ irq' = FALSE
  /\ UNCHANGED <<faults, client, device, ring, initHead, posted, got>>

(* rwip_init registers the callback, then the interrupt is enabled.        *)
RwipInit ==
  /\ phase = "stack"
  /\ phase' = "up"
  /\ task' = Resting
  /\ UNCHANGED <<faults, client, device, ring, irq, initHead, posted, got>>

(* The handler writes 1 to CHAN_INTERRUPT and calls stub_h2g_evt_cb.       *)
CaptureIsr ==
  /\ phase = "up"
  /\ irq
  /\ irq' = FALSE
  /\ posted' = TRUE
  /\ task' = IF task = "wfi" THEN "test" ELSE task
  /\ UNCHANGED <<faults, client, device, ring, phase, initHead, got>>

(* The task takes the event: it was waiting on it, or the handler ended its *)
(* WFI and it tests the flag.                                              *)
TaskTakeEvent ==
  /\ task \in {"wait", "test"}
  /\ posted
  /\ posted' = FALSE
  /\ task' = "recv"
  /\ UNCHANGED <<faults, client, device, ring, irq, phase, initHead, got>>

(* The top of the test firmware's loop; an interrupt handled just before   *)
(* it does not end the WFI.                                                *)
TaskWfi ==
  /\ task = "loop"
  /\ task' = "wfi"
  /\ UNCHANGED <<faults, client, device, ring, irq, phase, initHead, posted,
                 got>>

FrontLen == ParsedLen(data[Slot(tail)])

RingHasFrame ==
  /\ Used(head, tail) >= Hdr
  /\ Used(head, tail) >= FrontLen

(* stub_ipc_recv returns op 0 and rwip_process leaves its loop.            *)
RecvNothing ==
  /\ task = "recv"
  /\ ~RingHasFrame
  /\ task' = Resting
  /\ UNCHANGED <<faults, client, device, ring, irq, phase, initHead,
                 posted, got>>

RecvCopy ==
  /\ task = "recv"
  /\ RingHasFrame
  /\ got' = Get(data, tail, FrontLen)
  /\ task' = "retire"
  /\ UNCHANGED <<faults, client, device, ring, irq, phase, initHead, posted>>

(* Mutant: a payload cut to the buffer's size is consumed only so far.     *)
RecvRetireTruncated ==
  /\ task = "retire"
  /\ tail' = Advance(tail, Hdr)
  /\ task' = "dispatch"
  /\ UNCHANGED <<faults, client, device, head, data, irq, phase, initHead,
                 posted, got>>

RecvRetire ==
  /\ task = "retire"
  /\ tail' = Advance(tail, Len(got))
  /\ task' = "dispatch"
  /\ UNCHANGED <<faults, client, device, head, data, irq, phase, initHead,
                 posted, got>>

(* rwip_process looks at the op: 0 means to it that the ring is empty.     *)
Dispatch ==
  /\ task = "dispatch"
  /\ task' = IF got[1] \in ZeroOp THEN Resting ELSE "recv"
  /\ got' = << >>
  /\ UNCHANGED <<faults, client, device, ring, irq, phase, initHead, posted>>

-----------------------------------------------------------------------------
Client == ClientConnect \/ ClientCrash \/ \E f \in Frames : ClientSend(f)

Deliver ==
  \/ DeliverOversized \/ DeliverDone \/ DeliverPark
  \/ PushBytes \/ PushHead \/ PushSignal

MainLoop == RxChunk \/ RetryFire \/ Deliver

Boot == StackInitLoad \/ StackInitStore \/ RwipInit

BleTask ==
  \/ TaskTakeEvent \/ TaskWfi
  \/ RecvNothing \/ RecvCopy \/ RecvRetire \/ Dispatch

Next == Client \/ MainLoop \/ Reset \/ Boot \/ CaptureIsr \/ BleTask

Spec == Init /\ [][Next]_vars

(***************************************************************************)
(* What scheduling provides: the main loop keeps running and serves every  *)
(* ready source (the socket, the 1 ms timer), the guest's CPU keeps        *)
(* executing and takes an enabled interrupt.  Neither the client nor a     *)
(* reset owes anything.                                                    *)
(***************************************************************************)
Fairness ==
  /\ WF_vars(RxChunk)
  /\ WF_vars(RetryFire)
  /\ WF_vars(Deliver)
  /\ WF_vars(Boot)
  /\ WF_vars(CaptureIsr)
  /\ WF_vars(BleTask)

FairSpec == Spec /\ Fairness
-----------------------------------------------------------------------------
(* Properties.                                                             *)

TypeOK ==
  /\ resets \in 0 .. MaxResets
  /\ crashes \in 0 .. MaxCrashes
  /\ conn \in BOOLEAN
  /\ wire \in Seq(Cells)
  /\ rxbuf \in Seq(Cells)
  /\ rxBlocked \in BOOLEAN
  /\ retry \in BOOLEAN
  /\ dev \in {"idle", "deliver", "publish", "signal"}
  /\ head \in Counter
  /\ tail \in Counter
  /\ data \in [Slots -> Cells \cup {NoCell}]
  /\ irq \in BOOLEAN
  /\ phase \in {"off", "init", "stack", "up"}
  /\ initHead \in Counter
  /\ posted \in BOOLEAN
  /\ task \in {"off", "wait", "loop", "wfi", "test", "recv", "retire", "dispatch"}
  /\ got \in Seq(Cells)

(***************************************************************************)
(* No lost wakeup.  A frame in the ring of a running guest is owed a run   *)
(* of rwip_process: the interrupt is up or about to be raised, or its      *)
(* event is posted to a task that is not asleep on it, or the task is      *)
(* still draining.  This is about h2g_push raising the interrupt after     *)
(* head, the handler clearing before it posts, and rwip_process draining   *)
(* until the ring is empty.                                                *)
(***************************************************************************)
WakeupOwed ==
  \/ dev = "signal"
  \/ irq
  \/ posted /\ task # "wfi"
  \/ task \in {"recv", "retire", "dispatch"}

NoLostWakeup == phase = "up" /\ head # tail => WakeupOwed

(***************************************************************************)
(* A parked frame is polled for: while the main loop is between callbacks  *)
(* the chardev is throttled exactly when the retry timer is armed.  A      *)
(* throttled chardev without a timer would never be read again.            *)
(***************************************************************************)
ParkedIsPolled == dev = "idle" => (rxBlocked <=> retry)

(***************************************************************************)
(* The guest never finds part of a frame: rwip_process meets a ring that   *)
(* is empty or has a whole frame at its front.  (The early return "frame   *)
(* still being written by the host" is never taken.)  Device and guest     *)
(* parse the same bytes from different buffers, across resets too.         *)
(***************************************************************************)
RingHoldsWholeFrames == task = "recv" /\ head # tail => RingHasFrame

(***************************************************************************)
(* The producer never runs over the consumer: the ring's bytes in use,     *)
(* with those of the frame being pushed, are at most its size.             *)
(***************************************************************************)
NoOverrun ==
  Used(head, tail) +
    (IF dev = "publish" THEN ParsedLen(rxbuf[1]) ELSE 0) <= RingData

(***************************************************************************)
(* "Frame (both rings and the chardev stream ...)": what the guest handles *)
(* as a frame is a frame the client sent, whole.                           *)
(***************************************************************************)
FramesAreFrames ==
  task \in {"retire", "dispatch"} => \E f \in Frames : got = Bytes(f)

(***************************************************************************)
(* The transport implements FrameStream: the queue is what the guest has   *)
(* not copied out of the ring, then what the device holds and has not      *)
(* published, then what is in the socket.                                  *)
(***************************************************************************)
RingView ==
  LET contents == Contents(data, head, tail)
  IN  IF task = "retire" THEN Drop(contents, Len(got)) ELSE contents

RxView ==
  IF dev = "signal" THEN Drop(rxbuf, ParsedLen(rxbuf[1])) ELSE rxbuf

Stream == INSTANCE FrameStream WITH
            Limit <- RxBuf,
            q     <- RingView \o RxView \o wire,
            out   <- got,
            up    <- phase = "up",
            conn  <- conn

ImplementsStream == Stream!Spec

(***************************************************************************)
(* The inductive invariant behind the safety properties above.  The ring   *)
(* holds whole frames from its tail on, and while stub_ipc_init is between *)
(* its load and its store, from the tail it is about to set as well.  The  *)
(* bytes h2g_push has stored and not yet published are the frame's.        *)
(***************************************************************************)
Holds(ringData, h, t, stored) ==
  /\ Used(h, t) + Len(stored) <= RingData
  /\ Contents(ringData, h, t) \in Seq(Cells)
  /\ WholeFrames(Contents(ringData, h, t))
  /\ Contents(ringData, Advance(h, Len(stored)), t)
       = Contents(ringData, h, t) \o stored

Stored == IF dev = "publish" THEN Take(rxbuf, ParsedLen(rxbuf[1])) ELSE << >>

RingOK(t) == Holds(data, head, t, Stored)

RxOK ==
  /\ Len(rxbuf) <= RxBuf
  /\ dev \in {"publish", "signal"} =>
       Len(rxbuf) >= Hdr /\ ParsedLen(rxbuf[1]) <= Len(rxbuf)

InitOK ==
  phase = "init" => RingOK(initHead) /\ Used(head, initHead) <= Used(head, tail)

TaskOK ==
  /\ phase = "up" <=> task # "off"
  /\ task = "retire" =>
       /\ head # tail
       /\ Len(got) = ParsedLen(Contents(data, head, tail)[1])
  /\ task = "dispatch" => got # << >>

RetryOK == IF dev = "idle" THEN rxBlocked <=> retry ELSE ~retry

IInv == TypeOK /\ RingOK(tail) /\ RxOK /\ InitOK /\ TaskOK /\ RetryOK

(***************************************************************************)
(* With a task that blocks, the wakeup invariant is inductive as well:     *)
(* before the guest handles interrupts, whatever is pushed leaves the      *)
(* interrupt up.                                                           *)
(***************************************************************************)
WakeupInv ==
  /\ IInv
  /\ task \notin {"loop", "wfi", "test"}
  /\ NoLostWakeup
  /\ phase # "up" /\ head # tail => dev = "signal" \/ irq

(***************************************************************************)
(* Whatever the ring's head is while the guest is up, the guest consumes   *)
(* up to it, unless the machine is reset.                                  *)
(***************************************************************************)
EverythingConsumed ==
  \A h \in Counter :
    (phase = "up" /\ head = h) ~> (tail = h \/ phase # "up")

(***************************************************************************)
(* A parked frame gets into the ring, and the chardev is read again.       *)
(***************************************************************************)
ParkingEnds == rxBlocked ~> ~rxBlocked
=============================================================================
