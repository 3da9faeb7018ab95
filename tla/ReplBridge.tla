----------------------------- MODULE ReplBridge -----------------------------
(***************************************************************************)
(* The REPL bridge (tools/ble_bridge.py) between TCP clients and the guest. *)
(*                                                                         *)
(* Three kinds of thread: _serve accepts clients into the one client slot  *)
(* and starts a thread for each, _run_client attaches a client to the      *)
(* guest and forwards its input, and _doorbell_loop handles the guest's    *)
(* events, dropping the client when the guest disconnects or reboots.      *)
(* They share the slot, the handles, the two events of the connect         *)
(* handshake and the stop flag.  Below the bridge the doorbell is          *)
(* two queues of whole frames (what H2GPath and G2HPath establish), and at *)
(* their end is the ROM stub's one link (stub_gapc.c, stub_gapm.c).        *)
(*                                                                         *)
(* One GATT database dump is two events, the service and its attributes.   *)
(***************************************************************************)
EXTENDS Integers, Sequences, FiniteSets

CONSTANTS
  Sessions,    (* client connections, each used once                       *)
  Nobody,      (* _client is None                                          *)
  SlowGuest,   (* TRUE: the guest may take longer than the bridge waits    *)
  Rejects,     (* TRUE: the firmware may drop a link of its own accord     *)
  MaxReboots,  (* the bound on how often the guest reboots                 *)
  MaxNotify,   (* the bound on the notifications the firmware sends        *)
  Cap          (* frames a queue holds: the bound on h2g and g2h           *)

ASSUME BridgeAssumption ==
  /\ Nobody \notin Sessions
  /\ SlowGuest \in BOOLEAN
  /\ Rejects \in BOOLEAN
  /\ MaxReboots \in Nat
  /\ MaxNotify \in Nat
  /\ Cap \in Nat /\ Cap >= 2

VARIABLES
  phase,     (* how far the guest's boot has come                          *)
  reboots,   (* how often it has rebooted                                  *)
  link,      (* g_stub.connected                                           *)
  dial,      (* where the BLE task is in answering an OP_CONNECT           *)
  tested,    (* a firmware thread is past event_send's connected test      *)
  dropping,  (* ... or past gapc_disconnect's                              *)
  notified,  (* notifications sent so far: the last one's number           *)
  h2g, g2h,  (* frames on their way through the doorbell                   *)
  svcSeen,   (* _svc_hdls has the service's start handle                   *)
  handles,   (* _handles is resolved                                       *)
  dbReady, connectedEvt, pairedEvt,  (* the threading.Events               *)
  slot,      (* _client                                                    *)
  bpc,       (* where _doorbell_loop is in _handle_evt                     *)
  target,    (* the socket it took under the lock                          *)
  note,      (* the notification it is sending                             *)
  pc,        (* where each client's thread is in _run_client               *)
  ours,      (* still_ours                                                 *)
  gone,      (* the client has closed its end                              *)
  open,      (* the bridge's end of its socket is open                     *)
  received   (* the notifications sent through the socket while it is open *)

guest   == <<phase, reboots, link, dial, tested, dropping, notified>>
queues  == <<h2g, g2h>>
db      == <<svcSeen, handles, dbReady>>
shake   == <<connectedEvt, pairedEvt>>
reader  == <<bpc, target, note>>
threads == <<pc, ours>>
clients == <<gone, received>>
vars    == <<guest, queues, db, shake, slot, reader, threads, clients, open>>

Init ==
  /\ phase = "off"
  /\ reboots = 0
  /\ link = FALSE
  /\ dial = "none"
  /\ tested = FALSE
  /\ dropping = FALSE
  /\ notified = 0
  /\ h2g = << >> /\ g2h = << >>
  /\ svcSeen = FALSE /\ handles = FALSE
  /\ dbReady = FALSE /\ connectedEvt = FALSE /\ pairedEvt = FALSE
  /\ slot = Nobody
  /\ bpc = "read" /\ target = Nobody /\ note = 0
  /\ pc = [s \in Sessions |-> "none"]
  /\ ours = [s \in Sessions |-> FALSE]
  /\ gone = [s \in Sessions |-> FALSE]
  /\ open = [s \in Sessions |-> FALSE]
  /\ received = [s \in Sessions |-> << >>]

(* _stop: run's finally clause sets it when _serve has ended, and what     *)
(* ends _serve here is a client whose thread it could not start.           *)
Stopped == \E s \in Sessions : pc[s] = "unserved"

-----------------------------------------------------------------------------
(* The guest: the ROM stub's link and what it emits.                       *)

Evt(kind) == [kind |-> kind, n |-> 0]

Emit(event) ==
  /\ Len(g2h) < Cap
  /\ g2h' = Append(g2h, event)

(* gapm_configure, then the services are registered and dumped.            *)
GuestBoot ==
  /\ \/ phase = "off" /\ phase' = "configured" /\ UNCHANGED g2h
     \/ phase = "configured" /\ phase' = "service" /\ Emit(Evt("svc"))
     \/ phase = "service" /\ phase' = "up" /\ Emit(Evt("att"))
  /\ UNCHANGED <<reboots, link, dial, tested, dropping, notified, h2g, db,
                 shake, slot, reader, threads, clients, open>>

(* A reboot loses the ops the ring held; those in the socket survive.      *)
GuestReboot ==
  /\ reboots < MaxReboots
  /\ phase # "off"
  /\ reboots' = reboots + 1
  /\ phase' = "off"
  /\ link' = FALSE
  /\ dial' = "none"
  /\ tested' = FALSE
  /\ dropping' = FALSE
  /\ \E n \in 0 .. Len(h2g) : h2g' = SubSeq(h2g, n + 1, Len(h2g))
  /\ UNCHANGED <<notified, g2h, db, shake, slot, reader, threads, clients,
                 open>>

(* rwip_process takes the next op when it is done with the last one.       *)
TakesOp(op) ==
  /\ dial = "none"
  /\ h2g # << >> /\ Head(h2g) = op
  /\ h2g' = Tail(h2g)

(***************************************************************************)
(* stub_conn_dispatch_connect: ignored while a link is up, or no callbacks *)
(* are registered; otherwise the link is up while le_connection_req runs,  *)
(* EVT_CONNECTED is sent, and the pairing starts if the firmware has not   *)
(* dropped the link by then.  Nothing looks again before EVT_PAIRED.       *)
(***************************************************************************)
GuestConnect ==
  /\ TakesOp("connect")
  /\ \/ phase # "off" /\ ~link /\ link' = TRUE /\ dial' = "request"
     \/ (phase = "off" \/ link) /\ UNCHANGED <<link, dial>>
  /\ UNCHANGED <<phase, reboots, tested, dropping, notified, g2h, db, shake,
                 slot, reader, threads, clients, open>>

GuestAnnounce ==
  /\ dial = "request"
  /\ Emit(Evt("connected"))
  /\ dial' = IF link THEN "pair" ELSE "none"
  /\ UNCHANGED <<phase, reboots, link, tested, dropping, notified, h2g, db,
                 shake, slot, reader, threads, clients, open>>

(* The firmware may not accept the pairing, which ends it without a word.  *)
GuestPair ==
  /\ dial = "pair"
  /\ \/ Emit(Evt("paired"))
     \/ Rejects /\ UNCHANGED g2h
  /\ dial' = "none"
  /\ UNCHANGED <<phase, reboots, link, tested, dropping, notified, h2g, db,
                 shake, slot, reader, threads, clients, open>>

(* Mutant: a disconnection is not announced.                               *)
DropLinkSilently == link' = FALSE /\ UNCHANGED g2h

(* stub_conn_dispatch_disconnect with a link up.                           *)
DropLink == link' = FALSE /\ Emit(Evt("disconnected"))

GuestDisconnect ==
  /\ TakesOp("disconnect")
  /\ \/ link /\ DropLink
     \/ ~link /\ UNCHANGED <<link, g2h>>
  /\ UNCHANGED <<phase, reboots, dial, tested, dropping, notified, db, shake,
                 slot, reader, threads, clients, open>>

(* stub_gatt_host_write; its EVT_WRITE_STATUS is one the bridge ignores.   *)
GuestWrite ==
  /\ TakesOp("write")
  /\ UNCHANGED <<guest, g2h, db, shake, slot, reader, threads, clients, open>>

(* The firmware drops the link itself (hstub_gapc_disconnect), from a      *)
(* callback of the sequence above or from another thread: the test of      *)
(* connected, then the rest.                                               *)
FirmwareDrops ==
  /\ Rejects
  /\ phase = "up" /\ link
  /\ ~dropping
  /\ dropping' = TRUE
  /\ UNCHANGED <<phase, reboots, link, dial, tested, notified, queues, db,
                 shake, slot, reader, threads, clients, open>>

FirmwareDisconnects ==
  /\ dropping
  /\ dropping' = FALSE
  /\ DropLink
  /\ UNCHANGED <<phase, reboots, dial, tested, notified, h2g, db, shake, slot,
                 reader, threads, clients, open>>

(* hstub_gatt_srv_event_send: the test of connected, then the event.       *)
FirmwareTests ==
  /\ phase = "up" /\ link
  /\ ~tested /\ notified < MaxNotify
  /\ tested' = TRUE
  /\ UNCHANGED <<phase, reboots, link, dial, dropping, notified, queues, db,
                 shake, slot, reader, threads, clients, open>>

FirmwareNotifies ==
  /\ tested
  /\ tested' = FALSE
  /\ notified' = notified + 1
  /\ Emit([kind |-> "notify", n |-> notified + 1])
  /\ UNCHANGED <<phase, reboots, link, dial, dropping, h2g, db, shake, slot,
                 reader, threads, clients, open>>

GuestOp ==
  \/ GuestConnect \/ GuestAnnounce \/ GuestPair
  \/ GuestDisconnect \/ GuestWrite

-----------------------------------------------------------------------------
(* _doorbell_loop and _handle_evt                                          *)

Takes(kind) ==
  /\ bpc = "read"
  /\ g2h # << >>
  /\ Head(g2h).kind = kind
  /\ g2h' = Tail(g2h)

(* Mutant: the client is forgotten, and closing it left to its thread.     *)
TakeSlotOnly == slot' = Nobody /\ UNCHANGED <<target, bpc>>

(* client, self._client = self._client, None; then it is closed if any.    *)
TakeSlot ==
  /\ slot' = Nobody
  /\ target' = slot
  /\ bpc' = IF slot = Nobody THEN "read" ELSE "close"

(* A start handle seen before is a reboot: forget everything, drop the     *)
(* client.                                                                 *)
HandleSvc ==
  /\ Takes("svc")
  /\ svcSeen' = TRUE
  /\ \/ /\ svcSeen
        /\ handles' = FALSE /\ dbReady' = FALSE
        /\ connectedEvt' = FALSE /\ pairedEvt' = FALSE
        /\ TakeSlot
     \/ ~svcSeen /\ UNCHANGED <<handles, dbReady, shake, slot, bpc, target>>
  /\ UNCHANGED <<guest, h2g, note, threads, clients, open>>

(* _resolve_handles                                                        *)
HandleAtt ==
  /\ Takes("att")
  /\ handles' = TRUE
  /\ dbReady' = TRUE
  /\ UNCHANGED <<guest, h2g, svcSeen, shake, slot, reader, threads, clients,
                 open>>

HandleConnected ==
  /\ Takes("connected")
  /\ connectedEvt' = TRUE
  /\ UNCHANGED <<guest, h2g, db, pairedEvt, slot, reader, threads, clients,
                 open>>

HandlePaired ==
  /\ Takes("paired")
  /\ pairedEvt' = TRUE
  /\ UNCHANGED <<guest, h2g, db, connectedEvt, slot, reader, threads, clients,
                 open>>

HandleDisconnected ==
  /\ Takes("disconnected")
  /\ TakeSlot
  /\ UNCHANGED <<guest, h2g, db, shake, note, threads, clients, open>>

(* The client is looked up under the lock and written to outside it.       *)
HandleNotify ==
  /\ Takes("notify")
  /\ IF handles /\ slot # Nobody
     THEN bpc' = "send" /\ target' = slot /\ note' = Head(g2h).n
     ELSE UNCHANGED reader
  /\ UNCHANGED <<guest, h2g, db, shake, slot, threads, clients, open>>

(* _handle_evt is done, and its locals with it.                            *)
Returns == bpc' = "read" /\ target' = Nobody /\ note' = 0

(* Mutant: a send that gives up when the client is slow.                   *)
SendOrSkip ==
  /\ bpc = "send"
  /\ received' \in {received} \cup
       {[received EXCEPT ![s] = Append(@, note)] :
          s \in {s \in {target} : open[s] /\ ~gone[s]}}
  /\ Returns
  /\ UNCHANGED <<guest, queues, db, shake, slot, threads, gone, open>>

(* client.sendall; a socket that is closed is an OSError, which passes.    *)
SendToClient ==
  /\ bpc = "send"
  /\ received' = IF open[target] /\ ~gone[target]
                 THEN [received EXCEPT ![target] = Append(@, note)]
                 ELSE received
  /\ Returns
  /\ UNCHANGED <<guest, queues, db, shake, slot, threads, gone, open>>

(* _hard_close: shutdown, which wakes a thread blocked in recv, and close. *)
Close(s) ==
  /\ open' = [open EXCEPT ![s] = FALSE]
  /\ received' = [received EXCEPT ![s] = << >>]

HardClose ==
  /\ bpc \in {"close", "leave"}
  /\ Close(target)
  /\ bpc' = IF bpc = "close" THEN "read" ELSE "left"
  /\ target' = Nobody /\ note' = 0
  /\ UNCHANGED <<guest, queues, db, shake, slot, threads, gone>>

(***************************************************************************)
(* while not self._stop: the loop looks at the flag before each recv, so   *)
(* frames of a chunk it has, or that it already waits for, are handled     *)
(* first; then it drops the client and is gone.                            *)
(***************************************************************************)
ReaderLeaves ==
  /\ Stopped
  /\ bpc = "read"
  /\ slot' = Nobody
  /\ target' = slot
  /\ bpc' = IF slot = Nobody THEN "left" ELSE "leave"
  /\ UNCHANGED <<guest, queues, db, shake, note, threads, clients, open>>

Reader ==
  \/ HandleSvc \/ HandleAtt \/ HandleConnected \/ HandlePaired
  \/ HandleDisconnected \/ HandleNotify \/ SendToClient \/ HardClose

-----------------------------------------------------------------------------
(* _serve                                                                  *)

(* The slot is looked at and taken under the lock.                         *)
Accept(s) ==
  /\ ~Stopped
  /\ \A t \in Sessions : pc[t] # "accepted"
  /\ pc[s] = "none"
  /\ \/ /\ slot = Nobody
        /\ slot' = s
        /\ open' = [open EXCEPT ![s] = TRUE]
        /\ pc' = [pc EXCEPT ![s] = "accepted"]
     \/ /\ slot # Nobody             (* "second client refused"            *)
        /\ pc' = [pc EXCEPT ![s] = "refused"]
        /\ UNCHANGED <<slot, open>>
  /\ UNCHANGED <<guest, queues, db, shake, reader, ours, clients>>

(***************************************************************************)
(* setsockopt and the start of the client's thread, outside the lock.  A   *)
(* socket that the doorbell thread has taken out of the slot and closed    *)
(* meanwhile makes setsockopt raise: the client's thread is never started, *)
(* _serve ends, and with it the bridge accepts nobody any more.            *)
(***************************************************************************)
StartThread(s) ==
  /\ pc[s] = "accepted"
  /\ pc' = [pc EXCEPT ![s] = IF open[s] THEN "db" ELSE "unserved"]
  /\ UNCHANGED <<guest, queues, db, shake, slot, reader, ours, clients, open>>

-----------------------------------------------------------------------------
(* _run_client                                                             *)

Goes(s, from, to) == pc[s] = from /\ pc' = [pc EXCEPT ![s] = to]

(* A wait of the bridge's runs out when no answer is under way, when       *)
(* nobody is left to hand it over, or when the guest is that slow.         *)
TimesOut ==
  \/ SlowGuest
  \/ bpc = "left"
  \/ h2g = << >> /\ g2h = << >> /\ dial = "none" /\ bpc = "read"

WaitDatabase(s) ==
  /\ \/ dbReady /\ Goes(s, "db", "clear")
     \/ TimesOut /\ ~dbReady /\ Goes(s, "db", "finally")
  /\ UNCHANGED <<guest, queues, db, shake, slot, reader, ours, clients, open>>

ClearEvents(s) ==
  /\ Goes(s, "clear", "dial")
  /\ connectedEvt' = FALSE
  /\ pairedEvt' = FALSE
  /\ UNCHANGED <<guest, queues, db, slot, reader, ours, clients, open>>

(* Mutant: an op is sent although the doorbell is throttled.               *)
SendOpUnthrottled(op) == h2g' = Append(h2g, op)

SendOp(op) ==
  /\ Len(h2g) < Cap
  /\ h2g' = Append(h2g, op)

DialGuest(s) ==
  /\ Goes(s, "dial", "connecting")
  /\ SendOp("connect")
  /\ UNCHANGED <<guest, g2h, db, shake, slot, reader, ours, clients, open>>

(* The two waits of ten seconds.                                           *)
WaitConnected(s) ==
  /\ \/ connectedEvt /\ Goes(s, "connecting", "pairing")
     \/ TimesOut /\ ~connectedEvt /\ Goes(s, "connecting", "finally")
  /\ UNCHANGED <<guest, queues, db, shake, slot, reader, ours, clients, open>>

WaitPaired(s) ==
  /\ \/ pairedEvt /\ Goes(s, "pairing", "subscribe")
     \/ TimesOut /\ ~pairedEvt /\ Goes(s, "pairing", "finally")
  /\ UNCHANGED <<guest, queues, db, shake, slot, reader, ours, clients, open>>

(* The CCC writes, one here for three; without handles "name in h" raises  *)
(* and only the finally clause runs.                                       *)
Subscribe(s) ==
  /\ \/ handles /\ Goes(s, "subscribe", "loop") /\ SendOp("write")
     \/ ~handles /\ Goes(s, "subscribe", "finally") /\ UNCHANGED h2g
  /\ UNCHANGED <<guest, g2h, db, shake, slot, reader, ours, clients, open>>

(* Mutant: closing the socket does not wake the thread blocked in recv, as *)
(* a bare close() does not.                                                *)
LoopReceiveAsleep(s) ==
  /\ \/ open[s] /\ ~gone[s] /\ Goes(s, "loop", "forward")
     \/ gone[s] /\ Goes(s, "loop", "finally")
  /\ UNCHANGED <<guest, queues, db, shake, slot, reader, ours, clients, open>>

(* recv: data, of a payload that may be over the MTU ("dropping client"),  *)
(* or the end of the stream, or the socket was closed, or the bridge has   *)
(* stopped (after the chunk under way).                                    *)
LoopReceive(s) ==
  /\ \/ open[s] /\ ~gone[s] /\ Goes(s, "loop", "forward")
     \/ Goes(s, "loop", "finally")
  /\ UNCHANGED <<guest, queues, db, shake, slot, reader, ours, clients, open>>

(* A frame is dropped while the guest reboots, or for its channel.         *)
LoopForward(s) ==
  /\ Goes(s, "forward", "loop")
  /\ \/ handles /\ SendOp("write")
     \/ UNCHANGED h2g
  /\ UNCHANGED <<guest, g2h, db, shake, slot, reader, ours, clients, open>>

FinallySlot(s) ==
  /\ Goes(s, "finally", "close")
  /\ ours' = [ours EXCEPT ![s] = slot = s]
  /\ slot' = IF slot = s THEN Nobody ELSE slot
  /\ UNCHANGED <<guest, queues, db, shake, reader, clients, open>>

(* Mutant: a thread that has lost the slot leaves the socket alone.        *)
FinallyCloseOurs(s) ==
  /\ Goes(s, "close", IF ours[s] /\ ~Stopped THEN "goodbye" ELSE "done")
  /\ IF ours[s] THEN Close(s) ELSE UNCHANGED <<open, received>>
  /\ ours' = [ours EXCEPT ![s] = FALSE]
  /\ UNCHANGED <<guest, queues, db, shake, slot, reader, gone>>

FinallyClose(s) ==
  /\ Goes(s, "close", IF ours[s] /\ ~Stopped THEN "goodbye" ELSE "done")
  /\ Close(s)
  /\ ours' = [ours EXCEPT ![s] = FALSE]
  /\ UNCHANGED <<guest, queues, db, shake, slot, reader, gone>>

(* Tell the guest its central went away.                                   *)
FinallyGoodbye(s) ==
  /\ Goes(s, "goodbye", "done")
  /\ SendOp("disconnect")
  /\ UNCHANGED <<guest, g2h, db, shake, slot, reader, ours, clients, open>>

RunClient(s) ==
  \/ WaitDatabase(s) \/ ClearEvents(s) \/ DialGuest(s)
  \/ WaitConnected(s) \/ WaitPaired(s) \/ Subscribe(s)
  \/ LoopReceive(s) \/ LoopForward(s)
  \/ FinallySlot(s) \/ FinallyClose(s) \/ FinallyGoodbye(s)

-----------------------------------------------------------------------------
(* The TCP clients: each may connect, be refused or served, and close.     *)

PeerClose(s) ==
  /\ pc[s] \notin {"none", "refused"}
  /\ ~gone[s]
  /\ gone' = [gone EXCEPT ![s] = TRUE]
  /\ UNCHANGED <<guest, queues, db, shake, slot, reader, threads, received,
                 open>>

-----------------------------------------------------------------------------
Next ==
  \/ GuestBoot \/ GuestOp \/ GuestReboot
  \/ FirmwareDrops \/ FirmwareDisconnects
  \/ FirmwareTests \/ FirmwareNotifies
  \/ Reader \/ ReaderLeaves
  \/ \E s \in Sessions :
       Accept(s) \/ StartThread(s) \/ RunClient(s) \/ PeerClose(s)

Spec == Init /\ [][Next]_vars

(***************************************************************************)
(* Every thread of the bridge runs, its timeouts expire, the guest boots   *)
(* and answers.  A client's thread that waits for the doorbell gets its    *)
(* turn although others keep using it (strong fairness: a thread blocked   *)
(* on a lock or a socket is not passed over for ever).  The clients, the   *)
(* firmware and the reboots owe nothing, nor does a doorbell thread that   *)
(* is to stop and waits for a frame.                                       *)
(***************************************************************************)
Fairness ==
  /\ WF_vars(GuestBoot)
  /\ WF_vars(GuestOp)
  /\ WF_vars(Reader)
  /\ \A s \in Sessions :
       WF_vars(Accept(s)) /\ WF_vars(StartThread(s)) /\ SF_vars(RunClient(s))

FairSpec == Spec /\ Fairness
-----------------------------------------------------------------------------
(* Properties.                                                             *)

Ops == {"connect", "disconnect", "write"}
Events ==
  [kind : {"svc", "att", "connected", "paired", "disconnected", "notify"},
   n : 0 .. MaxNotify]

TypeOK ==
  /\ phase \in {"off", "configured", "service", "up"}
  /\ reboots \in 0 .. MaxReboots
  /\ link \in BOOLEAN
  /\ dial \in {"none", "request", "pair"}
  /\ tested \in BOOLEAN
  /\ dropping \in BOOLEAN
  /\ notified \in 0 .. MaxNotify
  /\ h2g \in Seq(Ops) /\ Len(h2g) <= Cap
  /\ g2h \in Seq(Events) /\ Len(g2h) <= Cap
  /\ {svcSeen, handles, dbReady, connectedEvt, pairedEvt} \subseteq BOOLEAN
  /\ slot \in Sessions \cup {Nobody}
  /\ bpc \in {"read", "send", "close", "leave", "left"}
  /\ target \in Sessions \cup {Nobody}
  /\ note \in 0 .. MaxNotify
  /\ pc \in [Sessions -> {"none", "refused", "accepted", "unserved", "db",
                          "clear", "dial", "connecting", "pairing",
                          "subscribe", "loop", "forward", "finally", "close",
                          "goodbye", "done"}]
  /\ ours \in [Sessions -> BOOLEAN]
  /\ gone \in [Sessions -> BOOLEAN]
  /\ open \in [Sessions -> BOOLEAN]
  /\ received \in [Sessions -> Seq(1 .. MaxNotify)]

Queued(kind) == \E i \in 1 .. Len(g2h) : g2h[i].kind = kind

Serving == {"subscribe", "loop", "forward"}

(***************************************************************************)
(* A client that holds the slot and is being served has the guest's link   *)
(* behind it, or the event that will drop it is on its way: a disconnect,  *)
(* or the dump that shows a reboot.  A client that talked to a guest with  *)
(* no link, and was never told, would hang forever.                        *)
(***************************************************************************)
ServedOrTold ==
  \A s \in Sessions :
    slot = s /\ pc[s] \in Serving =>
      \/ link
      \/ Queued("disconnected")
      \/ phase \in {"off", "configured"}
      \/ Queued("svc")

(***************************************************************************)
(* No socket is leaked: one that is open, or that holds the slot, belongs  *)
(* to a thread that will still close it, or to _serve, which runs and has  *)
(* yet to start that thread.  In particular the client whose thread cannot *)
(* be started leaves neither an open socket nor a taken slot behind.       *)
(***************************************************************************)
SocketsOwned ==
  \A s \in Sessions :
    open[s] \/ slot = s =>
      /\ pc[s] \notin {"none", "refused", "unserved", "goodbye", "done"}
      /\ pc[s] = "accepted" => open[s] /\ ~Stopped

(***************************************************************************)
(* "Notifications are never dropped": what a client receives is an         *)
(* unbroken run of the guest's notifications, and as long as it holds the  *)
(* slot nothing after its first one is missing but what is under way.      *)
(***************************************************************************)
Missing(s) == received[s] # << >> /\ received[s][Len(received[s])] # notified

NoGaps ==
  \A s \in Sessions :
    /\ \A i \in 1 .. Len(received[s]) - 1 :
         received[s][i + 1] = received[s][i] + 1
    /\ slot = s /\ ~gone[s] /\ Missing(s) =>
         Queued("notify") \/ bpc = "send"

(***************************************************************************)
(* "One client at a time": two sockets are open only while one of them is  *)
(* being closed, by the doorbell thread that took it out of the slot or by *)
(* its own thread.                                                         *)
(***************************************************************************)
Closing(s) ==
  pc[s] = "close" \/ (bpc \in {"close", "leave"} /\ target = s)

OneClientAtATime ==
  \A s, t \in Sessions :
    s # t /\ open[s] /\ open[t] => Closing(s) \/ Closing(t)

(***************************************************************************)
(* A session whose client has gone or been dropped comes to an end, and    *)
(* so the slot is free for the next one, as long as the bridge runs.  (It  *)
(* stops when StartThread finds the socket closed: then nobody reads the   *)
(* doorbell any more, and a thread may wait there for ever.)               *)
(***************************************************************************)
SessionsEnd ==
  \A s \in Sessions :
    (pc[s] \notin {"none", "refused"} /\ (gone[s] \/ ~open[s]))
      ~> (pc[s] = "done" \/ Stopped)

-----------------------------------------------------------------------------
(* What the source says and the code does not do.                          *)

AllQuiet ==
  /\ phase = "up" /\ h2g = << >> /\ g2h = << >> /\ bpc = "read"
  /\ dial = "none"
  /\ \A s \in Sessions : pc[s] \in {"none", "refused", "done"}

(***************************************************************************)
(* "Tell the guest its central went away": when no client is left and      *)
(* everything has been handled, the guest has no link.                     *)
(***************************************************************************)
GuestToldOfLeave == AllQuiet => ~link
=============================================================================
