-------------------------- MODULE ReplBridgeProofs --------------------------
(***************************************************************************)
(* The REPL bridge, for any clients, queue sizes, reboots and numbers of   *)
(* notifications: no socket leaks, one client is served at a time, and a   *)
(* client receives an unbroken run of the guest's notifications.           *)
(***************************************************************************)
EXTENDS ReplBridge, TLAPS

(* The slot's holder has an open socket and a thread that will come to its *)
(* finally clause, or will have one; a socket outlives its place in the    *)
(* slot only to be closed; and _serve starts no thread once it has ended.  *)
SlotServed ==
  \A s \in Sessions : slot = s =>
    open[s] /\ pc[s] \notin {"none", "refused", "unserved", "close", "goodbye",
                            "done"}

SocketsClosing ==
  \A s \in Sessions :
    /\ open[s] => pc[s] \notin {"none", "refused", "unserved", "goodbye", "done"}
    /\ open[s] => slot = s \/ Closing(s)
    /\ ~open[s] => received[s] = << >>

(* What the doorbell thread took under the lock is a client that has run,  *)
(* and one that it closes has lost the slot.                               *)
TargetTaken ==
  bpc \notin {"read", "left"} =>
    /\ target \in Sessions
    /\ pc[target] \notin {"none", "refused"}
    /\ bpc # "send" => slot # target

OneAcceptor ==
  \A s \in Sessions : pc[s] = "accepted" =>
    /\ ~Stopped
    /\ \A t \in Sessions \ {s} : pc[t] # "accepted"

SlotInv == SlotServed /\ SocketsClosing /\ TargetTaken /\ OneAcceptor

(* The notifications of q are numbered lo + 1 to hi, in that order.        *)
IsNotify(e) == e.kind = "notify"

Numbered(q, lo, hi) ==
  /\ \A i \in 1 .. Len(q) : IsNotify(q[i]) => q[i].n \in lo + 1 .. hi
  /\ \A i, j \in 1 .. Len(q) :
       i < j /\ IsNotify(q[i]) /\ IsNotify(q[j]) => q[i].n < q[j].n
  /\ \A k \in lo + 1 .. hi :
       \E i \in 1 .. Len(q) : IsNotify(q[i]) /\ q[i].n = k

Last(s) == received[s][Len(received[s])]

(* The doorbell thread has taken the notifications up to lo, and the       *)
(* client it serves has them, but for the one that is being sent.          *)
Heard(lo) ==
  /\ bpc = "send" => note = lo /\ lo >= 1 /\ (slot = target => handles)
  /\ \A s \in Sessions : received[s] # << >> =>
       /\ slot = s => handles
       /\ slot = s /\ bpc = "send" => target = s
       /\ slot = s /\ bpc # "send" /\ ~gone[s] => Last(s) = lo
       /\ bpc = "send" /\ target = s /\ ~gone[s] => Last(s) = lo - 1

Taken == \E lo \in 0 .. notified : Numbered(g2h, lo, notified) /\ Heard(lo)

Runs ==
  \A s \in Sessions : \A i \in 1 .. Len(received[s]) - 1 :
    received[s][i + 1] = received[s][i] + 1

TestedInRoom == tested => notified < MaxNotify

BridgeInv == TypeOK /\ TestedInRoom /\ SlotInv /\ Taken /\ Runs

GuestStep ==
  \/ GuestBoot \/ GuestOp \/ GuestReboot
  \/ FirmwareDrops \/ FirmwareDisconnects
  \/ FirmwareTests \/ FirmwareNotifies

ReaderStep == Reader \/ ReaderLeaves

ClientStep(s) ==
  Accept(s) \/ StartThread(s) \/ RunClient(s) \/ PeerClose(s)

BridgeSide == <<db, shake, slot, reader, threads, clients, open>>

-----------------------------------------------------------------------------
(* The queue's numbers.                                                    *)
LEMMA OtherSent ==
  ASSUME NEW q \in Seq(Events), NEW e \in Events, ~IsNotify(e),
         NEW lo \in Nat, NEW hi \in Nat, Numbered(q, lo, hi)
  PROVE  Numbered(Append(q, e), lo, hi)
<1>1. /\ Len(Append(q, e)) = Len(q) + 1
      /\ \A i \in 1 .. Len(q) : Append(q, e)[i] = q[i]
      /\ Append(q, e)[Len(q) + 1] = e
  OBVIOUS
<1>2. Len(q) \in Nat OBVIOUS
<1>3. \A i \in 1 .. Len(q) + 1 : i \in 1 .. Len(q) \/ i = Len(q) + 1
  BY <1>2
<1>4. \A i \in 1 .. Len(q) : i \in 1 .. Len(q) + 1 BY <1>2
<1> DEFINE a == Append(q, e)
<1>5. /\ Len(a) = Len(q) + 1 /\ \A i \in 1 .. Len(q) : a[i] = q[i]
      /\ a[Len(q) + 1] = e
  BY <1>1
<1> HIDE DEF a
<1>6. \A i \in 1 .. Len(a) : IsNotify(a[i]) => i \in 1 .. Len(q) /\ a[i] = q[i]
  BY <1>3, <1>5
<1>7. Numbered(a, lo, hi) BY <1>4, <1>5, <1>6 DEF Numbered
<1> QED BY <1>7 DEF a

LEMMA NotifySent ==
  ASSUME NEW q \in Seq(Events), NEW e \in Events, IsNotify(e),
         NEW lo \in Nat, NEW hi \in Nat, lo <= hi, e.n = hi + 1,
         Numbered(q, lo, hi)
  PROVE  Numbered(Append(q, e), lo, hi + 1)
<1> DEFINE a == Append(q, e)
           m == Len(q)
<1>1. /\ Len(a) = m + 1 /\ \A i \in 1 .. m : a[i] = q[i]
      /\ a[m + 1] = e /\ m \in Nat
  OBVIOUS
<1> HIDE DEF a, m
<1>2. \A i \in 1 .. m : IsNotify(q[i]) => q[i].n \in lo + 1 .. hi
  BY DEF Numbered, m
<1>3. \A i, j \in 1 .. m :
        i < j /\ IsNotify(q[i]) /\ IsNotify(q[j]) => q[i].n < q[j].n
  BY DEF Numbered, m
<1>4. \A k \in lo + 1 .. hi : \E i \in 1 .. m : IsNotify(q[i]) /\ q[i].n = k
  BY DEF Numbered, m
<1>5. ASSUME NEW i \in 1 .. Len(a), IsNotify(a[i])
      PROVE  a[i].n \in lo + 1 .. hi + 1
  <2>1. CASE i = m + 1 BY <2>1, <1>1
  <2>2. CASE i # m + 1
    <3>1. i \in 1 .. m BY <2>2, <1>1
    <3>2. q[i].n \in lo + 1 .. hi BY <3>1, <1>1, <1>2, <1>5
    <3> QED BY <3>1, <3>2, <1>1
  <2> QED BY <2>1, <2>2
<1>6. ASSUME NEW i \in 1 .. Len(a), NEW j \in 1 .. Len(a), i < j,
             IsNotify(a[i]), IsNotify(a[j])
      PROVE  a[i].n < a[j].n
  <2>1. i \in 1 .. m BY <1>1, <1>6
  <2>2. a[i] = q[i] /\ q[i].n \in lo + 1 .. hi BY <2>1, <1>1, <1>2, <1>6
  <2>3. CASE j = m + 1 BY <2>2, <2>3, <1>1
  <2>4. CASE j # m + 1
    <3>1. j \in 1 .. m BY <2>4, <1>1
    <3> QED BY <3>1, <2>1, <1>1, <1>3, <1>6
  <2> QED BY <2>3, <2>4
<1>7. ASSUME NEW k \in lo + 1 .. hi + 1
      PROVE  \E i \in 1 .. Len(a) : IsNotify(a[i]) /\ a[i].n = k
  <2>1. CASE k = hi + 1
    <3>1. m + 1 \in 1 .. Len(a) BY <1>1
    <3> QED BY <3>1, <2>1, <1>1
  <2>2. CASE k # hi + 1
    <3>1. PICK i \in 1 .. m : IsNotify(q[i]) /\ q[i].n = k BY <2>2, <1>4
    <3>2. i \in 1 .. Len(a) BY <1>1
    <3> QED BY <3>1, <3>2, <1>1
  <2> QED BY <2>1, <2>2
<1>8. Numbered(a, lo, hi + 1) BY <1>5, <1>6, <1>7 DEF Numbered
<1> QED BY <1>8 DEF a

LEMMA TailOf ==
  ASSUME NEW q \in Seq(Events), q # << >>
  PROVE  /\ Tail(q) \in Seq(Events) /\ Len(q) \in Nat /\ Len(q) >= 1
         /\ Len(Tail(q)) = Len(q) - 1 /\ Head(q) = q[1] /\ q[1] \in Events
         /\ \A i \in 1 .. Len(q) - 1 : Tail(q)[i] = q[i + 1]
OBVIOUS

LEMMA OtherTaken ==
  ASSUME NEW q \in Seq(Events), q # << >>, ~IsNotify(Head(q)),
         NEW lo \in Nat, NEW hi \in Nat, Numbered(q, lo, hi)
  PROVE  Numbered(Tail(q), lo, hi)
<1> DEFINE t == Tail(q)
           m == Len(q)
<1>1. /\ m \in Nat /\ m >= 1 /\ Len(t) = m - 1 /\ ~IsNotify(q[1])
      /\ \A i \in 1 .. m - 1 : t[i] = q[i + 1]
  BY TailOf
<1> HIDE DEF t
<1>2. \A i \in 1 .. m - 1 : i + 1 \in 1 .. m BY <1>1
<1>3. \A i \in 1 .. Len(t) : t[i] = q[i + 1] /\ i + 1 \in 1 .. m
  BY <1>1, <1>2
<1>4. \A i \in 1 .. Len(t) : IsNotify(t[i]) => t[i].n \in lo + 1 .. hi
  BY <1>3 DEF Numbered
<1>5. ASSUME NEW i \in 1 .. Len(t), NEW j \in 1 .. Len(t), i < j,
             IsNotify(t[i]), IsNotify(t[j])
      PROVE  t[i].n < t[j].n
  <2>1. i + 1 < j + 1 BY <1>1, <1>5
  <2> QED BY <2>1, <1>3, <1>5 DEF Numbered
<1>6. ASSUME NEW k \in lo + 1 .. hi
      PROVE  \E i \in 1 .. Len(t) : IsNotify(t[i]) /\ t[i].n = k
  <2>1. PICK i \in 1 .. m : IsNotify(q[i]) /\ q[i].n = k BY DEF Numbered
  <2>2. i # 1 BY <2>1, <1>1
  <2>3. i - 1 \in 1 .. Len(t) /\ (i - 1) + 1 = i BY <2>2, <1>1
  <2> QED BY <2>1, <2>3, <1>3
<1>7. Numbered(t, lo, hi) BY <1>4, <1>5, <1>6 DEF Numbered
<1> QED BY <1>7 DEF t

(* The first one in the queue is the next one to be taken.                 *)
LEMMA NotifyTaken ==
  ASSUME NEW q \in Seq(Events), q # << >>, IsNotify(Head(q)),
         NEW lo \in Nat, NEW hi \in Nat, Numbered(q, lo, hi)
  PROVE  /\ lo + 1 <= hi /\ Head(q).n = lo + 1
         /\ Numbered(Tail(q), lo + 1, hi)
<1> DEFINE t == Tail(q)
           m == Len(q)
<1>1. /\ m \in Nat /\ m >= 1 /\ Len(t) = m - 1
      /\ Head(q) = q[1] /\ IsNotify(q[1])
      /\ \A i \in 1 .. m - 1 : t[i] = q[i + 1]
  BY TailOf
<1> HIDE DEF t
<1>2. 1 \in 1 .. m /\ q[1].n \in lo + 1 .. hi BY <1>1 DEF Numbered
<1>3. lo + 1 <= hi /\ lo + 1 \in lo + 1 .. hi BY <1>2
<1>4. PICK f \in 1 .. m : IsNotify(q[f]) /\ q[f].n = lo + 1
  BY <1>3 DEF Numbered
<1>5. q[1].n = lo + 1
  <2>1. CASE f = 1 BY <2>1, <1>4
  <2>2. CASE f # 1
    <3>1. 1 < f BY <2>2, <1>1
    <3>2. q[1].n < q[f].n BY <3>1, <1>1, <1>2, <1>4 DEF Numbered
    <3> QED BY <3>2, <1>2, <1>4
  <2> QED BY <2>1, <2>2
<1>6. \A i \in 1 .. Len(t) : t[i] = q[i + 1] /\ i + 1 \in 1 .. m /\ 1 < i + 1
  BY <1>1
<1>7. ASSUME NEW i \in 1 .. Len(t), IsNotify(t[i])
      PROVE  t[i].n \in (lo + 1) + 1 .. hi
  <2>1. q[1].n < q[i + 1].n BY <1>1, <1>2, <1>6, <1>7 DEF Numbered
  <2>2. q[i + 1].n \in lo + 1 .. hi BY <1>6, <1>7 DEF Numbered
  <2> QED BY <2>1, <2>2, <1>5, <1>6
<1>8. ASSUME NEW i \in 1 .. Len(t), NEW j \in 1 .. Len(t), i < j,
             IsNotify(t[i]), IsNotify(t[j])
      PROVE  t[i].n < t[j].n
  <2>1. i + 1 < j + 1 BY <1>1, <1>8
  <2> QED BY <2>1, <1>6, <1>8 DEF Numbered
<1>9. ASSUME NEW k \in (lo + 1) + 1 .. hi
      PROVE  \E i \in 1 .. Len(t) : IsNotify(t[i]) /\ t[i].n = k
  <2>1. PICK i \in 1 .. m : IsNotify(q[i]) /\ q[i].n = k
    <3>1. k \in lo + 1 .. hi OBVIOUS
    <3> QED BY <3>1 DEF Numbered
  <2>2. i # 1 BY <2>1, <1>5
  <2>3. i - 1 \in 1 .. Len(t) /\ (i - 1) + 1 = i BY <2>2, <1>1
  <2> QED BY <2>1, <2>3, <1>6
<1>10. Numbered(t, lo + 1, hi) BY <1>7, <1>8, <1>9 DEF Numbered
<1> QED BY <1>1, <1>3, <1>5, <1>10 DEF t

-----------------------------------------------------------------------------
(* Types.                                                                  *)
LEMMA Bounds ==
  /\ Nobody \notin Sessions /\ Cap \in Nat /\ Cap >= 2
  /\ MaxNotify \in Nat /\ MaxReboots \in Nat
BY BridgeAssumption

LEMMA OpSent ==
  ASSUME TypeOK, NEW op \in Ops, SendOp(op)
  PROVE  h2g' \in Seq(Ops) /\ Len(h2g') <= Cap
<1>1. /\ h2g \in Seq(Ops) /\ Len(h2g) < Cap /\ h2g' = Append(h2g, op)
  BY DEF TypeOK, SendOp
<1> QED BY <1>1, Bounds

LEMMA OpTaken ==
  ASSUME TypeOK, NEW op, TakesOp(op)
  PROVE  h2g' \in Seq(Ops) /\ Len(h2g') <= Cap
<1>1. /\ h2g \in Seq(Ops) /\ Len(h2g) <= Cap /\ h2g # << >>
      /\ h2g' = Tail(h2g)
  BY DEF TypeOK, TakesOp
<1> QED BY <1>1, Bounds

LEMMA EventSent ==
  ASSUME TypeOK, NEW e \in Events, Emit(e)
  PROVE  g2h' \in Seq(Events) /\ Len(g2h') <= Cap
<1>1. /\ g2h \in Seq(Events) /\ Len(g2h) < Cap /\ g2h' = Append(g2h, e)
  BY DEF TypeOK, Emit
<1> QED BY <1>1, Bounds

LEMMA EventTaken ==
  ASSUME TypeOK, NEW kind, Takes(kind)
  PROVE  /\ g2h' \in Seq(Events) /\ Len(g2h') <= Cap
         /\ Head(g2h) \in Events
<1>1. /\ g2h \in Seq(Events) /\ Len(g2h) <= Cap /\ g2h # << >>
      /\ g2h' = Tail(g2h)
  BY DEF TypeOK, Takes
<1> QED BY <1>1, Bounds, TailOf

LEMMA Kinds ==
  /\ \A k \in {"svc", "att", "connected", "paired", "disconnected"} :
       Evt(k) \in Events /\ ~IsNotify(Evt(k))
  /\ {"connect", "disconnect", "write"} = Ops
BY Bounds DEF Evt, Events, IsNotify, Ops

LEMMA TypeGuest ==
  ASSUME TypeOK, TestedInRoom, GuestStep
  PROVE  TypeOK' /\ TestedInRoom'
<1> USE DEF TypeOK, TestedInRoom, db, shake, reader, threads, clients
<1>1. CASE GuestBoot
  <2>1. g2h' \in Seq(Events) /\ Len(g2h') <= Cap
    BY <1>1, Kinds, EventSent DEF GuestBoot
  <2> QED BY <1>1, <2>1 DEF GuestBoot
<1>2. CASE GuestConnect
  <2>1. h2g' \in Seq(Ops) /\ Len(h2g') <= Cap
    BY <1>2, OpTaken DEF GuestConnect
  <2>2. link' \in BOOLEAN /\ dial' \in {"none", "request", "pair"}
    BY <1>2 DEF GuestConnect
  <2>3. UNCHANGED <<phase, reboots, tested, dropping, notified, g2h, db, shake,
                    slot, reader, threads, clients, open>>
    BY <1>2 DEF GuestConnect
  <2> QED BY <2>1, <2>2, <2>3
<1>3. CASE GuestAnnounce
  <2>1. g2h' \in Seq(Events) /\ Len(g2h') <= Cap
    BY <1>3, Kinds, EventSent DEF GuestAnnounce
  <2> QED BY <1>3, <2>1 DEF GuestAnnounce
<1>4. CASE GuestPair
  <2>1. g2h' \in Seq(Events) /\ Len(g2h') <= Cap
    BY <1>4, Kinds, EventSent DEF GuestPair
  <2> QED BY <1>4, <2>1 DEF GuestPair
<1>5. CASE GuestDisconnect
  <2>1. h2g' \in Seq(Ops) /\ Len(h2g') <= Cap
    BY <1>5, OpTaken DEF GuestDisconnect
  <2>2. g2h' \in Seq(Events) /\ Len(g2h') <= Cap
    BY <1>5, Kinds, EventSent DEF GuestDisconnect, DropLink
  <2>3. link' \in BOOLEAN BY <1>5 DEF GuestDisconnect, DropLink
  <2> QED BY <1>5, <2>1, <2>2, <2>3 DEF GuestDisconnect
<1>6. CASE GuestWrite
  <2>1. h2g' \in Seq(Ops) /\ Len(h2g') <= Cap
    BY <1>6, OpTaken DEF GuestWrite
  <2> QED BY <1>6, <2>1 DEF GuestWrite, guest
<1>7. CASE GuestReboot
  <2>1. PICK n \in 0 .. Len(h2g) : h2g' = SubSeq(h2g, n + 1, Len(h2g))
    BY <1>7 DEF GuestReboot
  <2>2. h2g' \in Seq(Ops) /\ Len(h2g') <= Cap BY <2>1, Bounds
  <2>3. reboots' \in 0 .. MaxReboots BY <1>7, Bounds DEF GuestReboot
  <2> QED BY <1>7, <2>2, <2>3 DEF GuestReboot
<1>8. CASE FirmwareDrops \/ FirmwareTests
  <2>1. CASE FirmwareDrops BY <2>1 DEF FirmwareDrops, queues
  <2>2. CASE FirmwareTests BY <2>2 DEF FirmwareTests, queues
  <2> QED BY <1>8, <2>1, <2>2
<1>9. CASE FirmwareDisconnects
  <2>1. g2h' \in Seq(Events) /\ Len(g2h') <= Cap
    BY <1>9, Kinds, EventSent DEF FirmwareDisconnects, DropLink
  <2> QED BY <1>9, <2>1 DEF FirmwareDisconnects, DropLink
<1>10. CASE FirmwareNotifies
  <2>1. notified' \in 0 .. MaxNotify
    BY <1>10, Bounds DEF FirmwareNotifies
  <2>2. [kind |-> "notify", n |-> notified + 1] \in Events
    BY <1>10, <2>1 DEF FirmwareNotifies, Events
  <2>3. g2h' \in Seq(Events) /\ Len(g2h') <= Cap
    BY <1>10, <2>2, EventSent DEF FirmwareNotifies
  <2> QED BY <1>10, <2>1, <2>3 DEF FirmwareNotifies
<1> QED
  BY <1>1, <1>2, <1>3, <1>4, <1>5, <1>6, <1>7, <1>8, <1>9, <1>10
  DEF GuestStep, GuestOp

LEMMA TypeReader ==
  ASSUME TypeOK, TestedInRoom, TargetTaken, bpc = "send" => note >= 1, ReaderStep
  PROVE  TypeOK' /\ TestedInRoom'
<1> USE DEF TestedInRoom, guest, db, shake, threads
<1>1. ASSUME NEW kind, Takes(kind)
      PROVE  /\ g2h' \in Seq(Events) /\ Len(g2h') <= Cap
             /\ Head(g2h).n \in 0 .. MaxNotify
  BY <1>1, EventTaken DEF Events
<1>2. CASE HandleSvc
  <2>1. /\ {svcSeen, handles, dbReady, connectedEvt, pairedEvt}' \subseteq BOOLEAN
        /\ slot' \in Sessions \cup {Nobody}
        /\ target' \in Sessions \cup {Nobody}
        /\ bpc' \in {"read", "send", "close", "leave", "left"}
    BY <1>2 DEF HandleSvc, TakeSlot, TypeOK
  <2> QED BY <1>2, <2>1, <1>1 DEF HandleSvc, clients, TypeOK
<1>3. CASE HandleAtt \/ HandleConnected \/ HandlePaired
  <2>1. CASE HandleAtt BY <2>1, <1>1 DEF HandleAtt, reader, clients, TypeOK
  <2>2. CASE HandleConnected
    BY <2>2, <1>1 DEF HandleConnected, reader, clients, TypeOK
  <2>3. CASE HandlePaired
    BY <2>3, <1>1 DEF HandlePaired, reader, clients, TypeOK
  <2> QED BY <1>3, <2>1, <2>2, <2>3
<1>4. CASE HandleDisconnected
  BY <1>4, <1>1 DEF HandleDisconnected, TakeSlot, clients, TypeOK
<1>5. CASE HandleNotify
  BY <1>5, <1>1 DEF HandleNotify, reader, clients, TypeOK
<1>6. CASE SendToClient
  <2>1. target \in Sessions /\ note \in 1 .. MaxNotify
    BY <1>6 DEF SendToClient, TargetTaken, TypeOK
  <2>2. received[target] \in Seq(1 .. MaxNotify) BY <2>1 DEF TypeOK
  <2>3. Append(received[target], note) \in Seq(1 .. MaxNotify)
    BY <2>1, <2>2
  <2>4. received' \in [Sessions -> Seq(1 .. MaxNotify)]
    BY <1>6, <2>1, <2>3 DEF SendToClient, TypeOK
  <2> QED
    BY <1>6, <2>4, Bounds DEF SendToClient, Returns, queues, TypeOK
<1>7. CASE HardClose
  <2>1. target \in Sessions BY <1>7 DEF HardClose, TargetTaken
  <2>2. received' \in [Sessions -> Seq(1 .. MaxNotify)]
    BY <1>7, <2>1 DEF HardClose, Close, TypeOK
  <2> QED
    BY <1>7, <2>1, <2>2, Bounds DEF HardClose, Close, queues, TypeOK
<1>8. CASE ReaderLeaves
  BY <1>8 DEF ReaderLeaves, queues, clients, TypeOK
<1> QED BY <1>2, <1>3, <1>4, <1>5, <1>6, <1>7, <1>8 DEF ReaderStep, Reader

LEMMA TypeClient ==
  ASSUME TypeOK, TestedInRoom, NEW s \in Sessions, ClientStep(s)
  PROVE  TypeOK' /\ TestedInRoom'
<1> DEFINE Places == {"none", "refused", "accepted", "unserved", "db", "clear",
                      "dial", "connecting", "pairing", "subscribe", "loop",
                      "forward", "finally", "close", "goodbye", "done"}
<1>0. pc' \in [Sessions -> Places]
  <2>1. pc \in [Sessions -> Places] BY DEF TypeOK
  <2>2. ASSUME NEW from, NEW to \in Places, Goes(s, from, to)
        PROVE  pc' \in [Sessions -> Places]
    BY <2>1, <2>2 DEF Goes
  <2>3. CASE Accept(s) \/ StartThread(s)
    BY <2>1, <2>3 DEF Accept, StartThread
  <2>4. CASE RunClient(s)
    BY <2>2, <2>4
    DEF RunClient, WaitDatabase, ClearEvents, DialGuest, WaitConnected,
        WaitPaired, Subscribe, LoopReceive, LoopForward, FinallySlot,
        FinallyClose, FinallyGoodbye
  <2>5. CASE PeerClose(s) BY <2>1, <2>5 DEF PeerClose, threads
  <2> QED BY <2>3, <2>4, <2>5 DEF ClientStep
<1> USE DEF TestedInRoom, guest, db, shake, reader, clients, queues
<1>1. CASE Accept(s)
  <2>1. slot' \in Sessions \cup {Nobody} /\ open' \in [Sessions -> BOOLEAN]
    BY <1>1 DEF Accept, TypeOK
  <2>2. UNCHANGED <<guest, queues, db, shake, reader, ours, clients>>
    BY <1>1 DEF Accept
  <2> QED BY <2>1, <2>2, <1>0 DEF TypeOK
<1>2. CASE \/ StartThread(s) \/ WaitDatabase(s) \/ ClearEvents(s)
           \/ WaitConnected(s) \/ WaitPaired(s) \/ LoopReceive(s)
  <2>1. /\ UNCHANGED <<guest, queues, db, slot, reader, ours, clients, open>>
        /\ connectedEvt' \in {connectedEvt, FALSE}
        /\ pairedEvt' \in {pairedEvt, FALSE}
    BY <1>2
    DEF StartThread, WaitDatabase, ClearEvents, WaitConnected, WaitPaired,
        LoopReceive
  <2>2. {svcSeen, handles, dbReady, connectedEvt, pairedEvt}' \subseteq BOOLEAN
    BY <2>1 DEF TypeOK
  <2> QED BY <2>1, <2>2, <1>0 DEF TypeOK
<1>3. CASE \/ DialGuest(s) \/ Subscribe(s) \/ LoopForward(s)
           \/ FinallyGoodbye(s)
  <2>1. h2g' = h2g \/ \E op \in Ops : SendOp(op)
    BY <1>3, Kinds DEF DialGuest, Subscribe, LoopForward, FinallyGoodbye
  <2>2. h2g' \in Seq(Ops) /\ Len(h2g') <= Cap
    BY <2>1, OpSent DEF TypeOK
  <2>3. UNCHANGED <<guest, g2h, db, shake, slot, reader, ours, clients, open>>
    BY <1>3 DEF DialGuest, Subscribe, LoopForward, FinallyGoodbye
  <2> QED BY <2>2, <2>3, <1>0 DEF TypeOK
<1>4. CASE FinallySlot(s)
  <2>1. /\ UNCHANGED <<guest, queues, db, shake, reader, clients, open>>
        /\ ours' \in [Sessions -> BOOLEAN]
        /\ slot' \in Sessions \cup {Nobody}
    BY <1>4 DEF FinallySlot, TypeOK
  <2> QED BY <2>1, <1>0 DEF TypeOK
<1>5. CASE FinallyClose(s)
  <2>1. /\ UNCHANGED <<guest, queues, db, shake, slot, reader, gone>>
        /\ ours' \in [Sessions -> BOOLEAN] /\ open' \in [Sessions -> BOOLEAN]
        /\ received' \in [Sessions -> Seq(1 .. MaxNotify)]
    BY <1>5 DEF FinallyClose, Close, TypeOK
  <2> QED BY <2>1, <1>0 DEF TypeOK
<1>6. CASE PeerClose(s)
  BY <1>6 DEF PeerClose, threads, TypeOK
<1> QED
  BY <1>1, <1>2, <1>3, <1>4, <1>5, <1>6 DEF ClientStep, RunClient

-----------------------------------------------------------------------------
(* The slot and the sockets.                                               *)
LEMMA GuestLeavesBridge ==
  ASSUME GuestStep
  PROVE  UNCHANGED BridgeSide
BY DEF GuestStep, GuestOp, GuestBoot, GuestConnect, GuestAnnounce, GuestPair,
       GuestDisconnect, GuestWrite, GuestReboot, FirmwareDrops,
       FirmwareDisconnects, FirmwareTests, FirmwareNotifies, BridgeSide

LEMMA SlotUndisturbed ==
  ASSUME SlotInv, UNCHANGED <<slot, open, pc, received, bpc, target>>
  PROVE  SlotInv'
BY DEF SlotInv, SlotServed, SocketsClosing, TargetTaken, Closing, OneAcceptor,
       Stopped

LEMMA SlotReader ==
  ASSUME TypeOK, SlotInv, ReaderStep
  PROVE  SlotInv'
<1> USE Bounds DEF SlotInv, SlotServed, SocketsClosing, TargetTaken, Closing,
                   OneAcceptor, Stopped
<1>1. ASSUME bpc = "read", slot' = Nobody, target' = slot,
             bpc' = (IF slot = Nobody THEN "read" ELSE "close")
               \/ bpc' = (IF slot = Nobody THEN "left" ELSE "leave"),
             UNCHANGED <<pc, open, received>>
      PROVE  SlotInv'
  <2>2. CASE slot = Nobody BY <1>1, <2>2
  <2>3. CASE slot # Nobody
    <3>1. slot \in Sessions /\ bpc' \in {"close", "leave"}
      BY <1>1, <2>3 DEF TypeOK
    <3> QED BY <1>1, <3>1
  <2> QED BY <2>2, <2>3
<1>2. CASE HandleSvc
  <2>1. CASE svcSeen /\ TakeSlot
    BY <1>2, <2>1, <1>1 DEF HandleSvc, Takes, TakeSlot, threads, clients
  <2>2. CASE ~svcSeen
    BY <1>2, <2>2, SlotUndisturbed DEF HandleSvc, threads, clients
  <2> QED BY <1>2, <2>1, <2>2 DEF HandleSvc
<1>3. CASE HandleAtt \/ HandleConnected \/ HandlePaired
  BY <1>3, SlotUndisturbed
  DEF HandleAtt, HandleConnected, HandlePaired, reader, threads, clients
<1>4. CASE HandleDisconnected
  BY <1>4, <1>1 DEF HandleDisconnected, Takes, TakeSlot, threads, clients
<1>5. CASE HandleNotify
  <2>1. UNCHANGED <<slot, open, pc, received>> /\ bpc = "read"
    BY <1>5 DEF HandleNotify, Takes, threads, clients
  <2>2. CASE handles /\ slot # Nobody
    <3>1. slot \in Sessions /\ bpc' = "send" /\ target' = slot
      BY <1>5, <2>2 DEF HandleNotify, TypeOK
    <3> QED BY <2>1, <3>1
  <2>3. CASE ~(handles /\ slot # Nobody)
    BY <1>5, <2>1, <2>3, SlotUndisturbed DEF HandleNotify, reader
  <2> QED BY <2>2, <2>3
<1>6. CASE SendToClient
  <2>1. /\ bpc = "send" /\ bpc' = "read" /\ target \in Sessions
        /\ UNCHANGED <<slot, open, pc>>
    BY <1>6 DEF SendToClient, Returns, threads
  <2>2. \A s \in Sessions : ~open[s] => received'[s] = received[s]
    BY <1>6 DEF SendToClient, TypeOK
  <2> QED BY <2>1, <2>2
<1>7. CASE HardClose
  <2>1. /\ bpc \in {"close", "leave"} /\ bpc' \in {"read", "left"}
        /\ target \in Sessions /\ slot # target /\ UNCHANGED <<slot, pc>>
        /\ open' = [open EXCEPT ![target] = FALSE]
        /\ received' = [received EXCEPT ![target] = << >>]
    BY <1>7 DEF HardClose, Close, threads
  <2>2. /\ ~open'[target] /\ received'[target] = << >>
        /\ \A s \in Sessions \ {target} :
             open'[s] = open[s] /\ received'[s] = received[s]
    BY <2>1 DEF TypeOK
  <2> QED BY <2>1, <2>2
<1>8. CASE ReaderLeaves
  BY <1>8, <1>1 DEF ReaderLeaves, threads, clients
<1> QED BY <1>2, <1>3, <1>4, <1>5, <1>6, <1>7, <1>8 DEF ReaderStep, Reader

LEMMA SlotClient ==
  ASSUME TypeOK, SlotInv, NEW s \in Sessions, ClientStep(s)
  PROVE  SlotInv'
<1> USE Bounds DEF SlotInv, SlotServed, SocketsClosing, TargetTaken, Closing
<1> DEFINE Away == {"none", "refused", "unserved", "close", "goodbye", "done"}
<1>0. ASSUME \A t \in Sessions \ {s} : pc'[t] = pc[t],
             pc'[s] # "accepted", pc'[s] # "unserved", pc[s] # "unserved"
      PROVE  OneAcceptor'
  BY <1>0 DEF OneAcceptor, Stopped
<1>1. CASE Accept(s)
  <2>1. /\ pc[s] = "none" /\ UNCHANGED <<bpc, target, received>>
        /\ ~Stopped /\ \A t \in Sessions : pc[t] # "accepted"
        /\ \A t \in Sessions \ {s} : pc'[t] = pc[t] /\ open'[t] = open[t]
        /\ \/ slot = Nobody /\ slot' = s /\ open'[s] /\ pc'[s] = "accepted"
           \/ UNCHANGED <<slot, open>> /\ pc'[s] = "refused"
    BY <1>1 DEF Accept, reader, clients, TypeOK
  <2>2. ~open[s] /\ slot # s BY <2>1
  <2>3. bpc \notin {"read", "left"} => target # s BY <2>1
  <2>4. OneAcceptor' BY <2>1 DEF OneAcceptor, Stopped
  <2>5. CASE slot = Nobody /\ slot' = s /\ open'[s] /\ pc'[s] = "accepted"
    <3>1. SlotServed' BY <2>1, <2>5
    <3>2. SocketsClosing' BY <2>1, <2>2, <2>3, <2>5
    <3>3. TargetTaken' BY <2>1, <2>3, <2>5
    <3> QED BY <3>1, <3>2, <3>3, <2>4
  <2>6. CASE UNCHANGED <<slot, open>> /\ pc'[s] = "refused"
    BY <2>1, <2>2, <2>3, <2>4, <2>6
  <2> QED BY <2>1, <2>5, <2>6
<1>2. CASE StartThread(s)
  <2>1. /\ pc[s] = "accepted" /\ UNCHANGED <<slot, bpc, target, open, received>>
        /\ \A t \in Sessions \ {s} : pc'[t] = pc[t] /\ pc[t] # "accepted"
        /\ IF open[s] THEN pc'[s] = "db" ELSE pc'[s] = "unserved"
    BY <1>2 DEF StartThread, OneAcceptor, reader, clients, TypeOK
  <2>2. OneAcceptor' BY <2>1 DEF OneAcceptor
  <2> QED BY <2>1, <2>2
<1>7. CASE \/ WaitDatabase(s) \/ ClearEvents(s) \/ DialGuest(s)
           \/ WaitConnected(s) \/ WaitPaired(s) \/ Subscribe(s)
           \/ LoopReceive(s) \/ LoopForward(s)
  <2>1. /\ UNCHANGED <<slot, bpc, target, open, received>>
        /\ \E from, to : Goes(s, from, to)
             /\ from \notin Away \cup {"accepted"}
             /\ to \notin Away \cup {"accepted"}
    BY <1>7
    DEF WaitDatabase, ClearEvents, DialGuest, WaitConnected, WaitPaired,
        Subscribe, LoopReceive, LoopForward, reader, clients
  <2>2. /\ pc[s] \notin Away \cup {"accepted"}
        /\ pc'[s] \notin Away \cup {"accepted"}
        /\ \A t \in Sessions \ {s} : pc'[t] = pc[t]
    BY <2>1 DEF Goes, TypeOK
  <2>3. OneAcceptor' BY <1>0, <2>2
  <2> QED BY <2>1, <2>2, <2>3
<1>3. CASE FinallySlot(s)
  <2>1. /\ pc[s] = "finally" /\ pc'[s] = "close"
        /\ \A t \in Sessions \ {s} : pc'[t] = pc[t]
        /\ UNCHANGED <<bpc, target, open, received>>
        /\ slot' = IF slot = s THEN Nobody ELSE slot
    BY <1>3 DEF FinallySlot, Goes, reader, clients, TypeOK
  <2>2. OneAcceptor' BY <1>0, <2>1
  <2> QED BY <2>1, <2>2
<1>4. CASE FinallyClose(s)
  <2>1. /\ pc[s] = "close" /\ pc'[s] \in {"goodbye", "done"}
        /\ \A t \in Sessions \ {s} : pc'[t] = pc[t] /\ open'[t] = open[t]
                                     /\ received'[t] = received[t]
        /\ ~open'[s] /\ received'[s] = << >>
        /\ UNCHANGED <<slot, bpc, target>>
    BY <1>4 DEF FinallyClose, Close, Goes, reader, TypeOK
  <2>2. slot # s BY <2>1
  <2>3. OneAcceptor' BY <1>0, <2>1
  <2> QED BY <2>1, <2>2, <2>3
<1>5. CASE FinallyGoodbye(s)
  <2>1. /\ pc[s] = "goodbye" /\ pc'[s] = "done"
        /\ \A t \in Sessions \ {s} : pc'[t] = pc[t]
        /\ UNCHANGED <<slot, bpc, target, open, received>>
    BY <1>5 DEF FinallyGoodbye, Goes, reader, clients, TypeOK
  <2>2. OneAcceptor' BY <1>0, <2>1
  <2> QED BY <2>1, <2>2
<1>6. CASE PeerClose(s)
  BY <1>6, SlotUndisturbed DEF PeerClose, reader, threads
<1> QED
  BY <1>1, <1>2, <1>3, <1>4, <1>5, <1>6, <1>7 DEF ClientStep, RunClient

-----------------------------------------------------------------------------
(* The notifications.                                                      *)
LEMMA HeardUndisturbed ==
  ASSUME NEW lo \in Nat, Heard(lo),
         UNCHANGED <<bpc, note, target, received, gone>>,
         handles => handles',
         bpc = "send" /\ slot' = target => slot = target,
         \A s \in Sessions : received[s] # << >> /\ slot' = s => slot = s
  PROVE  Heard(lo)'
BY DEF Heard, Last

LEMMA TakenGuest ==
  ASSUME TypeOK, TestedInRoom, Taken, GuestStep
  PROVE  Taken'
<1> USE DEF TypeOK
<1>1. PICK lo \in 0 .. notified : Numbered(g2h, lo, notified) /\ Heard(lo)
  BY DEF Taken
<1>2. lo \in Nat /\ notified \in Nat /\ lo <= notified
  BY <1>1, Bounds
<1>3. Heard(lo)'
  BY <1>1, <1>2, GuestLeavesBridge, HeardUndisturbed
  DEF BridgeSide, db, reader, clients
<1>4. ASSUME notified' = notified,
             \/ g2h' = g2h
             \/ \E k \in {"svc", "att", "connected", "paired", "disconnected"} :
                  g2h' = Append(g2h, Evt(k))
      PROVE  Taken'
  <2>1. CASE g2h' = g2h BY <1>1, <1>3, <1>4, <2>1 DEF Taken
  <2>2. CASE \E k \in {"svc", "att", "connected", "paired", "disconnected"} :
               g2h' = Append(g2h, Evt(k))
    <3>1. PICK k \in {"svc", "att", "connected", "paired", "disconnected"} :
               g2h' = Append(g2h, Evt(k))
      BY <2>2
    <3>2. Evt(k) \in Events /\ ~IsNotify(Evt(k)) BY Kinds
    <3>3. Numbered(Append(g2h, Evt(k)), lo, notified)
      BY <1>1, <1>2, <3>2, OtherSent
    <3>4. Numbered(g2h', lo, notified') BY <1>4, <3>1, <3>3
    <3> QED BY <1>1, <1>3, <1>4, <3>4 DEF Taken
  <2> QED BY <1>4, <2>1, <2>2
<1>5. CASE FirmwareNotifies
  <2> DEFINE e == [kind |-> "notify", n |-> notified + 1]
  <2>1. /\ g2h' = Append(g2h, e) /\ notified' = notified + 1
        /\ notified + 1 \in 0 .. MaxNotify
    BY <1>2, <1>5, Bounds DEF FirmwareNotifies, Emit, TestedInRoom
  <2>2. e \in Events /\ IsNotify(e) /\ e.n = notified + 1
    BY <2>1 DEF Events, IsNotify
  <2> HIDE DEF e
  <2>3. Numbered(Append(g2h, e), lo, notified + 1)
    BY <1>1, <1>2, <2>2, NotifySent
  <2>4. lo \in 0 .. notified' /\ Numbered(g2h', lo, notified')
    BY <1>2, <2>1, <2>3
  <2> QED BY <1>3, <2>4 DEF Taken
<1>6. CASE GuestBoot BY <1>4, <1>6 DEF GuestBoot, Emit
<1>7. CASE GuestOp
  BY <1>4, <1>7
  DEF GuestOp, GuestConnect, GuestAnnounce, GuestPair, GuestDisconnect,
      GuestWrite, DropLink, Emit, guest
<1>8. CASE \/ GuestReboot \/ FirmwareDrops \/ FirmwareDisconnects
           \/ FirmwareTests
  BY <1>4, <1>8
  DEF GuestReboot, FirmwareDrops, FirmwareDisconnects, FirmwareTests,
      DropLink, Emit, queues
<1> QED BY <1>5, <1>6, <1>7, <1>8 DEF GuestStep

LEMMA OtherHandled ==
  ASSUME TypeOK, NEW kind, kind # "notify", Takes(kind),
         NEW lo \in 0 .. notified, Numbered(g2h, lo, notified),
         notified' = notified
  PROVE  Numbered(g2h', lo, notified')
<1>1. /\ g2h \in Seq(Events) /\ g2h # << >> /\ ~IsNotify(Head(g2h))
      /\ g2h' = Tail(g2h)
  BY DEF TypeOK, Takes, IsNotify
<1>2. lo \in Nat /\ notified \in Nat BY Bounds DEF TypeOK
<1> QED BY <1>1, <1>2, OtherTaken

LEMMA TakenReader ==
  ASSUME TypeOK, SlotInv, Taken, ReaderStep
  PROVE  Taken'
<1>1. PICK lo \in 0 .. notified : Numbered(g2h, lo, notified) /\ Heard(lo)
  BY DEF Taken
<1>2. lo \in Nat /\ notified \in Nat /\ lo <= notified
  BY <1>1, Bounds DEF TypeOK
<1>3. ASSUME bpc = "read", bpc' # "send", slot' = Nobody,
             UNCHANGED <<note, received, gone>>
      PROVE  Heard(lo)'
  BY <1>1, <1>3, Bounds DEF Heard, Last
<1>4. CASE HandleSvc
  <2>1. Numbered(g2h', lo, notified') /\ notified' = notified
    BY <1>1, <1>4, OtherHandled DEF HandleSvc, guest
  <2>2. bpc = "read" /\ UNCHANGED <<note, received, gone>>
    BY <1>4 DEF HandleSvc, Takes, clients
  <2>3. CASE TakeSlot BY <2>1, <2>2, <2>3, <1>3, <1>1 DEF Taken, TakeSlot
  <2>4. CASE UNCHANGED <<handles, slot, bpc, target>>
    <3>1. Heard(lo)' BY <2>2, <2>4, <1>1, <1>2, HeardUndisturbed
    <3> QED BY <3>1, <2>1, <1>1 DEF Taken
  <2> QED BY <1>4, <2>3, <2>4 DEF HandleSvc
<1>5. CASE HandleAtt \/ HandleConnected \/ HandlePaired
  <2>1. Numbered(g2h', lo, notified') /\ notified' = notified
    BY <1>1, <1>5, OtherHandled
    DEF HandleAtt, HandleConnected, HandlePaired, guest
  <2>2. /\ UNCHANGED <<bpc, note, target, received, gone, slot>>
        /\ handles => handles'
    BY <1>5
    DEF HandleAtt, HandleConnected, HandlePaired, reader, clients, db
  <2>3. Heard(lo)' BY <2>2, <1>1, <1>2, HeardUndisturbed
  <2> QED BY <2>1, <2>3, <1>1 DEF Taken
<1>6. CASE HandleDisconnected
  <2>1. Numbered(g2h', lo, notified') /\ notified' = notified
    BY <1>1, <1>6, OtherHandled DEF HandleDisconnected, guest
  <2>2. Heard(lo)'
    BY <1>6, <1>3 DEF HandleDisconnected, Takes, TakeSlot, clients
  <2> QED BY <2>1, <2>2, <1>1 DEF Taken
<1>7. CASE HandleNotify
  <2>1. /\ g2h \in Seq(Events) /\ g2h # << >> /\ IsNotify(Head(g2h))
        /\ g2h' = Tail(g2h) /\ notified' = notified /\ bpc = "read"
        /\ UNCHANGED <<handles, slot, received, gone>>
    BY <1>7 DEF HandleNotify, Takes, TypeOK, IsNotify, guest, db, clients
  <2>2. /\ lo + 1 <= notified /\ Head(g2h).n = lo + 1
        /\ Numbered(Tail(g2h), lo + 1, notified)
    BY <1>1, <1>2, <2>1, NotifyTaken
  <2>3. lo + 1 \in 0 .. notified' /\ Numbered(g2h', lo + 1, notified')
    BY <1>2, <2>1, <2>2
  <2>4. CASE handles /\ slot # Nobody
    <3>1. bpc' = "send" /\ target' = slot /\ note' = lo + 1
      BY <1>7, <2>2, <2>4 DEF HandleNotify
    <3>2. Heard(lo + 1)'
      BY <1>1, <1>2, <2>1, <2>4, <3>1 DEF Heard, Last
    <3> QED BY <2>3, <3>2 DEF Taken
  <2>5. CASE ~(handles /\ slot # Nobody)
    <3>1. UNCHANGED reader BY <1>7, <2>5 DEF HandleNotify
    <3>2. Heard(lo + 1)'
      BY <1>1, <2>1, <2>5, <3>1, Bounds DEF Heard, Last, reader
    <3> QED BY <2>3, <3>2 DEF Taken
  <2> QED BY <2>4, <2>5
<1>8. CASE SendToClient
  <2>1. /\ bpc = "send" /\ bpc' = "read" /\ target \in Sessions
        /\ UNCHANGED <<g2h, notified, slot, handles, gone, open>>
        /\ note = lo /\ note \in Nat
    BY <1>1, <1>2, <1>8
    DEF SendToClient, Returns, queues, guest, db, SlotInv, TargetTaken, Heard
  <2>2. \A s \in Sessions : s # target => received'[s] = received[s]
    BY <1>8 DEF SendToClient, TypeOK
  <2>3. CASE open[target] /\ ~gone[target]
    <3>1. received[target] \in Seq(1 .. MaxNotify) BY <2>1 DEF TypeOK
    <3>2. received'[target] = Append(received[target], note)
      BY <1>8, <2>1, <2>3 DEF SendToClient, TypeOK
    <3>3. ASSUME NEW s \in Sessions, s = target
          PROVE  Last(s)' = note
      <4>1. received'[s] = Append(received[s], note)
        BY <3>2, <3>3
      <4>2. received'[s][Len(received'[s])] = note
        BY <3>1, <3>3, <4>1
      <4> QED BY <4>2 DEF Last
    <3>4. slot = target => handles BY <1>1, <2>1 DEF Heard
    <3>5. \A s \in Sessions : received[s] # << >> /\ slot = s => target = s
      BY <1>1, <2>1 DEF Heard
    <3>6. \A s \in Sessions : received'[s] # << >> /\ slot = s => s = target
      BY <2>2, <3>5
    <3>7. Heard(lo)' BY <2>1, <3>3, <3>4, <3>6 DEF Heard
    <3> QED BY <2>1, <3>7, <1>1 DEF Taken
  <2>4. CASE ~(open[target] /\ ~gone[target])
    <3>1. received' = received BY <1>8, <2>4 DEF SendToClient
    <3>2. slot = target => gone[target]
      BY <2>1, <2>4 DEF SlotInv, SlotServed
    <3>3. Heard(lo)' BY <1>1, <2>1, <3>1, <3>2 DEF Heard, Last
    <3> QED BY <2>1, <3>3, <1>1 DEF Taken
  <2> QED BY <2>3, <2>4
<1>9. CASE HardClose
  <2>1. /\ bpc \in {"close", "leave"} /\ bpc' \in {"read", "left"}
        /\ target \in Sessions
        /\ UNCHANGED <<g2h, notified, slot, handles, gone>>
        /\ received' = [received EXCEPT ![target] = << >>]
    BY <1>9
    DEF HardClose, Close, queues, guest, db, SlotInv, TargetTaken
  <2>2. /\ received'[target] = << >>
        /\ \A s \in Sessions \ {target} : received'[s] = received[s]
    BY <2>1 DEF TypeOK
  <2>3. Heard(lo)' BY <1>1, <2>1, <2>2 DEF Heard, Last
  <2> QED BY <2>1, <2>3, <1>1 DEF Taken
<1>10. CASE ReaderLeaves
  <2>1. /\ bpc = "read" /\ bpc' # "send" /\ slot' = Nobody
        /\ UNCHANGED <<g2h, notified, note, received, gone>>
    BY <1>10 DEF ReaderLeaves, queues, guest, clients
  <2>2. Heard(lo)' BY <2>1, <1>3
  <2> QED BY <2>1, <2>2, <1>1 DEF Taken
<1> QED
  BY <1>4, <1>5, <1>6, <1>7, <1>8, <1>9, <1>10 DEF ReaderStep, Reader

LEMMA TakenClient ==
  ASSUME TypeOK, SlotInv, Taken, NEW s \in Sessions, ClientStep(s)
  PROVE  Taken'
<1>1. PICK lo \in 0 .. notified : Numbered(g2h, lo, notified) /\ Heard(lo)
  BY DEF Taken
<1>2. lo \in Nat BY <1>1, Bounds DEF TypeOK
<1>3. UNCHANGED <<g2h, notified, handles, bpc, note, target>>
  BY DEF ClientStep, RunClient, Accept, StartThread, WaitDatabase, ClearEvents,
         DialGuest, WaitConnected, WaitPaired, Subscribe, LoopReceive,
         LoopForward, FinallySlot, FinallyClose, FinallyGoodbye, PeerClose,
         queues, guest,
         db, reader
<1>4. ASSUME UNCHANGED <<received, gone>>,
             \A t \in Sessions : received[t] # << >> /\ slot' = t => slot = t,
             bpc = "send" /\ slot' = target => slot = target
      PROVE  Taken'
  <2>1. Heard(lo)' BY <1>1, <1>2, <1>3, <1>4, HeardUndisturbed
  <2> QED BY <1>1, <1>3, <2>1 DEF Taken
<1>5. CASE Accept(s)
  <2>1. /\ UNCHANGED <<received, gone>> /\ pc[s] = "none"
        /\ slot' \in {slot, s}
    BY <1>5 DEF Accept, clients
  <2>2. received[s] = << >> BY <2>1 DEF SlotInv, SocketsClosing
  <2>3. bpc = "send" => target # s BY <2>1 DEF SlotInv, TargetTaken
  <2> QED BY <2>1, <2>2, <2>3, <1>4
<1>6. CASE \/ StartThread(s) \/ WaitDatabase(s) \/ ClearEvents(s)
           \/ DialGuest(s) \/ WaitConnected(s) \/ WaitPaired(s)
           \/ Subscribe(s) \/ LoopReceive(s) \/ LoopForward(s)
           \/ FinallyGoodbye(s)
  BY <1>4, <1>6
  DEF StartThread, WaitDatabase, ClearEvents, DialGuest, WaitConnected,
      WaitPaired, Subscribe, LoopReceive, LoopForward, FinallyGoodbye, clients
<1>7. CASE FinallySlot(s)
  <2>1. /\ UNCHANGED <<received, gone>> /\ slot' \in {slot, Nobody}
    BY <1>7 DEF FinallySlot, clients
  <2>2. bpc = "send" => target # Nobody
    BY Bounds DEF SlotInv, TargetTaken
  <2> QED BY <2>1, <2>2, <1>4, Bounds
<1>8. CASE FinallyClose(s)
  <2>1. /\ received' = [received EXCEPT ![s] = << >>]
        /\ UNCHANGED <<slot, gone>>
    BY <1>8 DEF FinallyClose, Close
  <2>2. /\ received'[s] = << >>
        /\ \A t \in Sessions \ {s} : received'[t] = received[t]
    BY <2>1 DEF TypeOK
  <2>3. Heard(lo)' BY <1>1, <1>3, <2>1, <2>2 DEF Heard, Last
  <2> QED BY <1>1, <1>3, <2>3 DEF Taken
<1>9. CASE PeerClose(s)
  <2>1. /\ UNCHANGED <<received, slot>> /\ gone' = [gone EXCEPT ![s] = TRUE]
    BY <1>9 DEF PeerClose
  <2>2. \A t \in Sessions : ~gone'[t] => ~gone[t] BY <2>1 DEF TypeOK
  <2>3. Heard(lo)' BY <1>1, <1>3, <2>1, <2>2 DEF Heard, Last
  <2> QED BY <1>1, <1>3, <2>3 DEF Taken
<1> QED
  BY <1>5, <1>6, <1>7, <1>8, <1>9 DEF ClientStep, RunClient

LEMMA RunsStep ==
  ASSUME TypeOK, SlotInv, Taken, Runs,
         GuestStep \/ ReaderStep \/ \E s \in Sessions : ClientStep(s)
  PROVE  Runs'
<1>1. ASSUME \A t \in Sessions : received'[t] \in {received[t], << >>}
      PROVE  Runs'
  <2>1. ASSUME NEW t \in Sessions, NEW i \in 1 .. Len(received'[t]) - 1
        PROVE  received'[t][i + 1] = received'[t][i] + 1
    <3>1. CASE received'[t] = received[t] BY <2>1, <3>1 DEF Runs
    <3>2. CASE received'[t] = << >> BY <2>1, <3>2
    <3> QED BY <1>1, <3>1, <3>2
  <2> QED BY <2>1 DEF Runs
<1>2. CASE GuestStep
  BY <1>1, <1>2, GuestLeavesBridge DEF BridgeSide, clients
<1>3. CASE HardClose BY <1>1, <1>3 DEF HardClose, Close, TypeOK
<1>4. CASE SendToClient
  <2>1. CASE received' = received BY <1>1, <2>1
  <2>2. CASE received' # received
    <3>1. /\ bpc = "send" /\ target \in Sessions /\ ~gone[target]
          /\ received' = [received EXCEPT ![target] = Append(@, note)]
      BY <1>4, <2>2 DEF SendToClient, SlotInv, TargetTaken
    <3> DEFINE r == received[target]
    <3>2. r \in Seq(1 .. MaxNotify) /\ received'[target] = Append(r, note)
      BY <3>1 DEF TypeOK
    <3>3. r # << >> => r[Len(r)] = note - 1
      BY <3>1 DEF Taken, Heard, Last
    <3>4. \A i \in 1 .. Len(r) - 1 : r[i + 1] = r[i] + 1 BY <3>1 DEF Runs
    <3>5. note \in Nat BY Bounds DEF TypeOK
    <3>6. ASSUME NEW t \in Sessions, NEW i \in 1 .. Len(received'[t]) - 1
          PROVE  received'[t][i + 1] = received'[t][i] + 1
      <4>1. CASE t # target
        <5>1. received'[t] = received[t] BY <3>1, <4>1 DEF TypeOK
        <5> QED BY <3>6, <5>1 DEF Runs
      <4>2. CASE t = target
        <5>1. i \in 1 .. Len(Append(r, note)) - 1 BY <3>2, <3>6, <4>2
        <5> HIDE DEF r
        <5>2. i \in 1 .. Len(r) /\ r # << >> BY <3>2, <5>1
        <5>3. CASE i = Len(r) BY <3>2, <3>3, <3>5, <4>2, <5>2, <5>3
        <5>4. CASE i # Len(r)
          <6>1. i \in 1 .. Len(r) - 1 BY <3>2, <5>2, <5>4
          <6>2. r[i + 1] = r[i] + 1 BY <6>1, <3>4
          <6>3. Append(r, note)[i] = r[i] /\ Append(r, note)[i + 1] = r[i + 1]
            BY <3>2, <6>1
          <6> QED BY <3>2, <4>2, <6>2, <6>3
        <5> QED BY <5>3, <5>4
      <4> QED BY <4>1, <4>2
    <3> QED BY <3>6 DEF Runs
  <2> QED BY <2>1, <2>2
<1>5. CASE ReaderStep /\ ~HardClose /\ ~SendToClient
  BY <1>1, <1>5
  DEF ReaderStep, Reader, HandleSvc, HandleAtt, HandleConnected, HandlePaired,
      HandleDisconnected, HandleNotify, ReaderLeaves, clients
<1>6. ASSUME NEW s \in Sessions, ClientStep(s)
      PROVE  Runs'
  <2>1. CASE FinallyClose(s) BY <1>1, <2>1 DEF FinallyClose, Close, TypeOK
  <2>2. CASE ~FinallyClose(s)
    BY <1>1, <1>6, <2>2
    DEF ClientStep, RunClient, Accept, StartThread, WaitDatabase, ClearEvents,
        DialGuest, WaitConnected, WaitPaired, Subscribe, LoopReceive,
        LoopForward, FinallySlot, FinallyGoodbye, PeerClose, clients
  <2> QED BY <2>1, <2>2
<1> QED BY <1>2, <1>3, <1>4, <1>5, <1>6

-----------------------------------------------------------------------------
LEMMA BridgeInitial == Init => BridgeInv
<1> SUFFICES ASSUME Init PROVE BridgeInv OBVIOUS
<1> USE Bounds DEF Init
<1>1. TypeOK /\ TestedInRoom
  <2>1. << >> \in Seq(Ops) /\ << >> \in Seq(Events)
        /\ << >> \in Seq(1 .. MaxNotify) /\ Len(<< >>) = 0
    OBVIOUS
  <2>2. /\ h2g \in Seq(Ops) /\ Len(h2g) <= Cap
        /\ g2h \in Seq(Events) /\ Len(g2h) <= Cap
        /\ received \in [Sessions -> Seq(1 .. MaxNotify)]
    BY <2>1
  <2>3. /\ reboots \in 0 .. MaxReboots /\ notified \in 0 .. MaxNotify
        /\ note \in 0 .. MaxNotify
    OBVIOUS
  <2>4. {svcSeen, handles, dbReady, connectedEvt, pairedEvt} \subseteq BOOLEAN
    OBVIOUS
  <2>5. TestedInRoom BY DEF TestedInRoom
  <2> QED BY <2>2, <2>3, <2>4, <2>5 DEF TypeOK
<1>2. SlotInv
  BY DEF SlotInv, SlotServed, SocketsClosing, TargetTaken, OneAcceptor
<1>3. Numbered(g2h, 0, notified) BY DEF Numbered
<1>4. Heard(0) BY DEF Heard
<1>5. Taken BY <1>3, <1>4 DEF Taken
<1>6. Runs BY DEF Runs
<1> QED BY <1>1, <1>2, <1>5, <1>6 DEF BridgeInv

LEMMA BridgeStep == BridgeInv /\ [Next]_vars => BridgeInv'
<1> SUFFICES ASSUME BridgeInv, [Next]_vars PROVE BridgeInv' OBVIOUS
<1>0. TypeOK /\ TestedInRoom /\ SlotInv /\ Taken /\ Runs BY DEF BridgeInv
<1>1. CASE GuestStep
  <2>1. SlotInv'
    BY <1>0, <1>1, GuestLeavesBridge, SlotUndisturbed
    DEF BridgeSide, reader, threads, clients
  <2> QED BY <1>0, <1>1, <2>1, TypeGuest, TakenGuest, RunsStep DEF BridgeInv
<1>2. CASE ReaderStep
  <2>1. bpc = "send" => note >= 1 BY <1>0 DEF Taken, Heard
  <2> QED
    BY <1>0, <1>2, <2>1, TypeReader, SlotReader, TakenReader, RunsStep
    DEF BridgeInv, SlotInv
<1>3. CASE \E s \in Sessions : ClientStep(s)
  BY <1>0, <1>3, TypeClient, SlotClient, TakenClient, RunsStep DEF BridgeInv
<1>4. CASE UNCHANGED vars
  <2> USE <1>4
      DEF vars, guest, queues, db, shake, reader, threads, clients
  <2>1. TypeOK' /\ TestedInRoom' BY <1>0 DEF TypeOK, TestedInRoom
  <2>2. SlotInv' BY <1>0, SlotUndisturbed
  <2>3. Taken' BY <1>0 DEF Taken, Heard, Last
  <2>4. Runs' BY <1>0 DEF Runs
  <2> QED BY <2>1, <2>2, <2>3, <2>4 DEF BridgeInv
<1> QED
  BY <1>1, <1>2, <1>3, <1>4 DEF Next, GuestStep, ReaderStep, ClientStep

LEMMA BridgeInvariant == Spec => []BridgeInv
BY BridgeInitial, BridgeStep, PTL DEF Spec

(* The bridge's fields keep their types, and its queues their bound.       *)
THEOREM BridgeTypes == Spec => []TypeOK
<1>1. BridgeInv => TypeOK BY DEF BridgeInv
<1> QED BY <1>1, BridgeInvariant, PTL

(* No socket is leaked, however the clients, _serve, the doorbell thread   *)
(* and the clients' own threads interleave: what is open has a thread that *)
(* will close it, or _serve has yet to start it and still runs; and one    *)
(* whose thread could not be started is closed and out of the slot.        *)
THEOREM NoSocketLeaks == Spec => []SocketsOwned
<1>1. BridgeInv => SocketsOwned
  BY DEF BridgeInv, SlotInv, SlotServed, SocketsClosing, OneAcceptor,
         SocketsOwned
<1> QED BY <1>1, BridgeInvariant, PTL

(* Of two open sockets one is being closed: the slot admits one client.    *)
THEOREM OneServed == Spec => []OneClientAtATime
<1>1. BridgeInv => OneClientAtATime
  BY DEF BridgeInv, SlotInv, SocketsClosing, OneClientAtATime
<1> QED BY <1>1, BridgeInvariant, PTL

(* Notifications are never dropped: a client receives an unbroken run of   *)
(* them, and what it lacks of those sent since is under way, for any       *)
(* number of them and whatever the queues hold.                            *)
THEOREM NotificationsWhole == Spec => []NoGaps
<1>1. ASSUME BridgeInv, NEW s \in Sessions, slot = s, ~gone[s], Missing(s),
             bpc # "send"
      PROVE  Queued("notify")
  <2>1. PICK lo \in 0 .. notified : Numbered(g2h, lo, notified) /\ Heard(lo)
    BY <1>1 DEF BridgeInv, Taken
  <2>2. Last(s) = lo BY <1>1, <2>1 DEF Heard, Missing
  <2>3. lo # notified BY <1>1, <2>2 DEF Missing, Last
  <2>4. notified \in Nat BY <1>1, Bounds DEF BridgeInv, TypeOK
  <2>5. notified \in lo + 1 .. notified BY <2>1, <2>3, <2>4
  <2> QED BY <2>1, <2>5 DEF Numbered, IsNotify, Queued
<1>2. BridgeInv => NoGaps BY <1>1 DEF BridgeInv, Runs, NoGaps
<1> QED BY <1>2, BridgeInvariant, PTL

-----------------------------------------------------------------------------
(***************************************************************************)
(* Who is served has a link, or will be told.  The answers to an earlier   *)
(* client's OP_CONNECT may set the events for a later one, and the         *)
(* firmware may drop the link before EVT_CONNECTED or before EVT_PAIRED;   *)
(* but no two of these answers can both be seen by one client without the  *)
(* link being up after the first of them or its end being announced after  *)
(* it.  Position 0 of the queue stands for what the slot's holder has      *)
(* seen.                                                                   *)
(***************************************************************************)
Ends == {"disconnected", "svc"}

Told(q, i) == \E k \in i + 1 .. Len(q) : q[k].kind \in Ends

Alive(i) == link \/ phase \in {"off", "configured"} \/ Told(g2h, i)

HolderAt(places) == \E s \in Sessions : slot = s /\ pc[s] \in places

SawConnected ==
  HolderAt({"pairing"}) \/ (HolderAt({"dial", "connecting"}) /\ connectedEvt)

SawPaired == HolderAt({"dial", "connecting", "pairing"}) /\ pairedEvt

ConnectedAt(i) ==
  \/ i = 0 /\ SawConnected
  \/ i \in 1 .. Len(g2h) /\ g2h[i].kind = "connected"

PairedAt(i) ==
  \/ i = 0 /\ SawPaired
  \/ i \in 1 .. Len(g2h) /\ g2h[i].kind = "paired"

Answers ==
  /\ \A i, j \in 0 .. Len(g2h) :
       ConnectedAt(i) /\ PairedAt(j) => Alive(i) \/ Alive(j)
  /\ dial = "pair" => \A i \in 0 .. Len(g2h) : ConnectedAt(i) => Alive(i)
  /\ dial = "request" => \A i \in 0 .. Len(g2h) : PairedAt(i) => Alive(i)

ServedAlive == HolderAt(Serving) => Alive(0)

(* A client gets past its first wait when the service's dump was seen.     *)
Early == {"accepted", "db", "finally"}

DumpFirst ==
  /\ dbReady => svcSeen
  /\ \A s \in Sessions : slot = s /\ pc[s] \notin Early => svcSeen
  /\ \A i \in 1 .. Len(g2h) : g2h[i].kind = "att" =>
       svcSeen \/ \E k \in 1 .. i - 1 : g2h[k].kind = "svc"
  /\ phase = "service" =>
       svcSeen \/ \E k \in 1 .. Len(g2h) : g2h[k].kind = "svc"

LinkInv == Answers /\ ServedAlive /\ DumpFirst

LEMMA AppendedTo ==
  ASSUME NEW q \in Seq(Events), NEW e \in Events
  PROVE  /\ Append(q, e) \in Seq(Events)
         /\ Len(q) \in Nat /\ Len(Append(q, e)) = Len(q) + 1
         /\ Append(q, e)[Len(q) + 1] = e
         /\ \A i \in 1 .. Len(q) : Append(q, e)[i] = q[i]
OBVIOUS

(* A step that lets no answer appear but where one was, and takes no       *)
(* news of an end away from one.                                           *)
LEMMA AnswersInherited ==
  ASSUME Answers, dial' \in {dial, "none"},
         \A i \in 0 .. Len(g2h') : ConnectedAt(i)' =>
           \E m \in 0 .. Len(g2h) : ConnectedAt(m) /\ (Alive(m) => Alive(i)'),
         \A i \in 0 .. Len(g2h') : PairedAt(i)' =>
           \E m \in 0 .. Len(g2h) : PairedAt(m) /\ (Alive(m) => Alive(i)')
  PROVE  Answers'
<1>1. ASSUME NEW i \in 0 .. Len(g2h'), NEW j \in 0 .. Len(g2h'),
             ConnectedAt(i)', PairedAt(j)'
      PROVE  Alive(i)' \/ Alive(j)'
  <2>1. PICK m \in 0 .. Len(g2h) :
               ConnectedAt(m) /\ (Alive(m) => Alive(i)')
    BY <1>1
  <2>2. PICK n \in 0 .. Len(g2h) :
               PairedAt(n) /\ (Alive(n) => Alive(j)')
    BY <1>1
  <2> QED BY <2>1, <2>2 DEF Answers
<1>2. ASSUME dial' = "pair", NEW i \in 0 .. Len(g2h'), ConnectedAt(i)'
      PROVE  Alive(i)'
  BY <1>2 DEF Answers
<1>3. ASSUME dial' = "request", NEW i \in 0 .. Len(g2h'), PairedAt(i)'
      PROVE  Alive(i)'
  BY <1>3 DEF Answers
<1> QED BY <1>1, <1>2, <1>3 DEF Answers

(* What the guest appends leaves the rest of the queue as it is.           *)
LEMMA GuestAppends ==
  ASSUME TypeOK, NEW e \in Events, g2h' = Append(g2h, e),
         UNCHANGED BridgeSide,
         link => link' \/ e.kind \in Ends,
         phase \in {"off", "configured"} =>
           phase' \in {"off", "configured"} \/ e.kind \in Ends
  PROVE  /\ Len(g2h) \in Nat /\ Len(g2h') = Len(g2h) + 1
         /\ g2h'[Len(g2h) + 1] = e
         /\ \A i \in 1 .. Len(g2h) : g2h'[i] = g2h[i]
         /\ \A i \in 0 .. Len(g2h) : Alive(i) => Alive(i)'
         /\ \A i \in 0 .. Len(g2h) : ConnectedAt(i)' <=> ConnectedAt(i)
         /\ \A i \in 0 .. Len(g2h) : PairedAt(i)' <=> PairedAt(i)
<1>1. /\ Len(g2h) \in Nat /\ Len(g2h') = Len(g2h) + 1
      /\ g2h'[Len(g2h) + 1] = e
      /\ \A i \in 1 .. Len(g2h) : g2h'[i] = g2h[i]
  BY AppendedTo DEF TypeOK
<1>2. ASSUME NEW i \in 0 .. Len(g2h) PROVE Told(g2h, i) => Told(g2h, i)'
  BY <1>1 DEF Told
<1>3. ASSUME NEW i \in 0 .. Len(g2h), e.kind \in Ends PROVE Told(g2h, i)'
  <2>1. Len(g2h) + 1 \in i + 1 .. Len(g2h') BY <1>1
  <2> QED BY <1>1, <1>3, <2>1 DEF Told
<1>4. ASSUME NEW i \in 0 .. Len(g2h), Alive(i) PROVE Alive(i)'
  BY <1>2, <1>3, <1>4 DEF Alive
<1>5. UNCHANGED <<SawConnected, SawPaired>>
  BY DEF SawConnected, SawPaired, HolderAt, BridgeSide, shake, threads
<1>6. ASSUME NEW i \in 0 .. Len(g2h)
      PROVE  /\ ConnectedAt(i)' <=> ConnectedAt(i)
             /\ PairedAt(i)' <=> PairedAt(i)
  BY <1>1, <1>5 DEF ConnectedAt, PairedAt
<1> QED BY <1>1, <1>4, <1>6

LEMMA AnswersGuest ==
  ASSUME TypeOK, TestedInRoom, Answers, GuestStep
  PROVE  Answers'
<1>0. UNCHANGED BridgeSide BY GuestLeavesBridge
<1>1. ASSUME \A i \in 0 .. Len(g2h') : Alive(i)' PROVE Answers'
  BY <1>1 DEF Answers
<1>2. ASSUME link' \/ phase' \in {"off", "configured"} PROVE Answers'
  BY <1>1, <1>2 DEF Alive
<1>3. ASSUME NEW e \in Events, g2h' = Append(g2h, e),
             e.kind \notin {"connected", "paired"},
             dial' \in {dial, "none"},
             link => link' \/ e.kind \in Ends,
             phase \in {"off", "configured"} =>
               phase' \in {"off", "configured"} \/ e.kind \in Ends
      PROVE  Answers'
  <2>1. /\ Len(g2h) \in Nat /\ Len(g2h') = Len(g2h) + 1
        /\ g2h'[Len(g2h) + 1] = e
        /\ \A i \in 0 .. Len(g2h) : Alive(i) => Alive(i)'
        /\ \A i \in 0 .. Len(g2h) : ConnectedAt(i)' <=> ConnectedAt(i)
        /\ \A i \in 0 .. Len(g2h) : PairedAt(i)' <=> PairedAt(i)
    BY <1>0, <1>3, GuestAppends
  <2>2. ASSUME NEW i \in 0 .. Len(g2h'), ConnectedAt(i)' \/ PairedAt(i)'
        PROVE  i \in 0 .. Len(g2h)
    BY <1>3, <2>1, <2>2 DEF ConnectedAt, PairedAt
  <2> QED BY <1>3, <2>1, <2>2, AnswersInherited
<1>4. ASSUME UNCHANGED <<g2h, link, phase>>, dial' \in {dial, "none"}
      PROVE  Answers'
  <2>1. UNCHANGED <<SawConnected, SawPaired>>
    BY <1>0 DEF SawConnected, SawPaired, HolderAt, BridgeSide, shake, threads
  <2>2. \A i \in 0 .. Len(g2h) :
          /\ ConnectedAt(i)' <=> ConnectedAt(i)
          /\ PairedAt(i)' <=> PairedAt(i)
          /\ Alive(i)' <=> Alive(i)
    BY <1>4, <2>1 DEF ConnectedAt, PairedAt, Alive, Told
  <2> QED BY <1>4, <2>2, AnswersInherited
<1>5. CASE GuestBoot
  <2>1. CASE phase = "off" BY <1>2, <1>5, <2>1 DEF GuestBoot
  <2>2. CASE phase # "off"
    <3>1. PICK k \in {"svc", "att"} :
            /\ g2h' = Append(g2h, Evt(k)) /\ UNCHANGED <<link, dial>>
            /\ phase \in {"off", "configured"} => k = "svc"
      BY <1>5, <2>2 DEF GuestBoot, Emit
    <3>2. Evt(k) \in Events /\ Evt(k).kind = k BY Kinds DEF Evt
    <3> QED BY <1>3, <3>1, <3>2 DEF Ends
  <2> QED BY <2>1, <2>2
<1>6. CASE GuestReboot BY <1>2, <1>6 DEF GuestReboot
<1>7. CASE GuestConnect
  <2>1. CASE link' BY <1>2, <2>1
  <2>2. CASE ~link'
    BY <1>4, <1>7, <2>2 DEF GuestConnect
  <2> QED BY <2>1, <2>2
<1>8. CASE GuestAnnounce
  <2> DEFINE e == Evt("connected")
  <2>1. /\ dial = "request" /\ g2h' = Append(g2h, e)
        /\ dial' = (IF link THEN "pair" ELSE "none")
        /\ UNCHANGED <<link, phase>>
    BY <1>8 DEF GuestAnnounce, Emit
  <2>2. CASE link BY <1>2, <2>1, <2>2
  <2>3. CASE ~link
    <3>1. e \in Events /\ e.kind = "connected" BY Kinds DEF Evt
    <3> HIDE DEF e
    <3>2. /\ Len(g2h) \in Nat /\ Len(g2h') = Len(g2h) + 1
          /\ g2h'[Len(g2h) + 1] = e
          /\ \A i \in 0 .. Len(g2h) : Alive(i) => Alive(i)'
          /\ \A i \in 0 .. Len(g2h) : PairedAt(i)' <=> PairedAt(i)
      BY <1>0, <2>1, <3>1, GuestAppends
    <3>3. ASSUME NEW j \in 0 .. Len(g2h'), PairedAt(j)'
          PROVE  Alive(j)'
      <4>1. j \in 0 .. Len(g2h) BY <3>1, <3>2, <3>3 DEF PairedAt
      <4> QED BY <2>1, <3>2, <3>3, <4>1 DEF Answers
    <3>4. dial' = "none" BY <2>1, <2>3
    <3> QED BY <3>3, <3>4 DEF Answers
  <2> QED BY <2>2, <2>3
<1>9. CASE GuestPair
  <2>1. CASE UNCHANGED g2h BY <1>4, <1>9, <2>1 DEF GuestPair
  <2>2. CASE Emit(Evt("paired"))
    <3> DEFINE e == Evt("paired")
    <3>1. e \in Events /\ e.kind = "paired" BY Kinds DEF Evt
    <3>2. /\ dial = "pair" /\ g2h' = Append(g2h, e) /\ dial' = "none"
          /\ UNCHANGED <<link, phase>>
      BY <1>9, <2>2 DEF GuestPair, Emit
    <3> HIDE DEF e
    <3>3. /\ Len(g2h) \in Nat /\ Len(g2h') = Len(g2h) + 1
          /\ g2h'[Len(g2h) + 1] = e
          /\ \A i \in 0 .. Len(g2h) : Alive(i) => Alive(i)'
          /\ \A i \in 0 .. Len(g2h) : ConnectedAt(i)' <=> ConnectedAt(i)
      BY <1>0, <3>1, <3>2, GuestAppends
    <3>4. ASSUME NEW i \in 0 .. Len(g2h'), ConnectedAt(i)'
          PROVE  Alive(i)'
      <4>1. i \in 0 .. Len(g2h) BY <3>1, <3>3, <3>4 DEF ConnectedAt
      <4> QED BY <3>2, <3>3, <3>4, <4>1 DEF Answers
    <3> QED BY <3>2, <3>4 DEF Answers
  <2> QED BY <1>9, <2>1, <2>2 DEF GuestPair
<1>10. ASSUME DropLink, UNCHANGED <<phase, dial>> PROVE Answers'
  <2>1. g2h' = Append(g2h, Evt("disconnected")) BY <1>10 DEF DropLink, Emit
  <2>2. Evt("disconnected") \in Events /\ Evt("disconnected").kind = "disconnected"
    BY Kinds DEF Evt
  <2> QED BY <1>3, <1>10, <2>1, <2>2 DEF Ends
<1>11. CASE GuestDisconnect
  BY <1>4, <1>10, <1>11 DEF GuestDisconnect
<1>12. CASE FirmwareDisconnects
  BY <1>10, <1>12 DEF FirmwareDisconnects
<1>13. CASE GuestWrite \/ FirmwareDrops \/ FirmwareTests
  BY <1>4, <1>13 DEF GuestWrite, FirmwareDrops, FirmwareTests, guest, queues
<1>14. CASE FirmwareNotifies
  <2> DEFINE e == [kind |-> "notify", n |-> notified + 1]
  <2>1. notified + 1 \in 0 .. MaxNotify
    BY <1>14, Bounds DEF FirmwareNotifies, TestedInRoom, TypeOK
  <2>2. e \in Events /\ e.kind = "notify" BY <2>1 DEF Events
  <2>3. g2h' = Append(g2h, e) /\ UNCHANGED <<link, phase, dial>>
    BY <1>14 DEF FirmwareNotifies, Emit
  <2> HIDE DEF e
  <2> QED BY <1>3, <2>2, <2>3
<1> QED
  BY <1>5, <1>6, <1>7, <1>8, <1>9, <1>11, <1>12, <1>13, <1>14
  DEF GuestStep, GuestOp

(* What a step of the guest does to the queue and to the link.             *)
LinkKept(kinds) ==
  /\ link => link' \/ phase' = "off" \/ kinds \cap Ends # {}
  /\ phase \in {"off", "configured"} =>
       phase' \in {"off", "configured"} \/ kinds \cap Ends # {}
  /\ "att" \in kinds => phase = "service"
  /\ phase' = "service" => phase = "service" \/ "svc" \in kinds

LEMMA GuestMoves ==
  ASSUME TypeOK, TestedInRoom, GuestStep
  PROVE  \/ UNCHANGED g2h /\ LinkKept({})
         \/ \E e \in Events : g2h' = Append(g2h, e) /\ LinkKept({e.kind})
<1> USE DEF LinkKept, Emit, Ends
<1>1. \A k \in {"svc", "att", "connected", "paired", "disconnected"} :
        Evt(k) \in Events /\ Evt(k).kind = k
  BY Kinds DEF Evt
<1>2. CASE GuestBoot BY <1>1, <1>2 DEF GuestBoot
<1>3. CASE GuestReboot BY <1>3 DEF GuestReboot
<1>4. CASE GuestConnect BY <1>4 DEF GuestConnect
<1>5. CASE GuestAnnounce BY <1>1, <1>5 DEF GuestAnnounce
<1>6. CASE GuestPair BY <1>1, <1>6 DEF GuestPair
<1>7. CASE GuestDisconnect BY <1>1, <1>7 DEF GuestDisconnect, DropLink
<1>8. CASE GuestWrite \/ FirmwareDrops \/ FirmwareTests
  BY <1>8 DEF GuestWrite, FirmwareDrops, FirmwareTests, guest, queues
<1>9. CASE FirmwareDisconnects
  BY <1>1, <1>9 DEF FirmwareDisconnects, DropLink
<1>10. CASE FirmwareNotifies
  <2> DEFINE e == [kind |-> "notify", n |-> notified + 1]
  <2>1. notified + 1 \in 0 .. MaxNotify
    BY <1>10, Bounds DEF FirmwareNotifies, TestedInRoom, TypeOK
  <2>2. e \in Events /\ e.kind = "notify" BY <2>1 DEF Events
  <2>3. g2h' = Append(g2h, e) /\ UNCHANGED <<link, phase>>
    BY <1>10 DEF FirmwareNotifies
  <2> HIDE DEF e
  <2> QED BY <2>2, <2>3
<1> QED
  BY <1>2, <1>3, <1>4, <1>5, <1>6, <1>7, <1>8, <1>9, <1>10
  DEF GuestStep, GuestOp

LEMMA ServedGuest ==
  ASSUME TypeOK, TestedInRoom, ServedAlive, DumpFirst, GuestStep
  PROVE  ServedAlive' /\ DumpFirst'
<1>0. UNCHANGED BridgeSide BY GuestLeavesBridge
<1>1. UNCHANGED <<HolderAt(Serving), slot, pc, svcSeen, dbReady>>
  BY <1>0 DEF HolderAt, BridgeSide, threads, db
<1>2. CASE UNCHANGED g2h /\ LinkKept({})
  <2>1. Alive(0) => Alive(0)' BY <1>2 DEF Alive, Told, LinkKept
  <2>2. ServedAlive' BY <1>1, <2>1 DEF ServedAlive
  <2>3. DumpFirst' BY <1>1, <1>2 DEF DumpFirst, LinkKept
  <2> QED BY <2>2, <2>3
<1>3. CASE \E e \in Events : g2h' = Append(g2h, e) /\ LinkKept({e.kind})
  <2>1. PICK e \in Events : g2h' = Append(g2h, e) /\ LinkKept({e.kind})
    BY <1>3
  <2>2. /\ Len(g2h) \in Nat /\ Len(g2h') = Len(g2h) + 1
        /\ g2h'[Len(g2h) + 1] = e
        /\ \A i \in 1 .. Len(g2h) : g2h'[i] = g2h[i]
    BY <2>1, AppendedTo DEF TypeOK
  <2>3. Len(g2h) + 1 \in 0 + 1 .. Len(g2h') BY <2>2
  <2>4. Alive(0) => Alive(0)'
    BY <2>1, <2>2, <2>3 DEF Alive, Told, LinkKept
  <2>5. ServedAlive' BY <1>1, <2>4 DEF ServedAlive
  <2>6. svcSeen \/ (\E k \in 1 .. Len(g2h) : g2h[k].kind = "svc")
          \/ phase # "service"
    BY DEF DumpFirst
  <2>7. ASSUME NEW i \in 1 .. Len(g2h'), g2h'[i].kind = "att"
        PROVE  svcSeen' \/ \E k \in 1 .. i - 1 : g2h'[k].kind = "svc"
    <3>1. CASE i = Len(g2h) + 1
      <4>1. phase = "service" BY <2>1, <2>2, <2>7, <3>1 DEF LinkKept
      <4> QED BY <1>1, <2>2, <2>6, <3>1, <4>1
    <3>2. CASE i # Len(g2h) + 1
      <4>1. i \in 1 .. Len(g2h) /\ g2h[i].kind = "att"
        BY <2>2, <2>7, <3>2
      <4>2. svcSeen \/ \E k \in 1 .. i - 1 : g2h[k].kind = "svc"
        BY <4>1 DEF DumpFirst
      <4> QED BY <1>1, <2>2, <4>1, <4>2
    <3> QED BY <3>1, <3>2
  <2>8. phase' = "service" =>
          svcSeen' \/ \E k \in 1 .. Len(g2h') : g2h'[k].kind = "svc"
    BY <1>1, <2>1, <2>2, <2>6 DEF LinkKept
  <2>9. DumpFirst' BY <1>1, <2>7, <2>8 DEF DumpFirst
  <2> QED BY <2>5, <2>9
<1> QED BY <1>2, <1>3, GuestMoves

(* The doorbell thread takes the head of the queue: every position moves   *)
(* down by one.                                                            *)
LEMMA HeadTaken ==
  ASSUME TypeOK, NEW kind, Takes(kind), UNCHANGED <<link, phase>>
  PROVE  /\ Len(g2h) \in Nat /\ Len(g2h) >= 1 /\ Len(g2h') = Len(g2h) - 1
         /\ g2h[1].kind = kind
         /\ \A i \in 1 .. Len(g2h') : g2h'[i] = g2h[i + 1]
         /\ \A i \in 0 .. Len(g2h') : Alive(i + 1) => Alive(i)'
         /\ kind \notin Ends => (Alive(0) => Alive(0)')
<1>1. g2h \in Seq(Events) /\ g2h # << >> /\ g2h' = Tail(g2h)
      /\ Head(g2h).kind = kind
  BY DEF TypeOK, Takes
<1>2. /\ Len(g2h) \in Nat /\ Len(g2h) >= 1 /\ Len(g2h') = Len(g2h) - 1
      /\ g2h[1].kind = kind
      /\ \A i \in 1 .. Len(g2h') : g2h'[i] = g2h[i + 1]
  BY <1>1, TailOf
<1>3. ASSUME NEW k \in 2 .. Len(g2h), g2h[k].kind \in Ends
      PROVE  k - 1 \in 1 .. Len(g2h') /\ g2h'[k - 1].kind \in Ends
  <2>1. k - 1 \in 1 .. Len(g2h') /\ (k - 1) + 1 = k BY <1>2
  <2> QED BY <1>2, <1>3, <2>1
<1>4. ASSUME NEW i \in 0 .. Len(g2h'), Told(g2h, i + 1) PROVE Told(g2h, i)'
  <2>1. PICK k \in (i + 1) + 1 .. Len(g2h) : g2h[k].kind \in Ends
    BY <1>4 DEF Told
  <2>2. k \in 2 .. Len(g2h) /\ k - 1 \in i + 1 .. Len(g2h') BY <1>2, <2>1
  <2> QED BY <1>3, <2>1, <2>2 DEF Told
<1>5. ASSUME Told(g2h, 0), kind \notin Ends PROVE Told(g2h, 0)'
  <2>1. PICK k \in 0 + 1 .. Len(g2h) : g2h[k].kind \in Ends
    BY <1>5 DEF Told
  <2>2. k # 1 BY <1>2, <1>5, <2>1
  <2>3. k \in 2 .. Len(g2h) /\ k - 1 \in 0 + 1 .. Len(g2h')
    BY <1>2, <2>1, <2>2
  <2> QED BY <1>3, <2>1, <2>3 DEF Told
<1>6. \A i \in 0 .. Len(g2h') : Alive(i + 1) => Alive(i)'
  BY <1>4 DEF Alive
<1>7. kind \notin Ends => (Alive(0) => Alive(0)') BY <1>5 DEF Alive
<1> QED BY <1>2, <1>6, <1>7

LEMMA AnswersTaken ==
  ASSUME TypeOK, Answers, NEW kind, Takes(kind),
         UNCHANGED <<link, phase, dial>>,
         SawConnected' => kind = "connected" \/ (SawConnected /\ kind \notin Ends),
         SawPaired' => kind = "paired" \/ (SawPaired /\ kind \notin Ends)
  PROVE  Answers'
<1>1. /\ Len(g2h) \in Nat /\ Len(g2h) >= 1 /\ Len(g2h') = Len(g2h) - 1
      /\ g2h[1].kind = kind
      /\ \A i \in 1 .. Len(g2h') : g2h'[i] = g2h[i + 1]
      /\ \A i \in 0 .. Len(g2h') : Alive(i + 1) => Alive(i)'
      /\ kind \notin Ends => (Alive(0) => Alive(0)')
  BY HeadTaken
<1>2. /\ 0 \in 0 .. Len(g2h) /\ 1 \in 0 .. Len(g2h) /\ 1 \in 1 .. Len(g2h)
      /\ 0 \in 0 .. Len(g2h') /\ 0 + 1 = 1
      /\ \A i \in 1 .. Len(g2h') :
           i \in 0 .. Len(g2h') /\ i + 1 \in 1 .. Len(g2h) /\ i + 1 \in 0 .. Len(g2h)
  BY <1>1
<1>3. ASSUME NEW i \in 0 .. Len(g2h'), ConnectedAt(i)'
      PROVE  \E m \in 0 .. Len(g2h) : ConnectedAt(m) /\ (Alive(m) => Alive(i)')
  <2>1. CASE i \in 1 .. Len(g2h') /\ g2h'[i].kind = "connected"
    <3>1. ConnectedAt(i + 1) BY <1>1, <1>2, <2>1 DEF ConnectedAt
    <3> QED BY <1>1, <1>2, <2>1, <3>1
  <2>2. CASE i = 0 /\ SawConnected'
    <3>1. CASE kind = "connected"
      <4>1. ConnectedAt(1) BY <1>1, <1>2, <3>1 DEF ConnectedAt
      <4> QED BY <1>1, <1>2, <2>2, <4>1
    <3>2. CASE kind # "connected"
      <4>1. ConnectedAt(0) /\ kind \notin Ends BY <2>2, <3>2 DEF ConnectedAt
      <4> QED BY <1>1, <1>2, <2>2, <4>1
    <3> QED BY <3>1, <3>2
  <2> QED BY <1>3, <2>1, <2>2 DEF ConnectedAt
<1>4. ASSUME NEW i \in 0 .. Len(g2h'), PairedAt(i)'
      PROVE  \E m \in 0 .. Len(g2h) : PairedAt(m) /\ (Alive(m) => Alive(i)')
  <2>1. CASE i \in 1 .. Len(g2h') /\ g2h'[i].kind = "paired"
    <3>1. PairedAt(i + 1) BY <1>1, <1>2, <2>1 DEF PairedAt
    <3> QED BY <1>1, <1>2, <2>1, <3>1
  <2>2. CASE i = 0 /\ SawPaired'
    <3>1. CASE kind = "paired"
      <4>1. PairedAt(1) BY <1>1, <1>2, <3>1 DEF PairedAt
      <4> QED BY <1>1, <1>2, <2>2, <4>1
    <3>2. CASE kind # "paired"
      <4>1. PairedAt(0) /\ kind \notin Ends BY <2>2, <3>2 DEF PairedAt
      <4> QED BY <1>1, <1>2, <2>2, <4>1
    <3> QED BY <3>1, <3>2
  <2> QED BY <1>4, <2>1, <2>2 DEF PairedAt
<1> QED BY <1>3, <1>4, AnswersInherited

LEMMA DumpTaken ==
  ASSUME TypeOK, DumpFirst, NEW kind, Takes(kind),
         UNCHANGED <<link, phase, pc>>, svcSeen \/ kind = "svc" => svcSeen',
         dbReady' => dbReady \/ kind = "att", slot' \in {slot, Nobody}
  PROVE  DumpFirst'
<1>1. /\ Len(g2h) \in Nat /\ Len(g2h) >= 1 /\ Len(g2h') = Len(g2h) - 1
      /\ g2h[1].kind = kind
      /\ \A i \in 1 .. Len(g2h') : g2h'[i] = g2h[i + 1]
  BY HeadTaken
<1>2. CASE svcSeen' BY <1>2 DEF DumpFirst
<1>3. CASE ~svcSeen'
  <2>1. ~svcSeen /\ kind # "svc" BY <1>3
  <2>2. ASSUME NEW i \in 1 .. Len(g2h), \E k \in 1 .. i : g2h[k].kind = "svc"
        PROVE  \E k \in 1 .. i - 1 : g2h'[k].kind = "svc"
    <3>1. PICK k \in 1 .. i : g2h[k].kind = "svc" BY <2>2
    <3>2. k # 1 BY <1>1, <2>1, <3>1
    <3>3. k - 1 \in 1 .. i - 1 /\ k - 1 \in 1 .. Len(g2h') /\ (k - 1) + 1 = k
      BY <1>1, <2>2, <3>1, <3>2
    <3>4. g2h'[k - 1].kind = "svc" BY <1>1, <3>1, <3>3
    <3> QED BY <3>3, <3>4
  <2>3. kind # "att"
    <3>1. 1 \in 1 .. Len(g2h) BY <1>1
    <3>2. kind = "att" => svcSeen \/ \E k \in 1 .. 1 - 1 : g2h[k].kind = "svc"
      BY <1>1, <3>1 DEF DumpFirst
    <3> QED BY <2>1, <3>2
  <2>4. ~dbReady' BY <2>1, <2>3 DEF DumpFirst
  <2>5. \A s \in Sessions : slot' = s => pc'[s] \in Early
    BY <2>1, Bounds DEF DumpFirst
  <2>6. ASSUME NEW i \in 1 .. Len(g2h'), g2h'[i].kind = "att"
        PROVE  \E k \in 1 .. i - 1 : g2h'[k].kind = "svc"
    <3>1. i \in 1 .. Len(g2h) /\ i + 1 \in 1 .. Len(g2h) /\ (i + 1) - 1 = i
          /\ g2h[i + 1].kind = "att"
      BY <1>1, <2>6
    <3>2. \E k \in 1 .. (i + 1) - 1 : g2h[k].kind = "svc"
      BY <2>1, <3>1 DEF DumpFirst
    <3> QED BY <2>2, <3>1, <3>2
  <2>7. phase' = "service" => \E k \in 1 .. Len(g2h') : g2h'[k].kind = "svc"
    <3>1. phase = "service" => \E k \in 1 .. Len(g2h) : g2h[k].kind = "svc"
      BY <2>1 DEF DumpFirst
    <3>2. Len(g2h) \in 1 .. Len(g2h) BY <1>1
    <3> QED BY <1>1, <2>2, <3>1, <3>2
  <2> QED BY <2>4, <2>5, <2>6, <2>7 DEF DumpFirst
<1> QED BY <1>2, <1>3

LEMMA LinkReader ==
  ASSUME TypeOK, LinkInv, ReaderStep
  PROVE  LinkInv'
<1>0. Answers /\ ServedAlive /\ DumpFirst BY DEF LinkInv
<1>1. UNCHANGED <<link, phase, dial, pc>>
  BY DEF ReaderStep, Reader, HandleSvc, HandleAtt, HandleConnected,
         HandlePaired, HandleDisconnected, HandleNotify, SendToClient,
         HardClose, ReaderLeaves, guest, threads
<1>2. ASSUME NEW kind, Takes(kind),
             HolderAt(Serving)' => HolderAt(Serving) /\ kind \notin Ends
      PROVE  ServedAlive'
  BY <1>0, <1>1, <1>2, HeadTaken DEF ServedAlive
<1>3. ASSUME \A s \in Sessions : slot' = s => pc'[s] \in Early
      PROVE  ~SawConnected' /\ ~SawPaired' /\ ~HolderAt(Serving)'
  BY <1>3 DEF SawConnected, SawPaired, HolderAt, Serving, Early
<1>4. CASE HandleSvc
  <2>1. \A s \in Sessions : slot' = s => pc'[s] \in Early
    <3>1. CASE svcSeen
      BY <1>4, <3>1, Bounds DEF HandleSvc, TakeSlot
    <3>2. CASE ~svcSeen
      BY <1>0, <1>1, <1>4, <3>2 DEF HandleSvc, DumpFirst
    <3> QED BY <3>1, <3>2
  <2>2. ~SawConnected' /\ ~SawPaired' /\ ~HolderAt(Serving)' BY <1>3, <2>1
  <2>3. Takes("svc") BY <1>4 DEF HandleSvc
  <2>4. Answers' BY <1>0, <1>1, <2>2, <2>3, AnswersTaken
  <2>5. ServedAlive' BY <1>2, <2>2, <2>3
  <2>6. /\ svcSeen'
        /\ dbReady' => dbReady
        /\ slot' \in {slot, Nobody}
    BY <1>4 DEF HandleSvc, TakeSlot
  <2>7. DumpFirst' BY <1>0, <1>1, <2>3, <2>6, DumpTaken
  <2> QED BY <2>4, <2>5, <2>7 DEF LinkInv
<1>5. CASE HandleDisconnected
  <2>1. Takes("disconnected") /\ slot' = Nobody /\ UNCHANGED <<svcSeen, dbReady>>
    BY <1>5 DEF HandleDisconnected, TakeSlot, db
  <2>2. ~SawConnected' /\ ~SawPaired' /\ ~HolderAt(Serving)'
    BY <1>3, <2>1, Bounds
  <2>3. Answers' BY <1>0, <1>1, <2>1, <2>2, AnswersTaken
  <2>4. ServedAlive' BY <1>2, <2>1, <2>2
  <2>5. DumpFirst' BY <1>0, <1>1, <2>1, DumpTaken
  <2> QED BY <2>3, <2>4, <2>5 DEF LinkInv
<1>6. ASSUME NEW kind \in {"att", "connected", "paired", "notify"}, Takes(kind),
             UNCHANGED <<slot, svcSeen>>, dbReady' => dbReady \/ kind = "att",
             connectedEvt' => connectedEvt \/ kind = "connected",
             pairedEvt' => pairedEvt \/ kind = "paired"
      PROVE  LinkInv'
  <2>1. kind \notin Ends BY DEF Ends
  <2>2. \A P : HolderAt(P)' <=> HolderAt(P) BY <1>1, <1>6 DEF HolderAt
  <2>3. /\ SawConnected' => kind = "connected" \/ SawConnected
        /\ SawPaired' => kind = "paired" \/ SawPaired
    BY <1>6, <2>2 DEF SawConnected, SawPaired
  <2>4. Answers' BY <1>0, <1>1, <1>6, <2>1, <2>3, AnswersTaken
  <2>5. ServedAlive' BY <1>2, <1>6, <2>1, <2>2
  <2>6. DumpFirst'
    <3>1. svcSeen \/ kind = "svc" => svcSeen' BY <1>6
    <3> QED BY <1>0, <1>1, <1>6, <3>1, DumpTaken
  <2> QED BY <2>4, <2>5, <2>6 DEF LinkInv
<1>7. CASE HandleAtt
  <2>1. /\ Takes("att") /\ UNCHANGED <<slot, svcSeen, connectedEvt, pairedEvt>>
    BY <1>7 DEF HandleAtt, shake
  <2> QED BY <1>6, <2>1
<1>8. CASE HandleConnected
  <2>1. /\ Takes("connected")
        /\ UNCHANGED <<slot, svcSeen, dbReady, pairedEvt>>
    BY <1>8 DEF HandleConnected, db
  <2> QED BY <1>6, <2>1
<1>9. CASE HandlePaired
  <2>1. /\ Takes("paired")
        /\ UNCHANGED <<slot, svcSeen, dbReady, connectedEvt>>
    BY <1>9 DEF HandlePaired, db
  <2> QED BY <1>6, <2>1
<1>10. CASE HandleNotify
  <2>1. /\ Takes("notify")
        /\ UNCHANGED <<slot, svcSeen, dbReady, connectedEvt, pairedEvt>>
    BY <1>10 DEF HandleNotify, db, shake
  <2> QED BY <1>6, <2>1
<1>11. CASE SendToClient \/ HardClose
  <2>1. UNCHANGED <<guest, queues, db, shake, slot, pc>>
    BY <1>11 DEF SendToClient, HardClose, threads
  <2> QED
    BY <1>0, <2>1
    DEF LinkInv, Answers, ServedAlive, DumpFirst, ConnectedAt, PairedAt,
        SawConnected, SawPaired, Alive, Told, HolderAt, guest, queues, db,
        shake
<1>12. CASE ReaderLeaves
  <2>1. UNCHANGED <<guest, queues, db, shake>> /\ slot' = Nobody
    BY <1>12 DEF ReaderLeaves
  <2>2. ~SawConnected' /\ ~SawPaired' /\ ~HolderAt(Serving)'
    BY <1>3, <2>1, Bounds
  <2>3. ServedAlive' BY <2>2 DEF ServedAlive
  <2>4. Answers'
    BY <1>0, <2>1, <2>2
    DEF Answers, ConnectedAt, PairedAt, Alive, Told, guest, queues
  <2>5. DumpFirst' BY <1>0, <2>1, Bounds DEF DumpFirst, guest, queues, db
  <2> QED BY <2>3, <2>4, <2>5 DEF LinkInv
<1> QED
  BY <1>4, <1>5, <1>7, <1>8, <1>9, <1>10, <1>11, <1>12 DEF ReaderStep, Reader

LEMMA LinkClient ==
  ASSUME TypeOK, SlotInv, LinkInv, NEW s \in Sessions, ClientStep(s)
  PROVE  LinkInv'
<1>0. Answers /\ ServedAlive /\ DumpFirst BY DEF LinkInv
<1>1. UNCHANGED <<g2h, guest, db>>
  BY DEF ClientStep, RunClient, Accept, StartThread, WaitDatabase, ClearEvents,
         DialGuest, WaitConnected, WaitPaired, Subscribe, LoopReceive,
         LoopForward, FinallySlot, FinallyClose, FinallyGoodbye, PeerClose,
         queues
<1>2. ASSUME SawConnected' => SawConnected, SawPaired' => SawPaired,
             HolderAt(Serving)' => HolderAt(Serving) \/ Alive(0),
             \A t \in Sessions :
               slot' = t /\ pc'[t] \notin Early =>
                 dbReady \/ (slot = t /\ pc[t] \notin Early)
      PROVE  LinkInv'
  <2>1. \A i : Alive(i)' <=> Alive(i) BY <1>1 DEF Alive, Told, guest
  <2>2. \A i : (ConnectedAt(i)' => ConnectedAt(i)) /\ (PairedAt(i)' => PairedAt(i))
    BY <1>1, <1>2 DEF ConnectedAt, PairedAt
  <2>3. Answers' BY <1>0, <1>1, <2>1, <2>2 DEF Answers, guest
  <2>4. ServedAlive' BY <1>0, <1>2, <2>1 DEF ServedAlive
  <2>5. DumpFirst' BY <1>0, <1>1, <1>2 DEF DumpFirst, guest, db
  <2> QED BY <2>3, <2>4, <2>5 DEF LinkInv
<1> USE DEF HolderAt, SawConnected, SawPaired
<1>3. ASSUME NEW from, NEW to, Goes(s, from, to), slot' = slot,
             connectedEvt' => connectedEvt, pairedEvt' => pairedEvt,
             to = "pairing" => from = "connecting" /\ connectedEvt,
             to \in {"dial", "connecting"} =>
               from \in {"dial", "connecting"}
                 \/ (~connectedEvt' /\ ~pairedEvt'),
             to \in Serving =>
               from \in Serving \/ (from = "pairing" /\ pairedEvt),
             to \in Early \/ from \notin Early \/ dbReady
      PROVE  LinkInv'
  <2>1. /\ pc[s] = from /\ pc'[s] = to
        /\ \A t \in Sessions \ {s} : pc'[t] = pc[t]
    BY <1>3 DEF Goes, TypeOK
  <2>2. SawConnected' => SawConnected BY <1>3, <2>1
  <2>3. SawPaired' => SawPaired BY <1>3, <2>1
  <2>4. HolderAt(Serving)' => HolderAt(Serving) \/ Alive(0)
    <3>1. ASSUME slot = s, from = "pairing", pairedEvt PROVE Alive(0)
      <4>1. ConnectedAt(0) /\ PairedAt(0)
        BY <2>1, <3>1 DEF ConnectedAt, PairedAt
      <4>2. 0 \in 0 .. Len(g2h) BY DEF TypeOK
      <4> QED BY <1>0, <4>1, <4>2 DEF Answers
    <3> QED BY <1>3, <2>1, <3>1
  <2> QED BY <1>2, <1>3, <2>1, <2>2, <2>3, <2>4
<1>4. CASE Accept(s) \/ StartThread(s)
  <2>1. CASE Accept(s)
    <3>1. /\ pc[s] = "none" /\ UNCHANGED <<connectedEvt, pairedEvt>>
          /\ \A t \in Sessions \ {s} : pc'[t] = pc[t]
          /\ \/ slot' = s /\ pc'[s] = "accepted"
             \/ slot' = slot
      BY <2>1 DEF Accept, shake, TypeOK
    <3>2. slot # s BY <3>1 DEF SlotInv, SlotServed
    <3>3. \A t \in Sessions :
            slot' = t => pc'[t] = "accepted" \/ (slot = t /\ pc'[t] = pc[t])
      BY <3>1, <3>2
    <3> QED BY <1>2, <3>1, <3>3 DEF Serving, Early
  <2>2. CASE StartThread(s)
    <3>1. /\ UNCHANGED <<slot, connectedEvt, pairedEvt>>
          /\ \A t \in Sessions \ {s} : pc'[t] = pc[t]
          /\ slot = s => pc'[s] = "db"
      BY <2>2 DEF StartThread, SlotInv, SlotServed, shake, TypeOK
    <3> QED BY <1>2, <3>1 DEF Serving, Early
  <2> QED BY <1>4, <2>1, <2>2
<1>5. CASE ClearEvents(s)
  BY <1>3, <1>5 DEF ClearEvents, Serving, Early
<1>6. CASE WaitDatabase(s) \/ DialGuest(s)
  BY <1>3, <1>6 DEF WaitDatabase, DialGuest, shake, Serving, Early
<1>7. CASE WaitConnected(s) \/ WaitPaired(s)
  BY <1>3, <1>7 DEF WaitConnected, WaitPaired, shake, Serving, Early
<1>8. CASE Subscribe(s) \/ LoopReceive(s) \/ LoopForward(s)
  BY <1>3, <1>8 DEF Subscribe, LoopReceive, LoopForward, shake, Serving, Early
<1>9. CASE FinallySlot(s)
  <2>1. /\ \A t \in Sessions \ {s} : pc'[t] = pc[t]
        /\ slot' \in {slot, Nobody} /\ slot' # s
        /\ UNCHANGED <<connectedEvt, pairedEvt>>
    BY <1>9, Bounds DEF FinallySlot, Goes, shake, TypeOK
  <2> QED BY <1>2, <2>1, Bounds
<1>10. CASE FinallyClose(s) \/ FinallyGoodbye(s)
  <2>1. /\ \A t \in Sessions \ {s} : pc'[t] = pc[t]
        /\ pc[s] \in {"close", "goodbye"}
        /\ UNCHANGED <<slot, connectedEvt, pairedEvt>>
    BY <1>10 DEF FinallyClose, FinallyGoodbye, Goes, shake, TypeOK
  <2>2. slot # s BY <2>1 DEF SlotInv, SlotServed
  <2> QED BY <1>2, <2>1, <2>2
<1>11. CASE PeerClose(s)
  BY <1>2, <1>11 DEF PeerClose, shake, threads
<1> QED
  BY <1>4, <1>5, <1>6, <1>7, <1>8, <1>9, <1>10, <1>11
  DEF ClientStep, RunClient

LEMMA LinkStep ==
  ASSUME BridgeInv, LinkInv, [Next]_vars
  PROVE  LinkInv'
<1>0. TypeOK /\ TestedInRoom /\ SlotInv BY DEF BridgeInv
<1>1. CASE GuestStep
  BY <1>0, <1>1, AnswersGuest, ServedGuest DEF LinkInv
<1>2. CASE ReaderStep BY <1>0, <1>2, LinkReader
<1>3. CASE \E s \in Sessions : ClientStep(s) BY <1>0, <1>3, LinkClient
<1>4. CASE UNCHANGED vars
  BY <1>4
  DEF vars, guest, queues, db, shake, threads, LinkInv, Answers, ServedAlive,
      DumpFirst, ConnectedAt, PairedAt, SawConnected, SawPaired, Alive, Told,
      HolderAt
<1> QED
  BY <1>1, <1>2, <1>3, <1>4 DEF Next, GuestStep, ReaderStep, ClientStep

(* Whoever is served has the guest's link, or the news of its end is on    *)
(* the way: for any clients, reboots and rejections, and however long the  *)
(* guest takes, although the handshake's events may be answers to an       *)
(* earlier client.                                                         *)
THEOREM ServedIsTold == Spec => []ServedOrTold
<1>1. Init => LinkInv
  <2> SUFFICES ASSUME Init PROVE LinkInv OBVIOUS
  <2> USE Bounds DEF Init
  <2>1. \A P : ~HolderAt(P) BY DEF HolderAt
  <2>2. Answers BY DEF Answers, Alive
  <2>3. ServedAlive BY <2>1 DEF ServedAlive
  <2>4. DumpFirst BY DEF DumpFirst
  <2> QED BY <2>2, <2>3, <2>4 DEF LinkInv
<1>2. BridgeInv /\ LinkInv /\ [Next]_vars => LinkInv' BY LinkStep
<1>3. LinkInv => ServedOrTold
  BY DEF LinkInv, ServedAlive, HolderAt, Alive, Told, Ends, Queued, ServedOrTold
<1> QED BY <1>1, <1>2, <1>3, BridgeInvariant, PTL DEF Spec
=============================================================================
