-------------------------- MODULE GattServerProofs --------------------------
(***************************************************************************)
(* The GATT server's pool and confirmations, for any threads, buffers and  *)
(* token width: every acquired buffer has one holder, who finds in it what *)
(* was stored, and an operation reports the status it was confirmed with.  *)
(***************************************************************************)
EXTENDS GattServer, Remainders, FiniteSetTheorems

(* The host's operation waits for its confirmation.                        *)
Armed == {"token", "status", "callback", "answer"}

(* A write keeps its buffer until it is released.                          *)
Kept == {"arm", "token", "status", "callback", "collect", "release"}

(* Who holds what follows from where each is.                              *)
Holders ==
  /\ op = "write" => (buf # Nothing <=> task \in Kept)
  /\ op = "read" /\ buf # Nothing => task = "report"
  /\ appBuf # Nothing <=> task \in {"answer", "done"}
  /\ task \in {"answer", "done"} => op = "read"
  /\ task = "release" => op = "write"
  /\ \A t \in Threads : tbuf[t] # Nothing <=> tpc[t] # "idle"

Held(b) ==
  WriteHolds(b) \/ appBuf = b \/ \E t \in Threads : tbuf[t] = b

(* A buffer is in use when somebody holds it, and nobody else does.        *)
OneHolder ==
  \A b \in Buffers :
    /\ acq[b] # 0 <=> Held(b)
    /\ \A t \in Threads : tbuf[t] = b =>
         /\ ~WriteHolds(b) /\ appBuf # b
         /\ \A u \in Threads : tbuf[u] = b => u = t

PoolInv == TypeOK /\ Holders /\ OneHolder /\ BuffersIntact

LEMMA Values1 ==
  /\ Nothing \notin Buffers /\ Nothing \notin Values /\ Nothing \notin Statuses
  /\ Nothing # Unlikely /\ NoError \in Statuses /\ Unlikely \notin Statuses
  /\ BleTask \in Threads
  /\ TokenMod \in Nat \ {0} /\ 0 \in 0 .. TokenMod - 1
BY GattAssumption

-----------------------------------------------------------------------------
(* Types.                                                                  *)
LEMMA TypeInitial == Init => TypeOK
BY Values1 DEF Init, TypeOK

LEMMA NextToken ==
  ASSUME TypeOK
  PROVE  (tokenSeq + 1) % TokenMod \in 0 .. TokenMod - 1
<1>1. tokenSeq + 1 \in Int BY Values1 DEF TypeOK
<1> QED BY <1>1, Values1, DivMod

LEMMA TypeAnswer ==
  ASSUME TypeOK, OneHolder, Holders, Answer
  PROVE  TypeOK'
<1> USE DEF TypeOK
<1>1. CASE \E s \in Statuses : AppConfirm(s)
  BY <1>1, Values1
  DEF AppConfirm, Confirm, Store, pool, opdata, defer, notify
<1>2. CASE \E b \in Buffers, v \in Values : AppRead(b, v)
  BY <1>2 DEF AppRead, Alloc, confirm, defer, notify
<1>3. CASE AppReadConfirm
  BY <1>3, Values1
  DEF AppReadConfirm, Confirm, Store, pool, opdata, defer, notify
<1>4. CASE AppReadRelease
  <2>1. appBuf \in Buffers /\ acq[appBuf] # 0
    BY <1>4 DEF AppReadRelease, Holders, OneHolder, Held
  <2>2. acq[appBuf] - 1 = 0 BY <2>1
  <2> QED
    BY <1>4, <2>1, <2>2, Values1
    DEF AppReadRelease, Release, confirm, history, defer, notify
<1>5. CASE AppDefers
  BY <1>5 DEF AppDefers, pool, confirm, opdata, history, notify
<1>6. CASE \E d \in late : LateTest(d)
  BY <1>6 DEF LateTest, pool, confirm, opdata, notify
<1>7. CASE \E d \in tested, s \in Statuses : LateStore(d, s)
  BY <1>7, Values1 DEF LateStore, Store, pool, opdata, notify
<1> QED BY <1>1, <1>2, <1>3, <1>4, <1>5, <1>6, <1>7 DEF Answer

LEMMA TypeHostOp ==
  ASSUME TypeOK, OneHolder, Holders, HostOp
  PROVE  TypeOK'
<1> USE DEF TypeOK
<1>1. CASE \E b \in Buffers, v \in Values : HostWrite(b, v)
  <2>1. PICK b \in Buffers, v \in Values : HostWrite(b, v) BY <1>1
  <2> USE <2>1 DEF HostWrite, Begin, Alloc, confirm, defer, notify
  <2>2. /\ acq' \in [Buffers -> {0, 1}]
        /\ content' \in [Buffers -> Values \cup {Nothing}]
        /\ own' \in Statuses \cup {Nothing} /\ overtaken' \in BOOLEAN
        /\ op' \in {"write", "read"}
    OBVIOUS
  <2> QED BY <2>2
<1>2. CASE HostWriteNoBuffer \/ HostRead
  BY <1>2, Values1
  DEF HostWriteNoBuffer, HostRead, Begin, pool, confirm, defer, notify
<1>3. CASE ArmPending
  BY <1>3 DEF ArmPending, pool, opdata, defer, notify
<1>4. CASE ArmToken
  BY <1>4, NextToken DEF ArmToken, pool, opdata, history, defer, notify
<1>5. CASE ArmStatus
  BY <1>5 DEF ArmStatus, pool, opdata, history, defer, notify
<1>6. CASE Collect
  BY <1>6 DEF Collect, pool, history, defer, notify
<1>7. CASE WriteRelease
  <2>1. buf \in Buffers /\ acq[buf] # 0
    BY <1>7 DEF WriteRelease, Holders, OneHolder, Held, WriteHolds, Kept
  <2>2. acq[buf] - 1 = 0 BY <2>1
  <2> QED
    BY <1>7, <2>1, <2>2
    DEF WriteRelease, Release, confirm, history, defer, notify
<1>8. CASE Report
  BY <1>8 DEF Report, pool, confirm, history, defer, notify
<1> QED BY <1>1, <1>2, <1>3, <1>4, <1>5, <1>6, <1>7, <1>8 DEF HostOp

LEMMA TypeNotify ==
  ASSUME TypeOK, OneHolder, Holders, NEW t \in Threads, Notify(t)
  PROVE  TypeOK'
<1> USE DEF TypeOK
<1>1. CASE \E b \in Buffers, v \in Values : NotifyAlloc(t, b, v)
  BY <1>1
  DEF NotifyAlloc, Alloc, confirm, hostop, opdata, history, defer
<1>2. CASE NotifySend(t)
  BY <1>2 DEF NotifySend, pool, confirm, hostop, opdata, history, defer
<1>3. CASE NotifyRelease(t)
  <2>1. tbuf[t] \in Buffers /\ acq[tbuf[t]] # 0
    BY <1>3 DEF NotifyRelease, Holders, OneHolder, Held
  <2>2. acq[tbuf[t]] - 1 = 0 BY <2>1
  <2> QED
    BY <1>3, <2>1, <2>2
    DEF NotifyRelease, Release, confirm, hostop, opdata, history, defer
<1> QED BY <1>1, <1>2, <1>3 DEF Notify

-----------------------------------------------------------------------------
(* Who holds which buffer.                                                 *)
LEMMA HoldersHostOp ==
  ASSUME TypeOK, Holders, HostOp
  PROVE  Holders'
<1> USE DEF TypeOK, Holders, Kept
<1>1. CASE \E b \in Buffers, v \in Values : HostWrite(b, v)
  BY <1>1, Values1 DEF HostWrite, Begin, notify
<1>2. CASE HostWriteNoBuffer \/ HostRead
  BY <1>2 DEF HostWriteNoBuffer, HostRead, Begin, notify
<1>3. CASE ArmPending \/ ArmToken \/ ArmStatus
  BY <1>3 DEF ArmPending, ArmToken, ArmStatus, opdata, notify
<1>4. CASE Collect
  BY <1>4 DEF Collect, notify
<1>5. CASE WriteRelease \/ Report
  BY <1>5 DEF WriteRelease, Report, notify
<1> QED BY <1>1, <1>2, <1>3, <1>4, <1>5 DEF HostOp

LEMMA HoldersAnswer ==
  ASSUME TypeOK, Holders, Answer
  PROVE  Holders'
<1> USE DEF TypeOK, Holders, Kept
<1>1. CASE \E s \in Statuses : AppConfirm(s)
  BY <1>1 DEF AppConfirm, InCallback, opdata, notify
<1>2. CASE \E b \in Buffers, v \in Values : AppRead(b, v)
  BY <1>2, Values1 DEF AppRead, InCallback, notify
<1>3. CASE AppReadConfirm \/ AppReadRelease \/ AppDefers
  BY <1>3
  DEF AppReadConfirm, AppReadRelease, AppDefers, InCallback, opdata, notify
<1>4. CASE \E d \in late : LateTest(d)
  BY <1>4 DEF LateTest, opdata, notify
<1>5. CASE \E d \in tested, s \in Statuses : LateStore(d, s)
  BY <1>5 DEF LateStore, opdata, notify
<1> QED BY <1>1, <1>2, <1>3, <1>4, <1>5 DEF Answer

LEMMA HoldersNotify ==
  ASSUME TypeOK, Holders, NEW t \in Threads, Notify(t)
  PROVE  Holders'
<1> USE DEF TypeOK, Holders
<1>1. CASE \E b \in Buffers, v \in Values : NotifyAlloc(t, b, v)
  BY <1>1, Values1 DEF NotifyAlloc, hostop, opdata
<1>2. CASE NotifySend(t) \/ NotifyRelease(t)
  BY <1>2 DEF NotifySend, NotifyRelease, hostop, opdata
<1> QED BY <1>1, <1>2 DEF Notify

-----------------------------------------------------------------------------
(* One holder each, who finds what was stored.                             *)

(* A step that neither takes nor releases a buffer.                        *)
LEMMA Undisturbed ==
  ASSUME PoolInv, UNCHANGED <<pool, appBuf, tbuf, tval>>,
         \A t \in Threads : tpc'[t] # "idle" => tpc[t] # "idle",
         \A b \in Buffers : WriteHolds(b)' <=> WriteHolds(b),
         \A b \in Buffers : WriteHolds(b) => value' = value
  PROVE  OneHolder' /\ BuffersIntact'
BY DEF PoolInv, OneHolder, Held, BuffersIntact, pool, WriteHolds

(* A buffer that is taken has no holder; the others keep their bytes.      *)
LEMMA Taken ==
  ASSUME PoolInv, NEW b \in Buffers, NEW v \in Values, Alloc(b, v)
  PROVE  /\ ~Held(b)
         /\ acq'[b] # 0 /\ content'[b] = v
         /\ \A c \in Buffers \ {b} : acq'[c] = acq[c] /\ content'[c] = content[c]
BY DEF PoolInv, OneHolder, Alloc, TypeOK

(* A buffer that is released is free.                                      *)
LEMMA Freed ==
  ASSUME PoolInv, NEW b \in Buffers, Held(b), Release(b)
  PROVE  /\ acq'[b] = 0 /\ content' = content
         /\ \A c \in Buffers \ {b} : acq'[c] = acq[c]
<1>1. acq[b] # 0 BY DEF PoolInv, OneHolder
<1>2. acq[b] = 1 BY <1>1 DEF PoolInv, TypeOK
<1> QED BY <1>2 DEF Release, PoolInv, TypeOK

LEMMA PoolHostOp ==
  ASSUME PoolInv, HostOp
  PROVE  OneHolder' /\ BuffersIntact'
<1>0. TypeOK /\ Holders /\ OneHolder /\ BuffersIntact BY DEF PoolInv
<1>1. CASE \E b \in Buffers, v \in Values : HostWrite(b, v)
  <2>1. PICK b \in Buffers, v \in Values : HostWrite(b, v) BY <1>1
  <2>2. task = "idle" /\ Alloc(b, v) BY <2>1 DEF HostWrite, Begin
  <2>3. \A c \in Buffers : ~WriteHolds(c) /\ appBuf # c
    BY <1>0, <2>2, Values1 DEF Holders, Kept, WriteHolds
  <2>4. /\ op' = "write" /\ buf' = b /\ value' = v
        /\ UNCHANGED <<appBuf, tpc, tbuf, tval>>
    BY <2>1 DEF HostWrite, Begin, notify
  <2>5. \A c \in Buffers : WriteHolds(c)' <=> c = b BY <2>4 DEF WriteHolds
  <2>6. /\ ~Held(b) /\ acq'[b] # 0 /\ content'[b] = v
        /\ \A c \in Buffers \ {b} : acq'[c] = acq[c] /\ content'[c] = content[c]
    BY <2>2, Taken
  <2>7. OneHolder'
    BY <1>0, <2>3, <2>4, <2>5, <2>6 DEF OneHolder, Held
  <2>8. \A t \in Threads : tpc[t] # "idle" => tbuf[t] \in Buffers \ {b}
    BY <1>0, <2>6 DEF Holders, Held, TypeOK
  <2> QED BY <1>0, <2>4, <2>5, <2>6, <2>7, <2>8 DEF BuffersIntact
<1>2. CASE HostWriteNoBuffer \/ HostRead
  <2>1. /\ task = "idle"
        /\ UNCHANGED <<pool, appBuf, tbuf, tval, tpc, buf, value>>
    BY <1>2 DEF HostWriteNoBuffer, HostRead, Begin, notify
  <2>2. buf = Nothing BY <1>0, <2>1 DEF Holders, Kept, TypeOK
  <2>3. \A c \in Buffers : ~WriteHolds(c) /\ ~WriteHolds(c)'
    BY <2>1, <2>2, Values1 DEF WriteHolds
  <2> QED BY <2>1, <2>3, Undisturbed
<1>3. CASE ArmPending \/ ArmToken \/ ArmStatus
  <2>1. UNCHANGED <<pool, appBuf, tbuf, tval, tpc, buf, op, value>>
    BY <1>3
    DEF ArmPending, ArmToken, ArmStatus, opdata, history, notify
  <2> QED BY <2>1, Undisturbed DEF WriteHolds
<1>4. CASE Collect
  <2>1. /\ UNCHANGED <<pool, appBuf, tbuf, tval, tpc, op, value>>
        /\ op # "read" => buf' = buf
    BY <1>4, <1>0 DEF Collect, history, notify, TypeOK
  <2> QED BY <2>1, Undisturbed DEF WriteHolds
<1>5. CASE WriteRelease
  <2>1. /\ task = "release" /\ Release(buf) /\ buf' = Nothing
        /\ UNCHANGED <<op, appBuf, tpc, tbuf, tval>>
    BY <1>5 DEF WriteRelease, notify
  <2>2. buf \in Buffers /\ WriteHolds(buf)
    BY <1>0, <2>1 DEF Holders, Kept, WriteHolds, TypeOK
  <2>3. /\ acq'[buf] = 0 /\ content' = content
        /\ \A c \in Buffers \ {buf} : acq'[c] = acq[c]
    BY <2>1, <2>2, Freed DEF Held
  <2>4. \A c \in Buffers : WriteHolds(c) <=> c = buf BY <2>2 DEF WriteHolds
  <2>5. \A c \in Buffers : ~WriteHolds(c)' BY <2>1, Values1 DEF WriteHolds
  <2>6. appBuf # buf /\ \A t \in Threads : tbuf[t] # buf
    <3>1. appBuf = Nothing BY <1>0, <2>1 DEF Holders
    <3>2. \A t \in Threads : tbuf[t] # buf BY <1>0, <2>2 DEF OneHolder
    <3> QED BY <3>1, <3>2, <2>2, Values1
  <2>7. OneHolder'
    BY <1>0, <2>1, <2>3, <2>4, <2>5, <2>6 DEF OneHolder, Held
  <2> QED BY <1>0, <2>1, <2>3, <2>5, <2>7 DEF BuffersIntact
<1>6. CASE Report
  <2>1. /\ task = "report" /\ buf' = Nothing
        /\ UNCHANGED <<pool, op, appBuf, tpc, tbuf, tval, value>>
    BY <1>6 DEF Report, history, notify
  <2>2. \A c \in Buffers : ~WriteHolds(c) /\ ~WriteHolds(c)'
    BY <1>0, <2>1, Values1 DEF WriteHolds, Holders, Kept
  <2> QED BY <2>1, <2>2, Undisturbed
<1> QED BY <1>1, <1>2, <1>3, <1>4, <1>5, <1>6 DEF HostOp

LEMMA PoolAnswer ==
  ASSUME PoolInv, Answer
  PROVE  OneHolder' /\ BuffersIntact'
<1>0. TypeOK /\ Holders /\ OneHolder /\ BuffersIntact BY DEF PoolInv
<1>1. CASE \E s \in Statuses : AppConfirm(s)
  <2>1. /\ UNCHANGED <<pool, appBuf, tbuf, tval, tpc, op, buf>>
        /\ op # "read" => value' = value
    BY <1>1 DEF AppConfirm, opdata, notify
  <2> QED BY <2>1, Undisturbed DEF WriteHolds
<1>2. CASE \E b \in Buffers, v \in Values : AppRead(b, v)
  <2>1. PICK b \in Buffers, v \in Values : AppRead(b, v) BY <1>2
  <2>2. /\ task = "callback" /\ op = "read" /\ Alloc(b, v) /\ appBuf' = b
        /\ UNCHANGED <<op, buf, tpc, tbuf, tval>>
    BY <2>1 DEF AppRead, InCallback, notify
  <2>3. \A c \in Buffers : ~WriteHolds(c) /\ ~WriteHolds(c)' /\ appBuf # c
    BY <1>0, <2>2, Values1 DEF Holders, WriteHolds
  <2>4. /\ ~Held(b) /\ acq'[b] # 0 /\ content'[b] = v
        /\ \A c \in Buffers \ {b} : acq'[c] = acq[c] /\ content'[c] = content[c]
    BY <2>2, Taken
  <2>5. OneHolder'
    BY <1>0, <2>2, <2>3, <2>4 DEF OneHolder, Held
  <2>6. \A t \in Threads : tpc[t] # "idle" => tbuf[t] \in Buffers \ {b}
    BY <1>0, <2>4 DEF Holders, Held, TypeOK
  <2> QED BY <1>0, <2>2, <2>3, <2>4, <2>5, <2>6 DEF BuffersIntact
<1>3. CASE AppReadConfirm \/ AppDefers
  <2>1. UNCHANGED <<pool, appBuf, tbuf, tval, tpc, op, buf, value>>
    BY <1>3 DEF AppReadConfirm, AppDefers, opdata, history, notify
  <2> QED BY <2>1, Undisturbed DEF WriteHolds
<1>4. CASE AppReadRelease
  <2>1. /\ task = "done" /\ Release(appBuf) /\ appBuf' = Nothing
        /\ UNCHANGED <<op, buf, tpc, tbuf, tval>>
    BY <1>4 DEF AppReadRelease, notify
  <2>2. appBuf \in Buffers /\ op = "read"
    BY <1>0, <2>1 DEF Holders, TypeOK
  <2>3. /\ acq'[appBuf] = 0 /\ content' = content
        /\ \A c \in Buffers \ {appBuf} : acq'[c] = acq[c]
    BY <2>1, <2>2, Freed DEF Held
  <2>4. \A c \in Buffers : ~WriteHolds(c) /\ ~WriteHolds(c)'
    BY <2>1, <2>2 DEF WriteHolds
  <2>5. \A t \in Threads : tbuf[t] # appBuf
    BY <1>0, <2>2 DEF OneHolder
  <2>6. OneHolder'
    BY <1>0, <2>1, <2>3, <2>4, <2>5, Values1 DEF OneHolder, Held
  <2> QED BY <1>0, <2>1, <2>3, <2>4, <2>6 DEF BuffersIntact
<1>5. CASE \E d \in late : LateTest(d)
  <2>1. UNCHANGED <<pool, appBuf, tbuf, tval, tpc, op, buf, value>>
    BY <1>5 DEF LateTest, opdata, notify
  <2> QED BY <2>1, Undisturbed DEF WriteHolds
<1>6. CASE \E d \in tested, s \in Statuses : LateStore(d, s)
  <2>1. UNCHANGED <<pool, appBuf, tbuf, tval, tpc, op, buf, value>>
    BY <1>6 DEF LateStore, opdata, notify
  <2> QED BY <2>1, Undisturbed DEF WriteHolds
<1> QED BY <1>1, <1>2, <1>3, <1>4, <1>5, <1>6 DEF Answer

LEMMA PoolNotify ==
  ASSUME PoolInv, NEW t \in Threads, Notify(t)
  PROVE  OneHolder' /\ BuffersIntact'
<1>0. TypeOK /\ Holders /\ OneHolder /\ BuffersIntact BY DEF PoolInv
<1>1. ASSUME NEW b \in Buffers, NEW v \in Values, NotifyAlloc(t, b, v)
      PROVE  OneHolder' /\ BuffersIntact'
  <2>1. /\ Alloc(b, v) /\ UNCHANGED <<op, buf, appBuf, value>>
        /\ tbuf' = [tbuf EXCEPT ![t] = b] /\ tval' = [tval EXCEPT ![t] = v]
        /\ tpc[t] = "idle" /\ tpc' = [tpc EXCEPT ![t] = "filled"]
    BY <1>1 DEF NotifyAlloc, hostop, opdata, history
  <2>2. \A c \in Buffers : WriteHolds(c)' <=> WriteHolds(c)
    BY <2>1 DEF WriteHolds
  <2>3. /\ ~Held(b) /\ acq'[b] # 0 /\ content'[b] = v
        /\ \A c \in Buffers \ {b} : acq'[c] = acq[c] /\ content'[c] = content[c]
    BY <2>1, Taken
  <2>4. /\ tbuf'[t] = b /\ tval'[t] = v
        /\ \A u \in Threads \ {t} :
             tbuf'[u] = tbuf[u] /\ tval'[u] = tval[u] /\ tpc'[u] = tpc[u]
    BY <1>0, <2>1 DEF TypeOK
  <2>5. tbuf[t] = Nothing BY <1>0, <2>1 DEF Holders, TypeOK
  <2>6. \A u \in Threads : tbuf[u] # b BY <2>3 DEF Held
  <2>7. ~WriteHolds(b) /\ appBuf # b BY <2>3 DEF Held
  <2>8. OneHolder'
    <3>1. ASSUME NEW c \in Buffers PROVE acq'[c] # 0 <=> Held(c)'
      <4>1. CASE c = b BY <4>1, <2>3, <2>4 DEF Held
      <4>2. CASE c # b
        <5>1. acq'[c] = acq[c] BY <4>2, <2>3
        <5>2. (\E u \in Threads : tbuf'[u] = c)
                <=> \E u \in Threads : tbuf[u] = c
          BY <4>2, <2>4, <2>5, Values1
        <5> QED BY <1>0, <5>1, <5>2, <2>1, <2>2 DEF OneHolder, Held
      <4> QED BY <4>1, <4>2
    <3>2. ASSUME NEW c \in Buffers, NEW u \in Threads, tbuf'[u] = c
          PROVE  /\ ~WriteHolds(c)' /\ appBuf' # c
                 /\ \A w \in Threads : tbuf'[w] = c => w = u
      <4>1. CASE c = b
        BY <3>2, <4>1, <2>1, <2>2, <2>4, <2>6, <2>7
      <4>2. CASE c # b
        BY <3>2, <4>2, <1>0, <2>1, <2>2, <2>4 DEF OneHolder
      <4> QED BY <4>1, <4>2
    <3> QED BY <3>1, <3>2 DEF OneHolder
  <2>9. ASSUME NEW u \in Threads, tpc'[u] # "idle"
        PROVE  content'[tbuf'[u]] = tval'[u]
    <3>1. CASE u = t BY <3>1, <2>3, <2>4
    <3>2. CASE u # t
      <4>1. tbuf[u] \in Buffers \ {b}
        BY <1>0, <2>9, <3>2, <2>4, <2>6 DEF Holders, TypeOK
      <4> QED BY <1>0, <2>9, <3>2, <4>1, <2>3, <2>4 DEF BuffersIntact
    <3> QED BY <3>1, <3>2
  <2>10. \A c \in Buffers : WriteHolds(c)' => content'[c] = value'
    BY <1>0, <2>1, <2>2, <2>3, <2>7 DEF BuffersIntact
  <2> QED BY <2>8, <2>9, <2>10 DEF BuffersIntact
<1>2. CASE NotifySend(t)
  <2>1. /\ UNCHANGED <<pool, appBuf, tbuf, tval, op, buf, value>>
        /\ tpc[t] = "filled" /\ tpc' = [tpc EXCEPT ![t] = "sent"]
    BY <1>2 DEF NotifySend, hostop, opdata, history
  <2>2. \A u \in Threads : tpc'[u] # "idle" => tpc[u] # "idle"
    BY <1>0, <2>1 DEF TypeOK
  <2> QED BY <2>1, <2>2, Undisturbed DEF WriteHolds
<1>3. CASE NotifyRelease(t)
  <2>1. /\ Release(tbuf[t]) /\ UNCHANGED <<op, buf, appBuf, value>>
        /\ tbuf' = [tbuf EXCEPT ![t] = Nothing]
        /\ tval' = [tval EXCEPT ![t] = Nothing]
        /\ tpc[t] = "sent" /\ tpc' = [tpc EXCEPT ![t] = "idle"]
    BY <1>3 DEF NotifyRelease, hostop, opdata, history
  <2> DEFINE b == tbuf[t]
  <2>2. b \in Buffers BY <1>0, <2>1 DEF Holders, TypeOK
  <2>3. /\ acq'[b] = 0 /\ content' = content
        /\ \A c \in Buffers \ {b} : acq'[c] = acq[c]
    BY <2>1, <2>2, Freed DEF Held
  <2>4. /\ tbuf'[t] = Nothing /\ tpc'[t] = "idle"
        /\ \A u \in Threads \ {t} :
             tbuf'[u] = tbuf[u] /\ tval'[u] = tval[u] /\ tpc'[u] = tpc[u]
    BY <1>0, <2>1 DEF TypeOK
  <2>5. \A c \in Buffers : WriteHolds(c)' <=> WriteHolds(c)
    BY <2>1 DEF WriteHolds
  <2>6. /\ ~WriteHolds(b) /\ appBuf # b
        /\ \A u \in Threads : tbuf[u] = b => u = t
    BY <1>0, <2>2 DEF OneHolder
  <2> HIDE DEF b
  <2>7. OneHolder'
    <3>1. ASSUME NEW c \in Buffers PROVE acq'[c] # 0 <=> Held(c)'
      <4>1. CASE c = b
        BY <4>1, <2>1, <2>3, <2>4, <2>5, <2>6, Values1 DEF Held
      <4>2. CASE c # b
        <5>1. acq'[c] = acq[c] BY <4>2, <2>3
        <5>2. (\E u \in Threads : tbuf'[u] = c)
                <=> \E u \in Threads : tbuf[u] = c
          BY <4>2, <2>4, Values1 DEF b
        <5> QED BY <1>0, <5>1, <5>2, <2>1, <2>5 DEF OneHolder, Held
      <4> QED BY <4>1, <4>2
    <3>2. ASSUME NEW c \in Buffers, NEW u \in Threads, tbuf'[u] = c
          PROVE  /\ ~WriteHolds(c)' /\ appBuf' # c
                 /\ \A w \in Threads : tbuf'[w] = c => w = u
      <4>1. u # t BY <3>2, <2>4, Values1
      <4>2. tbuf[u] = c BY <3>2, <4>1, <2>4
      <4>3. \A w \in Threads : tbuf'[w] = c => tbuf[w] = c
        BY <2>4, Values1
      <4> QED BY <1>0, <4>2, <4>3, <2>1, <2>5 DEF OneHolder
    <3> QED BY <3>1, <3>2 DEF OneHolder
  <2>8. BuffersIntact'
    BY <1>0, <2>1, <2>3, <2>4, <2>5 DEF BuffersIntact
  <2> QED BY <2>7, <2>8
<1> QED BY <1>1, <1>2, <1>3 DEF Notify

LEMMA PoolInitial == Init => PoolInv
<1> SUFFICES ASSUME Init PROVE PoolInv OBVIOUS
<1>1. TypeOK BY TypeInitial
<1>2. Holders BY DEF Init, Holders, Kept
<1>3. OneHolder /\ BuffersIntact
  BY Values1 DEF Init, OneHolder, Held, WriteHolds, BuffersIntact
<1> QED BY <1>1, <1>2, <1>3 DEF PoolInv

LEMMA PoolStep == PoolInv /\ [Next]_vars => PoolInv'
<1> SUFFICES ASSUME PoolInv, [Next]_vars PROVE PoolInv' OBVIOUS
<1>1. CASE HostOp
  BY <1>1, TypeHostOp, HoldersHostOp, PoolHostOp DEF PoolInv
<1>2. CASE Answer
  BY <1>2, TypeAnswer, HoldersAnswer, PoolAnswer DEF PoolInv
<1>3. CASE \E t \in Threads : Notify(t)
  BY <1>3, TypeNotify, HoldersNotify, PoolNotify DEF PoolInv
<1>4. CASE UNCHANGED vars
  <2> USE <1>4
      DEF vars, pool, confirm, hostop, opdata, history, defer, notify, PoolInv
  <2>1. TypeOK' BY DEF TypeOK
  <2>2. Holders' BY DEF Holders
  <2>3. OneHolder' /\ BuffersIntact'
    BY DEF OneHolder, Held, WriteHolds, BuffersIntact
  <2> QED BY <2>1, <2>2, <2>3
<1> QED BY <1>1, <1>2, <1>3, <1>4 DEF Next

LEMMA PoolInvariant == Spec => []PoolInv
BY PoolInitial, PoolStep, PTL DEF Spec

(* The fields of the server's state keep their types: the token stays a    *)
(* uint16_t, and a buffer is acquired at most once.                        *)
THEOREM GattTypes == Spec => []TypeOK
<1>1. PoolInv => TypeOK BY DEF PoolInv
<1> QED BY <1>1, PoolInvariant, PTL

(* A thread that sends finds in its buffer what it put there, and the      *)
(* firmware sees the data that the host wrote.                             *)
THEOREM BuffersStayIntact == Spec => []BuffersIntact
<1>1. PoolInv => BuffersIntact BY DEF PoolInv
<1> QED BY <1>1, PoolInvariant, PTL

LEMMA OneHolderCounts ==
  ASSUME PoolInv, NEW b \in Buffers
  PROVE  acq[b] = Cardinality(NotifierHolds(b))
             + (IF WriteHolds(b) THEN 1 ELSE 0) + (IF appBuf = b THEN 1 ELSE 0)
<1>0. TypeOK /\ Holders /\ OneHolder BY DEF PoolInv
<1>1. acq[b] \in {0, 1} BY <1>0 DEF TypeOK
<1>2. ~(WriteHolds(b) /\ appBuf = b)
  BY <1>0, Values1 DEF Holders, WriteHolds
<1>3. CASE \E t \in Threads : tbuf[t] = b
  <2>1. PICK t \in Threads : tbuf[t] = b BY <1>3
  <2>2. /\ ~WriteHolds(b) /\ appBuf # b
        /\ \A u \in Threads : tbuf[u] = b => u = t
    BY <1>0, <2>1 DEF OneHolder
  <2>3. NotifierHolds(b) = {t} BY <2>1, <2>2 DEF NotifierHolds
  <2>4. Cardinality(NotifierHolds(b)) = 1 BY <2>3, FS_Singleton
  <2>5. acq[b] # 0 BY <1>0, <2>1 DEF OneHolder, Held
  <2> QED BY <1>1, <2>2, <2>4, <2>5
<1>4. CASE ~\E t \in Threads : tbuf[t] = b
  <2>1. NotifierHolds(b) = {} BY <1>4 DEF NotifierHolds
  <2>2. Cardinality(NotifierHolds(b)) = 0 BY <2>1, FS_EmptySet
  <2>3. acq[b] # 0 <=> WriteHolds(b) \/ appBuf = b
    BY <1>0, <1>4 DEF OneHolder, Held
  <2> QED BY <1>1, <1>2, <2>2, <2>3
<1> QED BY <1>3, <1>4

(* No buffer leaks and none is shared: each that is acquired has the one   *)
(* holder that will release it, whatever the threads' steps interleave.    *)
THEOREM PoolBalances == Spec => []PoolAccounts
<1>1. PoolInv => PoolAccounts BY OneHolderCounts DEF PoolAccounts
<1> QED BY <1>1, PoolInvariant, PTL

-----------------------------------------------------------------------------
(***************************************************************************)
(* Whose status an operation reports.  From the store of its token on, no  *)
(* confirmation that is still to be tested bears that token, until the     *)
(* callback leaves one to another thread; so unless a test came before the *)
(* store, no stale confirmation is past its test, the confirmation stays   *)
(* pending, and the status is the one this operation was given.            *)
(***************************************************************************)
Told == {"status", "callback", "answer", "done"}

TokensApart ==
  /\ task \in {"arm", "token"} =>
       \A d \in late : d.token # (tokenSeq + 1) % TokenMod
  /\ task \in Told => \A d \in late : d.token # tokenSeq
  /\ task \in Told \cup {"collect"} => token = tokenSeq

NoneStale ==
  ~overtaken =>
    /\ task \in Told \cup {"token"} => tested = {}
    /\ task = "collect" => \A d \in tested : d.token = tokenSeq
    /\ task \in Armed => pending

OwnOrUnlikely == IF own = Nothing THEN Unlikely ELSE own

StatusFollows ==
  /\ task \in Armed \cup {"arm"} => own = Nothing
  /\ ~overtaken /\ task \in {"callback", "answer"} => status = Unlikely
  /\ ~overtaken /\ task \in {"done", "collect"} => status = OwnOrUnlikely
  /\ ~overtaken /\ task \in {"release", "report"} => reply = OwnOrUnlikely

StatusInv == TokensApart /\ NoneStale /\ StatusFollows

LEMMA StatusHostOp ==
  ASSUME TypeOK, StatusInv, HostOp
  PROVE  StatusInv'
<1> USE DEF StatusInv, TokensApart, NoneStale, StatusFollows, OwnOrUnlikely,
            Told, Armed
<1>1. CASE (\E b \in Buffers, v \in Values : HostWrite(b, v)) \/ HostRead
  BY <1>1 DEF HostWrite, HostRead, Begin, confirm, defer
<1>2. CASE HostWriteNoBuffer
  BY <1>2 DEF HostWriteNoBuffer, Begin, confirm, defer
<1>3. CASE ArmPending
  BY <1>3 DEF ArmPending, opdata, defer
<1>4. CASE ArmToken
  BY <1>4 DEF ArmToken, opdata, history, defer
<1>5. CASE ArmStatus
  BY <1>5 DEF ArmStatus, opdata, history, defer
<1>6. CASE Collect
  BY <1>6 DEF Collect, history, defer
<1>7. CASE WriteRelease \/ Report
  BY <1>7 DEF WriteRelease, Report, confirm, history, defer
<1> QED BY <1>1, <1>2, <1>3, <1>4, <1>5, <1>6, <1>7 DEF HostOp

LEMMA StatusAnswer ==
  ASSUME TypeOK, StatusInv, Answer
  PROVE  StatusInv'
<1> USE DEF StatusInv, TokensApart, NoneStale, StatusFollows, OwnOrUnlikely,
            Told, Armed
<1>1. CASE \E s \in Statuses : AppConfirm(s)
  BY <1>1, Values1
  DEF AppConfirm, InCallback, Confirm, Store, opdata, defer
<1>2. CASE \E b \in Buffers, v \in Values : AppRead(b, v)
  BY <1>2 DEF AppRead, InCallback, confirm, defer
<1>3. CASE AppReadConfirm
  BY <1>3, Values1 DEF AppReadConfirm, Confirm, Store, opdata, defer
<1>4. CASE AppReadRelease
  BY <1>4 DEF AppReadRelease, confirm, history, defer
<1>5. CASE AppDefers
  BY <1>5 DEF AppDefers, InCallback, confirm, opdata, history
<1>6. CASE \E d \in late : LateTest(d)
  <2>1. PICK d \in late : LateTest(d) BY <1>6
  <2> DEFINE passes == pending /\ d.token = token
  <2>2. /\ late' = late \ {d}
        /\ tested' = IF passes THEN tested \cup {d} ELSE tested
        /\ overtaken' = (overtaken \/ (passes /\ task = "token"))
        /\ UNCHANGED <<confirm, task, reply, own>>
    BY <2>1 DEF LateTest, opdata
  <2> USE DEF confirm
  <2>3. TokensApart' BY <2>2
  <2>4. CASE passes
    <3>1. task \notin Told BY <2>4
    <3>2. NoneStale' BY <2>2, <2>4, <3>1
    <3> QED BY <2>2, <2>3, <3>2
  <2>5. CASE ~passes
    BY <2>2, <2>3, <2>5 DEF TypeOK
  <2> QED BY <2>4, <2>5
<1>7. CASE \E d \in tested, s \in Statuses : LateStore(d, s)
  BY <1>7, Values1 DEF LateStore, Store, opdata
<1> QED BY <1>1, <1>2, <1>3, <1>4, <1>5, <1>6, <1>7 DEF Answer

LEMMA StatusNotify ==
  ASSUME StatusInv, NEW t \in Threads, Notify(t)
  PROVE  StatusInv'
<1>1. UNCHANGED <<confirm, hostop, defer>>
  BY DEF Notify, NotifyAlloc, NotifySend, NotifyRelease
<1> QED
  BY <1>1
  DEF confirm, hostop, opdata, history, defer, StatusInv, TokensApart,
      NoneStale, StatusFollows, OwnOrUnlikely

(* A confirmation that comes late is never reported as the status of a     *)
(* later operation, for any number of them and any width of the token,     *)
(* unless it was tested before that operation's token was stored.          *)
THEOREM StatusBelongs == Spec => []StatusIsItsOwn
<1>1. Init => StatusInv 
  BY DEF Init, StatusInv, TokensApart, NoneStale, StatusFollows,
         OwnOrUnlikely, Told, Armed
<1>2. StatusInv /\ TypeOK /\ [Next]_vars => StatusInv'
  <2> SUFFICES ASSUME StatusInv, TypeOK, [Next]_vars PROVE StatusInv' OBVIOUS
  <2>1. CASE UNCHANGED vars
    BY <2>1
    DEF vars, confirm, hostop, opdata, history, defer, StatusInv, TokensApart,
        NoneStale, StatusFollows, OwnOrUnlikely
  <2> QED BY <2>1, StatusHostOp, StatusAnswer, StatusNotify DEF Next
<1>3. StatusInv => StatusIsItsOwn 
  BY DEF StatusInv, StatusFollows, OwnOrUnlikely, StatusIsItsOwn
<1> QED BY <1>1, <1>2, <1>3, GattTypes, PTL DEF Spec
=============================================================================
