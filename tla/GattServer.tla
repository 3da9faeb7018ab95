----------------------------- MODULE GattServer -----------------------------
(***************************************************************************)
(* The ROM stub's GATT server data path (stub_gatt.c) and its buffer pool  *)
(* (stub_cobuf.c), under a firmware with several threads.                  *)
(*                                                                         *)
(* The BLE task handles the host's writes and reads: it arms the pending   *)
(* confirmation, calls the firmware back, and reports the status or the    *)
(* data the firmware confirmed with.  The firmware usually confirms inside *)
(* the callback; another of its threads may do so late.  Meanwhile threads *)
(* send notifications from buffers of the same pool.  Only the pool is     *)
(* locked: the confirmation's fields are plain stores in g_stub.           *)
(***************************************************************************)
EXTENDS Integers, FiniteSets

CONSTANTS
  Threads,    (* the firmware's threads                                    *)
  BleTask,    (* the one that runs rwip_process                            *)
  Buffers,    (* the pool: STUB_NB_COBUF buffers                           *)
  Values,     (* attribute values                                          *)
  Statuses,   (* what the firmware confirms with                           *)
  NoError,    (* GAP_ERR_NO_ERROR                                          *)
  Unlikely,   (* ATT_ERR_UNLIKELY_ERR                                      *)
  TokenMod,   (* token_seq is a uint16_t: 2^16                             *)
  MaxLate,    (* the bound on confirmations that are still to come         *)
  Nothing

ASSUME GattAssumption ==
  /\ BleTask \in Threads
  /\ NoError \in Statuses
  /\ Unlikely \notin Statuses
  /\ TokenMod \in Nat /\ TokenMod > 1
  /\ MaxLate \in Nat
  /\ Nothing \notin Buffers \cup Values \cup Statuses \cup {Unlikely}

VARIABLES
  acq,        (* acq_cnt of each buffer                                    *)
  content,    (* what is stored in it                                      *)
  pending,    (* cfm_pending                                               *)
  token,      (* cfm_token                                                 *)
  status,     (* cfm_status                                                *)
  cfmBuf,     (* cfm_buf                                                   *)
  tokenSeq,   (* token_seq                                                 *)
  task,       (* where the BLE task is in a host write or read             *)
  op,         (* "write" or "read"                                         *)
  buf,        (* the BLE task's buffer: the data written, or the one read  *)
  reply,      (* the status it is about to report                          *)
  appBuf,     (* the buffer the firmware answers a read with               *)
  own,        (* history: the status this operation was confirmed with     *)
  value,      (* history: the data of this operation                       *)
  late,       (* the operations another thread has yet to confirm          *)
  tested,     (* those whose confirmation is past its test                 *)
  overtaken,  (* history: one was before this operation's token was stored *)
  tpc, tbuf,  (* where each thread is in sending a notification            *)
  tval        (* history: what it is to carry                              *)

pool    == <<acq, content>>
confirm == <<pending, token, status, cfmBuf, tokenSeq>>
opdata  == <<op, buf, reply, appBuf>>
history == <<own, value, overtaken>>
hostop  == <<task, opdata, history>>
defer   == <<late, tested>>
notify  == <<tpc, tbuf, tval>>
vars    == <<pool, confirm, hostop, defer, notify>>

Init ==
  /\ acq = [b \in Buffers |-> 0]
  /\ content = [b \in Buffers |-> Nothing]
  /\ pending = FALSE
  /\ token = 0
  /\ status = Nothing
  /\ cfmBuf = Nothing
  /\ tokenSeq = 0
  /\ task = "idle"
  /\ op = "write"
  /\ buf = Nothing
  /\ reply = Nothing
  /\ appBuf = Nothing
  /\ own = Nothing
  /\ value = Nothing
  /\ late = {}
  /\ tested = {}
  /\ overtaken = FALSE
  /\ tpc = [t \in Threads |-> "idle"]
  /\ tbuf = [t \in Threads |-> Nothing]
  /\ tval = [t \in Threads |-> Nothing]

-----------------------------------------------------------------------------
(* The pool.                                                               *)

(* Mutant: a buffer is taken that has been released once, not as often as  *)
(* it was acquired.                                                        *)
AllocAny(b, v) ==
  /\ acq[b] <= 1
  /\ acq' = [acq EXCEPT ![b] = 1]
  /\ content' = [content EXCEPT ![b] = v]

(* hstub_co_buf_alloc, whose caller then stores v in the buffer.           *)
Alloc(b, v) ==
  /\ acq[b] = 0
  /\ acq' = [acq EXCEPT ![b] = 1]
  /\ content' = [content EXCEPT ![b] = v]

PoolEmpty == \A b \in Buffers : acq[b] # 0

(* hstub_co_buf_release leaves the buffer's bytes where they are.          *)
Release(b) ==
  /\ acq' = [acq EXCEPT ![b] = @ - 1]
  /\ UNCHANGED content

-----------------------------------------------------------------------------
(* The BLE task: stub_gatt_host_write and stub_gatt_host_read.             *)

(***************************************************************************)
(* A token is used again after 2^16 operations: a confirmation that comes  *)
(* that late is left out.                                                  *)
(***************************************************************************)
Begin(kind) ==
  /\ task = "idle"
  /\ \A d \in late \cup tested : d.token # (tokenSeq + 1) % TokenMod
  /\ op' = kind
  /\ own' = Nothing
  /\ overtaken' = FALSE

HostWrite(b, v) ==
  /\ Begin("write")
  /\ Alloc(b, v)
  /\ buf' = b
  /\ value' = v
  /\ task' = "arm"
  /\ UNCHANGED <<confirm, reply, appBuf, defer, notify>>

(* No buffer: the write is answered without the firmware's seeing it.      *)
HostWriteNoBuffer ==
  /\ Begin("write")
  /\ PoolEmpty
  /\ reply' = Unlikely
  /\ task' = "report"
  /\ UNCHANGED <<pool, confirm, buf, appBuf, value, defer, notify>>

HostRead ==
  /\ Begin("read")
  /\ task' = "arm"
  /\ UNCHANGED <<pool, confirm, buf, reply, appBuf, value, defer, notify>>

ArmPending ==
  /\ task = "arm"
  /\ pending' = TRUE
  /\ overtaken' = (tested # {})
  /\ task' = "token"
  /\ UNCHANGED <<pool, token, status, cfmBuf, tokenSeq, opdata, own, value,
                 defer, notify>>

(* Mutant: a token wider than the uint16_t.                                *)
ArmTokenUnwrapped ==
  /\ task = "token"
  /\ tokenSeq' = tokenSeq + 1
  /\ token' = tokenSeq'
  /\ task' = "status"
  /\ UNCHANGED <<pool, pending, status, cfmBuf, opdata, history, defer,
                 notify>>

ArmToken ==
  /\ task = "token"
  /\ tokenSeq' = (tokenSeq + 1) % TokenMod
  /\ token' = tokenSeq'
  /\ task' = "status"
  /\ UNCHANGED <<pool, pending, status, cfmBuf, opdata, history, defer,
                 notify>>

ArmStatus ==
  /\ task = "status"
  /\ status' = Unlikely
  /\ cfmBuf' = IF op = "read" THEN Nothing ELSE cfmBuf
  /\ task' = "callback"
  /\ UNCHANGED <<pool, pending, token, tokenSeq, opdata, history, defer,
                 notify>>

(* The callback has returned.                                              *)
Collect ==
  /\ task = "collect"
  /\ reply' = status
  /\ pending' = FALSE
  /\ \/ op = "write" /\ task' = "release" /\ UNCHANGED <<buf, cfmBuf>>
     \/ /\ op = "read"
        /\ task' = "report"
        /\ buf' = IF status = NoError THEN cfmBuf ELSE Nothing
        /\ cfmBuf' = Nothing
  /\ UNCHANGED <<pool, token, status, tokenSeq, op, appBuf, history, defer,
                  notify>>

(* Mutant: a write that was refused keeps its buffer.                      *)
WriteReleaseAccepted ==
  /\ task = "release"
  /\ IF reply = Unlikely THEN UNCHANGED pool ELSE Release(buf)
  /\ buf' = Nothing
  /\ task' = "report"
  /\ UNCHANGED <<confirm, op, reply, appBuf, history, defer, notify>>

WriteRelease ==
  /\ task = "release"
  /\ Release(buf)
  /\ buf' = Nothing
  /\ task' = "report"
  /\ UNCHANGED <<confirm, op, reply, appBuf, history, defer, notify>>

(* EVT_WRITE_STATUS or EVT_READ_RSP, with the bytes buf has now.           *)
Report ==
  /\ task = "report"
  /\ buf' = Nothing
  /\ reply' = Nothing
  /\ task' = "idle"
  /\ UNCHANGED <<pool, confirm, op, appBuf, history, defer, notify>>

-----------------------------------------------------------------------------
(* The firmware's answers.                                                 *)

(* hstub_gatt_srv_att_val_set_cfm, or _att_read_get_cfm with a buffer, past *)
(* its test.                                                               *)
Store(kind, s, b) ==
  /\ pending' = FALSE
  /\ status' = s
  /\ cfmBuf' = IF kind = "read" THEN b ELSE cfmBuf

(* Both, within the callback.                                              *)
Confirm(s, b) ==
  IF pending /\ token = tokenSeq
  THEN Store(op, s, b)
  ELSE UNCHANGED <<pending, status, cfmBuf>>

InCallback == task = "callback" /\ tpc[BleTask] = "idle"

(* A write, or a read of an attribute without a value: a status only.      *)
AppConfirm(s) ==
  /\ InCallback
  /\ Confirm(s, Nothing)
  /\ own' = s
  /\ value' = IF op = "read" THEN Nothing ELSE value
  /\ task' = "collect"
  /\ UNCHANGED <<pool, token, tokenSeq, opdata, overtaken, defer, notify>>

(* on_att_read_get: a buffer is filled, handed over, and released.         *)
AppRead(b, v) ==
  /\ InCallback
  /\ op = "read"
  /\ Alloc(b, v)
  /\ appBuf' = b
  /\ value' = v
  /\ task' = "answer"
  /\ UNCHANGED <<confirm, op, buf, reply, own, overtaken, defer, notify>>

AppReadConfirm ==
  /\ task = "answer"
  /\ Confirm(NoError, appBuf)
  /\ own' = NoError
  /\ task' = "done"
  /\ UNCHANGED <<pool, token, tokenSeq, opdata, value, overtaken, defer,
                 notify>>

AppReadRelease ==
  /\ task = "done"
  /\ Release(appBuf)
  /\ appBuf' = Nothing
  /\ task' = "collect"
  /\ UNCHANGED <<confirm, op, buf, reply, history, defer, notify>>

(* The callback leaves the answer to another thread.                       *)
AppDefers ==
  /\ InCallback
  /\ Cardinality(late \cup tested) < MaxLate
  /\ late' = late \cup {[token |-> tokenSeq, op |-> op]}
  /\ task' = "collect"
  /\ UNCHANGED <<pool, confirm, opdata, history, tested, notify>>

(* Mutant: whoever confirms, confirms the operation under way.             *)
LateTestUnmatched(d) ==
  /\ late' = late \ {d}
  /\ tested' = IF pending THEN tested \cup {d} ELSE tested
  /\ overtaken' = (overtaken \/ (pending /\ task = "token"))
  /\ UNCHANGED <<pool, confirm, task, opdata, own, value, notify>>

(***************************************************************************)
(* Nothing keeps the fields from changing between its test and its stores. *)
(***************************************************************************)
LateTest(d) ==
  LET passes == pending /\ d.token = token IN
  /\ late' = late \ {d}
  /\ tested' = IF passes THEN tested \cup {d} ELSE tested
  /\ overtaken' = (overtaken \/ (passes /\ task = "token"))
  /\ UNCHANGED <<pool, confirm, task, opdata, own, value, notify>>

LateStore(d, s) ==
  /\ tested' = tested \ {d}
  /\ Store(d.op, s, Nothing)
  /\ own' = IF d.token = tokenSeq /\ task = "collect" THEN s ELSE own
  /\ UNCHANGED <<pool, token, tokenSeq, task, opdata, value, overtaken, late,
                 notify>>

-----------------------------------------------------------------------------
(* Notifications, of any thread; the BLE task's own from a callback.       *)

NotifyAlloc(t, b, v) ==
  /\ tpc[t] = "idle"
  /\ t = BleTask => task = "callback"
  /\ Alloc(b, v)
  /\ tpc' = [tpc EXCEPT ![t] = "filled"]
  /\ tbuf' = [tbuf EXCEPT ![t] = b]
  /\ tval' = [tval EXCEPT ![t] = v]
  /\ UNCHANGED <<confirm, hostop, defer>>

(* hstub_gatt_srv_event_send copies the buffer into the ring.              *)
NotifySend(t) ==
  /\ tpc[t] = "filled"
  /\ tpc' = [tpc EXCEPT ![t] = "sent"]
  /\ UNCHANGED <<pool, confirm, hostop, defer, tbuf, tval>>

NotifyRelease(t) ==
  /\ tpc[t] = "sent"
  /\ Release(tbuf[t])
  /\ tpc' = [tpc EXCEPT ![t] = "idle"]
  /\ tbuf' = [tbuf EXCEPT ![t] = Nothing]
  /\ tval' = [tval EXCEPT ![t] = Nothing]
  /\ UNCHANGED <<confirm, hostop, defer>>

-----------------------------------------------------------------------------
HostOp ==
  \/ \E b \in Buffers, v \in Values : HostWrite(b, v)
  \/ HostWriteNoBuffer \/ HostRead
  \/ ArmPending \/ ArmToken \/ ArmStatus
  \/ Collect \/ WriteRelease \/ Report

Answer ==
  \/ \E s \in Statuses : AppConfirm(s)
  \/ \E b \in Buffers, v \in Values : AppRead(b, v)
  \/ AppReadConfirm \/ AppReadRelease
  \/ AppDefers
  \/ \E d \in late : LateTest(d)
  \/ \E d \in tested, s \in Statuses : LateStore(d, s)

Notify(t) ==
  \/ \E b \in Buffers, v \in Values : NotifyAlloc(t, b, v)
  \/ NotifySend(t) \/ NotifyRelease(t)

Next == HostOp \/ Answer \/ \E t \in Threads : Notify(t)

Spec == Init /\ [][Next]_vars
-----------------------------------------------------------------------------
(* Properties.                                                             *)

TypeOK ==
  /\ acq \in [Buffers -> {0, 1}]
  /\ content \in [Buffers -> Values \cup {Nothing}]
  /\ pending \in BOOLEAN
  /\ token \in 0 .. TokenMod - 1
  /\ status \in Statuses \cup {Unlikely, Nothing}
  /\ cfmBuf \in Buffers \cup {Nothing}
  /\ tokenSeq \in 0 .. TokenMod - 1
  /\ task \in {"idle", "arm", "token", "status", "callback", "answer", "done",
               "collect", "release", "report"}
  /\ op \in {"write", "read"}
  /\ buf \in Buffers \cup {Nothing}
  /\ reply \in Statuses \cup {Unlikely, Nothing}
  /\ appBuf \in Buffers \cup {Nothing}
  /\ own \in Statuses \cup {Nothing}
  /\ value \in Values \cup {Nothing}
  /\ late \cup tested
       \subseteq [token : 0 .. TokenMod - 1, op : {"write", "read"}]
  /\ overtaken \in BOOLEAN
  /\ tpc \in [Threads -> {"idle", "filled", "sent"}]
  /\ tbuf \in [Threads -> Buffers \cup {Nothing}]
  /\ tval \in [Threads -> Values \cup {Nothing}]

(***************************************************************************)
(* Every acquired buffer has one holder, which will release it: the BLE    *)
(* task for a write, the firmware for its answer to a read, or a thread    *)
(* for its notification.  Ten buffers serve all of them: one that leaked,  *)
(* or had two holders, would in time stop the REPL or mix its output.      *)
(***************************************************************************)
WriteHolds(b)    == op = "write" /\ buf = b
NotifierHolds(b) == {t \in Threads : tbuf[t] = b}

PoolAccounts ==
  \A b \in Buffers :
    acq[b] = Cardinality(NotifierHolds(b))
             + (IF WriteHolds(b) THEN 1 ELSE 0) + (IF appBuf = b THEN 1 ELSE 0)

(***************************************************************************)
(* What a holder stored in its buffer is there until it is done with it:   *)
(* the firmware sees the data that was written, and a notification carries *)
(* what its thread put in.                                                 *)
(***************************************************************************)
BuffersIntact ==
  /\ \A b \in Buffers : WriteHolds(b) => content[b] = value
  /\ \A t \in Threads : tpc[t] # "idle" => content[tbuf[t]] = tval[t]

(***************************************************************************)
(* An operation reports the status it was confirmed with, or Unlikely if   *)
(* it was not in time: a late confirmation of an earlier one is not taken  *)
(* for its own.  The token does not help against a thread that was past    *)
(* its test when the token was stored: a firmware that confirms within its *)
(* callback, as the comment in stub_gatt_host_write says all do, has none. *)
(***************************************************************************)
StatusIsItsOwn ==
  task \in {"release", "report"} /\ ~overtaken =>
    reply = IF own = Nothing THEN Unlikely ELSE own

(***************************************************************************)
(* "cfm_buf ... held by the caller until its release": what a read reports *)
(* is what the firmware answered it with.                                  *)
(***************************************************************************)
ReadIsItsAnswer ==
  task = "report" /\ op = "read" /\ buf # Nothing => content[buf] = value
=============================================================================
