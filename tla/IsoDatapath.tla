---------------------------- MODULE IsoDatapath -----------------------------
(***************************************************************************)
(* The isochronous data path of the ROM stub (stub_iso.c).  The firmware   *)
(* posts SDU buffers on its data paths; an SDU of the host is copied into  *)
(* the posted output buffer by the BLE task, an input buffer is sent by    *)
(* the thread that posts it.  Nothing is locked.                           *)
(*                                                                         *)
(* The firmware keeps the contract of gapi_isooshm.h: it posts on a bound  *)
(* path, the next buffer when the callback has given the last one back,    *)
(* and unbinds, in a callback of the BLE task, a path on which none of its *)
(* threads is posting.                                                     *)
(***************************************************************************)
EXTENDS Integers, FiniteSets

CONSTANTS
  Outputs,    (* the paths to the firmware (air -> speaker)                *)
  Inputs,     (* the paths from it (microphone -> air)                     *)
  NbSlots,    (* STUB_MAX_DP                                               *)
  Bufs,       (* SDU buffers                                               *)
  MaxTicks,   (* the bound: from this time on no SDU is exchanged          *)
  None

ASSUME IsoAssumption ==
  /\ Outputs \cap Inputs = {}
  /\ NbSlots \in Nat \ {0} /\ MaxTicks \in Nat
  /\ None \notin Outputs \cup Inputs \cup Bufs

VARIABLES
  slot,       (* g_iso.dp                                                  *)
  state,      (* dp->state: "raw" before dp_init; nothing tells BOUND and  *)
              (* TRANSFER_PENDING apart                                    *)
  dpBuf,      (* dp->buf                                                   *)
  time,       (* g_iso.time_us, in SDU intervals                           *)
  host,       (* the BLE task in stub_iso_host_sdu: where, path and buffer *)
  post,       (* where the poster of each path is in dp_set_buf, with what *)
  seen,       (* the time each of them has loaded, to store it advanced    *)
  free        (* history: the buffers the firmware owns                    *)

isoVars == <<slot, state, dpBuf, time, host, post, seen, free>>

Dps     == Outputs \cup Inputs
BleTask == None     (* as an actor in seen, where threads are their paths  *)
Rest    == [pc |-> "idle", dp |-> None, buf |-> None]
NoPost  == [pc |-> "idle", buf |-> None]

IsoInit ==
  /\ slot = [i \in 1 .. NbSlots |-> None]
  /\ state = [d \in Dps |-> "raw"]
  /\ dpBuf = [d \in Dps |-> None]
  /\ time = 0
  /\ host = Rest
  /\ post = [d \in Dps |-> NoPost]
  /\ seen = [x \in Dps \cup {BleTask} |-> 0]
  /\ free = Bufs

-----------------------------------------------------------------------------
(* The BLE task's callbacks open and shut paths.                           *)

(* iso_track: the first empty slot, if there is one.                       *)
Track(d) ==
  LET empty == {i \in DOMAIN slot : slot[i] = None} IN
  \/ /\ empty = {} \/ \E i \in DOMAIN slot : slot[i] = d
     /\ UNCHANGED slot
  \/ /\ \A i \in DOMAIN slot : slot[i] # d
     /\ \E i \in empty :
          /\ \A j \in empty : i <= j
          /\ slot' = [slot EXCEPT ![i] = d]

AtRest(d) == host = Rest /\ post[d] = NoPost

DpInit(d) ==
  /\ AtRest(d)
  /\ state[d] \in {"raw", "initialized"}
  /\ state' = [state EXCEPT ![d] = "initialized"]
  /\ dpBuf' = [dpBuf EXCEPT ![d] = None]
  /\ Track(d)
  /\ UNCHANGED <<time, host, post, seen, free>>

(* Mutant: a path is tracked from dp_init on, and not again when bound.    *)
DpBindUntracked(d) ==
  /\ AtRest(d)
  /\ state[d] = "initialized"
  /\ state' = [state EXCEPT ![d] = "bound"]
  /\ UNCHANGED <<slot, dpBuf, time, host, post, seen, free>>

DpBind(d) ==
  /\ AtRest(d)
  /\ state[d] = "initialized"
  /\ state' = [state EXCEPT ![d] = "bound"]
  /\ Track(d)
  /\ UNCHANGED <<dpBuf, time, host, post, seen, free>>

(* Mutant: what is handed back is not looked at.                           *)
DpUnbindHandsNull(d) ==
  /\ AtRest(d)
  /\ state[d] = "bound"
  /\ free' = free \cup {dpBuf[d]}
  /\ dpBuf' = [dpBuf EXCEPT ![d] = None]
  /\ state' = [state EXCEPT ![d] = "initialized"]
  /\ slot' = [i \in DOMAIN slot |-> IF slot[i] = d THEN None ELSE slot[i]]
  /\ UNCHANGED <<time, host, post, seen>>

(* iso_forget, and a buffer still posted is handed back.                   *)
DpUnbind(d) ==
  /\ AtRest(d)
  /\ state[d] = "bound"
  /\ free' = free \cup ({dpBuf[d]} \ {None})
  /\ dpBuf' = [dpBuf EXCEPT ![d] = None]
  /\ state' = [state EXCEPT ![d] = "initialized"]
  /\ slot' = [i \in DOMAIN slot |-> IF slot[i] = d THEN None ELSE slot[i]]
  /\ UNCHANGED <<time, host, post, seen>>

-----------------------------------------------------------------------------
(* hstub_gapi_isooshm_dp_set_buf.                                          *)

Lent(d) == dpBuf[d] # None \/ post[d] # NoPost \/ host.dp = d

(* From a thread, or from the callback of d's last buffer: that is called  *)
(* last in stub_iso_host_sdu and in dp_set_buf, and is over when it posts. *)
(* An output buffer is parked until the host injects an SDU.               *)
SetBuf(d, b) ==
  /\ state[d] = "bound"
  /\ b \in free
  /\ ~Lent(d)
  /\ d \in Inputs => time < MaxTicks
  /\ free' = free \ {b}
  /\ dpBuf' = [dpBuf EXCEPT ![d] = b]
  /\ post' = IF d \in Inputs
             THEN [post EXCEPT ![d] = [pc |-> "send", buf |-> b]]
             ELSE post
  /\ UNCHANGED <<slot, state, time, host, seen>>

Goto(d, pc) == post' = [post EXCEPT ![d].pc = pc]

(* EVT_ISO_SDU.                                                            *)
SendSdu(d) ==
  /\ post[d].pc = "send"
  /\ Goto(d, "tick")
  /\ UNCHANGED <<slot, state, dpBuf, time, host, seen, free>>

(* iso_tick is a load and a store, of x's thread.                          *)
Load(x)  == seen' = [seen EXCEPT ![x] = time]
Store(x) == time' = seen[x] + 1 /\ UNCHANGED seen

TickLoad(d) ==
  /\ post[d].pc = "tick"
  /\ Load(d)
  /\ Goto(d, "store")
  /\ UNCHANGED <<slot, state, dpBuf, time, host, free>>

TickStore(d) ==
  /\ post[d].pc = "store"
  /\ Store(d)
  /\ Goto(d, "sent")
  /\ UNCHANGED <<slot, state, dpBuf, host, free>>

(* The buffer is given back by the callback.                               *)
Transmitted(d) ==
  /\ post[d].pc = "sent"
  /\ dpBuf' = [dpBuf EXCEPT ![d] = None]
  /\ free' = free \cup {post[d].buf}
  /\ post' = [post EXCEPT ![d] = NoPost]
  /\ UNCHANGED <<slot, state, time, host, seen>>

-----------------------------------------------------------------------------
(* stub_iso_host_sdu, on the BLE task.                                     *)

Bound(i) == slot[i] \in Outputs /\ state[slot[i]] = "bound"

(* iso_find: the first slot with a bound output path.                      *)
Found(i) == Bound(i) /\ \A j \in DOMAIN slot : Bound(j) => i <= j

(* Without a posted buffer the SDU is dropped: nothing changes.            *)
HostFind ==
  /\ host = Rest /\ time < MaxTicks
  /\ \E i \in DOMAIN slot :
       /\ Found(i)
       /\ dpBuf[slot[i]] # None
       /\ host' = [pc |-> "take", dp |-> slot[i], buf |-> None]
  /\ UNCHANGED <<slot, state, dpBuf, time, post, seen, free>>

HostTake ==
  /\ host.pc = "take"
  /\ host' = [pc |-> "store", dp |-> host.dp, buf |-> dpBuf[host.dp]]
  /\ Load(BleTask)
  /\ UNCHANGED <<slot, state, dpBuf, time, post, free>>

HostTick ==
  /\ host.pc = "store"
  /\ Store(BleTask)
  /\ host' = [host EXCEPT !.pc = "fill"]
  /\ UNCHANGED <<slot, state, dpBuf, post, free>>

(* Mutant: the filled buffer stays posted.                                 *)
HostFillKept ==
  /\ host.pc = "fill"
  /\ host' = [host EXCEPT !.pc = "callback"]
  /\ UNCHANGED <<slot, state, dpBuf, time, post, seen, free>>

HostFill ==
  /\ host.pc = "fill"
  /\ dpBuf' = [dpBuf EXCEPT ![host.dp] = None]
  /\ host' = [host EXCEPT !.pc = "callback"]
  /\ UNCHANGED <<slot, state, time, post, seen, free>>

HostCallback ==
  /\ host.pc = "callback"
  /\ free' = free \cup {host.buf}
  /\ host' = Rest
  /\ UNCHANGED <<slot, state, dpBuf, time, post, seen>>

IsoNext ==
  \/ \E d \in Dps :
       \/ DpInit(d) \/ DpBind(d) \/ DpUnbind(d)
       \/ \E b \in Bufs : SetBuf(d, b)
       \/ SendSdu(d) \/ TickLoad(d) \/ TickStore(d)
       \/ Transmitted(d)
  \/ HostFind \/ HostTake \/ HostTick \/ HostFill \/ HostCallback
-----------------------------------------------------------------------------
(* Properties.                                                             *)

IsoTypeOK ==
  /\ slot \in [1 .. NbSlots -> Dps \cup {None}]
  /\ state \in [Dps -> {"raw", "initialized", "bound"}]
  /\ dpBuf \in [Dps -> Bufs \cup {None}]
  /\ time \in Nat
  /\ host \in [pc : {"idle", "take", "store", "fill", "callback"},
               dp : Outputs \cup {None}, buf : Bufs \cup {None}]
  /\ post \in [Dps -> [pc : {"idle", "send", "tick", "store", "sent"},
                     buf : Bufs \cup {None}]]
  /\ seen \in [Dps \cup {BleTask} -> Nat]
  /\ free \subseteq Bufs

(***************************************************************************)
(* A buffer is the firmware's or the stub's, on one path, never both and   *)
(* never neither: one that the stub still had a pointer to after the       *)
(* callback would be overwritten while it is played, one that was on two   *)
(* paths sent while it is filled, and a lost one ends the stream when the  *)
(* firmware has used up its pool.                                          *)
(***************************************************************************)
HeldBy(b) == {d \in Dps : dpBuf[d] = b \/ post[d].buf = b
                          \/ (host.dp = d /\ host.buf = b)}

BufferHasOneOwner ==
  \A b \in Bufs :
    Cardinality(HeldBy(b)) = IF b \in free THEN 0 ELSE 1

(***************************************************************************)
(* A path with a buffer posted for the host's SDUs is in one slot, through *)
(* every order of inits, binds and unbinds of several paths, and while no  *)
(* other output path is open it is the one that iso_find returns.  Of      *)
(* several that are open, the first in the slots gets every SDU, and what  *)
(* is posted on the others waits: the firmware opens one at a time.        *)
(***************************************************************************)
OnlyOpen(d) == \A e \in Outputs \ {d} : state[e] # "bound"

PostedIsReachable ==
  \A d \in Outputs : dpBuf[d] # None =>
    \E i \in DOMAIN slot :
      /\ slot[i] = d
      /\ \A j \in DOMAIN slot \ {i} : slot[j] # d
      /\ OnlyOpen(d) => Found(i)

(***************************************************************************)
(* "A counter that advances one SDU interval per exchanged SDU", read by   *)
(* the firmware as the controller's time: it never goes back.              *)
(***************************************************************************)
ClockNeverGoesBack == [][time' >= time]_isoVars
=============================================================================
