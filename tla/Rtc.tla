-------------------------------- MODULE Rtc ---------------------------------
(***************************************************************************)
(* The DW APB RTC (halo_rtc.c), the idle timer of the firmware.  Its       *)
(* counter is not kept: it is computed from the virtual clock when it is   *)
(* read, and the match interrupt from a QEMU timer.  The two conversions   *)
(* truncate, at 32768 Hz = 64 / 1953125 ticks per nanosecond.  Times are   *)
(* nanoseconds since base_ns.                                              *)
(***************************************************************************)
EXTENDS Integers

CONSTANTS
  RtcMod,  (* 2^32: the counter's modulus                                  *)
  Waits,   (* by how many nanoseconds the clock advances                   *)
  MaxNanos (* bound: the clock past base_ns                                *)

ASSUME RtcAssumption ==
  RtcMod \in Nat \ {0} /\ Waits \subseteq Nat \ {0} /\ MaxNanos \in Nat

Off == -1 (* the timer is not pending                                      *)

VARIABLES
  rtc,      (* base_count, cmr, ccr (IEN and not MASK), raw_stat           *)
  nanos,    (* the virtual clock                                           *)
  deadline  (* when the timer expires, or Off                              *)

rtcVars == <<rtc, nanos, deadline>>

RtcTypeOK ==
  /\ rtc \in [base : 0..RtcMod - 1, cmr : 0..RtcMod - 1,
              armed : BOOLEAN, raw : BOOLEAN]
  /\ nanos \in 0..MaxNanos
  /\ deadline \in {Off} \cup Nat

RtcAtReset == [base |-> 0, cmr |-> 0, armed |-> FALSE, raw |-> FALSE]

RtcInit == rtc = RtcAtReset /\ nanos = 0 /\ deadline = Off

NanosToTicks(t) == (t * 64) \div 1953125
TicksToNanos(n) == (n * 1953125) \div 64

(* halo_rtc_count, at a time.                                              *)
CountAt(r, t) == (r.base + NanosToTicks(t)) % RtcMod

(* halo_rtc_rearm, of the registers as they are now.                       *)
Rearm(r, t) ==
  LET delta == (r.cmr - CountAt(r, t)) % RtcMod IN
  IF ~r.armed \/ r.raw THEN Off
  ELSE t + TicksToNanos(IF delta = 0 THEN 1 ELSE delta)

Programmed(r) == rtc' = r /\ deadline' = Rearm(r, nanos) /\ UNCHANGED nanos

WriteCmr(n) == Programmed([rtc EXCEPT !.cmr = n])

(* Mutant: a counter that is reloaded keeps the deadline of the old one.   *)
WriteClrKeeps(n) ==
  /\ rtc' = [rtc EXCEPT !.base = n] /\ nanos' = 0
  /\ deadline' = IF deadline = Off THEN Off ELSE deadline - nanos

WriteClr(n) ==
  /\ rtc' = [rtc EXCEPT !.base = n] /\ nanos' = 0
  /\ deadline' = Rearm(rtc', 0)

WriteCcr(on) == Programmed([rtc EXCEPT !.armed = on])

ReadEoi == Programmed([rtc EXCEPT !.raw = FALSE])

(* halo_rtc_match, as soon as the main loop comes to it.                   *)
Match ==
  /\ deadline # Off /\ deadline <= nanos
  /\ rtc' = [rtc EXCEPT !.raw = TRUE] /\ deadline' = Off
  /\ UNCHANGED nanos

Pass(d) ==
  /\ nanos + d <= MaxNanos
  /\ nanos' = nanos + d
  /\ UNCHANGED <<rtc, deadline>>

RtcReset == rtc' = RtcAtReset /\ nanos' = 0 /\ deadline' = Off

RtcNext ==
  \/ \E n \in 0..RtcMod - 1 : WriteCmr(n) \/ WriteClr(n)
  \/ \E on \in BOOLEAN : WriteCcr(on)
  \/ ReadEoi
  \/ Match
  \/ \E d \in Waits : Pass(d)

(* A sleeping firmware is woken: while the interrupt is armed and has not  *)
(* come, the timer is pending, and it expires within a tick of the moment  *)
(* at which the counter is CMR, whatever was written in which order.       *)
AlarmOnTime ==
  rtc.armed /\ ~rtc.raw =>
    /\ deadline # Off
    /\ (CountAt(rtc, deadline) - rtc.cmr) % RtcMod \in {RtcMod - 1, 0, 1}
=============================================================================
