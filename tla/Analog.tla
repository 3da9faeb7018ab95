------------------------------- MODULE Analog -------------------------------
(***************************************************************************)
(* The battery's ADC (halo_adc.c) and the LED's PWM timer (halo_utimer.c). *)
(* A conversion is made in the write that starts it, of the value that the *)
(* host set last; the driver (external) starts one in the interrupt of the *)
(* one before.  The host reads the LED's registers one at a time.          *)
(***************************************************************************)
EXTENDS Naturals

CONSTANTS
  Batteries, (* values the host sets "battery-raw" to                      *)
  Channels,  (* the ADC's channels; 0 is one                               *)
  Duties     (* the PWM duties the firmware programs                       *)

ASSUME AnaAssumption == 0 \in Channels

VARIABLES
  adc,     (* ADC_START_SRC, INTERRUPT and its mask, SEQUENCER_CTRL, SEL   *)
  sample,  (* ADC_SAMPLE_REG, of each channel                              *)
  battery, (* battery_raw                                                  *)
  pwm,     (* COMPARE_A, DRIVER_EN, RUNNING                                *)
  poll     (* the driver: it waits for a conversion; what it started from  *)

anaVars == <<adc, sample, battery, pwm, poll>>

NoChannel == 15 (* ch >= ADC_NUM_CHANNELS                                *)
Full == 3698
SampleMask == 4096

AdcAtReset == [start |-> FALSE, done |-> FALSE, masked |-> TRUE,
               ch |-> 0, sel |-> 0]
PwmAtReset == [duty |-> 0, on |-> FALSE, running |-> FALSE]

AnaInit ==
  /\ adc = AdcAtReset /\ pwm = PwmAtReset
  /\ sample = [c \in Channels |-> 0]
  /\ battery = Full
  /\ poll = [wait |-> FALSE, was |-> 0]

AdcIrq == adc.done /\ ~adc.masked

(* halo_adc_convert; only CONTROL starts it, and only with START_SRC.      *)
WriteControl ==
  IF ~adc.start \/ adc.ch \notin Channels THEN UNCHANGED <<adc, sample>>
  ELSE /\ sample' = [sample EXCEPT ![adc.ch] = battery % SampleMask]
       /\ adc' = [adc EXCEPT !.sel = adc.ch, !.done = TRUE]

(* halo_adc_write, of the other registers.                                 *)
WriteAdc(r, v) == adc' = [adc EXCEPT ![r] = v] /\ UNCHANGED sample

ReadAdc(r) == IF r = "sample" THEN sample[adc.sel] ELSE adc[r]

SetBattery(raw) == battery' = raw /\ UNCHANGED <<adc, sample, pwm, poll>>

(* halo_utimer_write, halo_utimer_glb_write.                               *)
WritePwm(p) == pwm' = p /\ UNCHANGED <<adc, sample, battery, poll>>

(* The driver (external).                                                  *)
AdcSetUp ==
  /\ ~poll.wait
  /\ \/ WriteAdc("start", TRUE)
     \/ WriteAdc("masked", FALSE)
     \/ \E c \in Channels \cup {NoChannel} : WriteAdc("ch", c)
  /\ UNCHANGED <<battery, pwm, poll>>

AdcStart ==
  /\ ~poll.wait /\ adc.ch # NoChannel
  /\ ReadAdc("start") /\ ~ReadAdc("masked")
  /\ WriteControl
  /\ poll' = [wait |-> TRUE, was |-> battery % SampleMask]
  /\ UNCHANGED <<battery, pwm>>

AdcIsr ==
  /\ AdcIrq /\ WriteAdc("done", FALSE)
  /\ poll' = [poll EXCEPT !.wait = FALSE]
  /\ UNCHANGED <<battery, pwm>>

LedSet ==
  \/ \E d \in Duties : WritePwm([pwm EXCEPT !.duty = d])
  \/ \E on \in BOOLEAN : WritePwm([pwm EXCEPT !.on = on])
  \/ \E run \in BOOLEAN : WritePwm([pwm EXCEPT !.running = run])

AnaNext ==
  \/ AdcSetUp \/ AdcStart \/ AdcIsr \/ LedSet
  \/ \E raw \in Batteries : SetBattery(raw)

(* halo_adc_reset: the battery is the host's; halo_utimer_reset.           *)
AnaReset ==
  /\ adc' = AdcAtReset /\ pwm' = PwmAtReset
  /\ sample' = [c \in Channels |-> 0]
  /\ poll' = [wait |-> FALSE, was |-> 0]
  /\ UNCHANGED battery

AnaTypeOK ==
  /\ adc.ch \in Channels \cup {NoChannel} /\ adc.sel \in Channels
  /\ battery \in Batteries \cup {Full}
  /\ pwm.duty \in Duties \cup {0}

(* A conversion that was started is there, and announced, and it is of the *)
(* battery as it was then, whatever the host has set it to since.          *)
ConversionComes ==
  poll.wait => AdcIrq /\ ReadAdc("sample") = poll.was
=============================================================================
