------------------------------- MODULE Board -------------------------------
(***************************************************************************)
(* The machine (halo.c) of its devices.  Between resets the parts do not   *)
(* meet, but for the accelerometer's interrupt, which is a GPIO pin, and   *)
(* the reset requests of the watchdog, the Enclave and the host; so a      *)
(* behaviour moves one of them, chosen at the beginning, and the machine's *)
(* reset, at any moment of it, resets them all.                            *)
(***************************************************************************)
EXTENDS AvBridge, Watchdog, Rtc, I2cBus, Speaker, Microphone, Camera, Display,
        Analog

CONSTANT Parts (* those that may move                                      *)

VARIABLE part  (* the one that does                                        *)

boardVars == <<powerVars, rtcVars, i2cVars, spkVars, micVars, camVars,
               dispVars, anaVars, avVars, part>>

Init ==
  /\ part \in Parts
  /\ PowerInit /\ RtcInit /\ GpioInit /\ I2cInit /\ SpkInit /\ MicInit
  /\ CamInit /\ DispInit /\ AnaInit /\ AvInit
  /\ part # "bus" => "imu" \in DOMAIN dev (* it lowers INT1 in a reset    *)

(* What each leaves alone.                                                 *)
PowerStays == UNCHANGED powerVars
BusStays == UNCHANGED i2cVars
MediaStay == UNCHANGED <<spkVars, micVars, camVars, dispVars>>
OthersStay == UNCHANGED <<rtcVars, anaVars, avVars>>

PowerMoves == part = "power" /\ PowerNext
              /\ BusStays /\ MediaStay /\ OthersStay

BusMoves ==
  /\ \/ part = "bus" /\ I2cNext
     \/ /\ \E p \in Pins : PinNext(p) /\ (part = "bus" => p = IntPin)
        /\ part \in {"bus", "pins"}
        /\ UNCHANGED <<dw, bus, dev, drv, want, due, hung>>
  /\ PowerStays /\ MediaStay /\ OthersStay

MediaMove ==
  /\ \/ part = "speaker" /\ SpkNext /\ UNCHANGED <<micVars, camVars, dispVars>>
     \/ part = "microphone" /\ MicNext
        /\ UNCHANGED <<spkVars, camVars, dispVars>>
     \/ part = "camera" /\ CamNext /\ UNCHANGED <<spkVars, micVars, dispVars>>
     \/ part = "display" /\ DispNext /\ UNCHANGED <<spkVars, micVars, camVars>>
  /\ PowerStays /\ BusStays /\ OthersStay

OthersMove ==
  /\ \/ part = "rtc" /\ RtcNext /\ UNCHANGED <<anaVars, avVars>>
     \/ part = "analog" /\ AnaNext /\ UNCHANGED <<rtcVars, avVars>>
     \/ part = "phone" /\ AvPhoneNext /\ UNCHANGED <<rtcVars, anaVars, viewVars>>
     \/ part = "page" /\ AvPageNext
        /\ UNCHANGED <<rtcVars, anaVars, phoneVars, soundVars>>
  /\ PowerStays /\ BusStays /\ MediaStay

HostAsks == HostReset /\ BusStays /\ MediaStay /\ OthersStay
            /\ part \notin {"phone", "page"}

(* qemu_system_reset: every device's, the memories' and the CPU's.  The    *)
(* bridge is another process.                                              *)
MachineReset ==
  /\ PowerReset
  /\ RtcReset /\ GpioReset({IntPin}) /\ I2cReset
  /\ SpkReset /\ MicReset /\ CamReset /\ DispReset /\ AnaReset
  /\ UNCHANGED avVars

Next ==
  /\ \/ PowerMoves \/ BusMoves \/ MediaMove \/ OthersMove
     \/ HostAsks \/ MachineReset
  /\ UNCHANGED part

Spec == Init /\ [][Next]_boardVars

-----------------------------------------------------------------------------
TypeOK ==
  /\ part \in Parts
  /\ PowerTypeOK /\ RtcTypeOK /\ GpioTypeOK /\ I2cTypeOK /\ SpkTypeOK
  /\ MicTypeOK /\ CamTypeOK /\ DispTypeOK /\ AnaTypeOK /\ AvTypeOK

(* No driver waits for what will not come: an answer of the Enclave, a     *)
(* conversion, a frame of the camera, the moment to show its own, or room  *)
(* for the next samples; and none is given before the driver can take it.  *)
DriversAreAnswered ==
  /\ RequestIsAnswered /\ ConversionComes /\ FrameComes /\ CommitComes
  /\ SpeakerServed
=============================================================================
