-------------------------------- MODULE Gpio --------------------------------
(***************************************************************************)
(* The DW GPIO banks (halo_gpio.c), pin by pin: every register has one bit *)
(* for each pin, and the pins do not meet.  The world drives an input at   *)
(* any time: the host a button, a sensor its interrupt line.  The driver   *)
(* (external) acknowledges an interrupt and then reads the pin.            *)
(***************************************************************************)
EXTENDS Naturals

CONSTANTS
  Pins,     (* the pins                                                    *)
  InDefault,(* in_default: the power-on level of each                      *)
  HostPins, (* those the host drives: halo_set_button, halo_set_charger    *)
  FwRegs    (* the registers that the firmware writes, of each pin         *)

PinRegs == {"dr", "ddr", "inten", "intmask", "edge", "polarity", "bothedge"}

ASSUME GpioAssumption ==
  /\ InDefault \in [Pins -> BOOLEAN]
  /\ FwRegs \in [Pins -> SUBSET PinRegs]

VARIABLES
  gpio,  (* struct HaloDwGpioState, of each pin                            *)
  drive, (* the level the world holds each input at                        *)
  seen   (* {the level the driver has read since the last acknowledgement} *)

gpioVars == <<gpio, drive, seen>>

Unknown == {}

PinBits == PinRegs \cup {"ext", "raw"}
PinAtReset(level) == [b \in PinBits |-> b = "ext" /\ level]

GpioInit ==
  /\ gpio = [p \in Pins |-> PinAtReset(InDefault[p])]
  /\ drive = InDefault
  /\ seen = [p \in Pins |-> Unknown]

(* halo_dwgpio_ext: the effective level.                                   *)
Level(g) == IF g.ddr THEN g.dr ELSE g.ext

(* Mutant: a pin with INT_BOTHEDGE alone is a level pin.                   *)
EdgeModeTypeOnly(g) == g.edge

EdgeMode(g) == g.edge \/ g.bothedge

(* halo_dwgpio_update: a level pin tracks its input, an edge stays.        *)
Updated(g) ==
  [g EXCEPT !.raw = g.inten /\ IF EdgeMode(g) THEN g.raw
                               ELSE g.polarity = Level(g)]

GpioIrq(p) == gpio[p].raw /\ gpio[p].inten /\ ~gpio[p].intmask

(* halo_dwgpio_input_set.                                                  *)
WithInput(g, level) ==
  LET h == [g EXCEPT !.ext = level]
      edge == /\ Level(g) # Level(h)
              /\ g.bothedge \/ g.polarity = Level(h)
  IN Updated([h EXCEPT !.raw = @ \/ (edge /\ EdgeMode(g) /\ g.inten)])

InputSet(p, level) ==
  /\ gpio' = [gpio EXCEPT ![p] = WithInput(@, level)]
  /\ drive' = [drive EXCEPT ![p] = level]

(* halo_button_drive, halo_set_charger, the B key.                         *)
HostDrives(p, level) == InputSet(p, level) /\ UNCHANGED seen

(* halo_dwgpio_write, of a register that holds its value.                  *)
WriteReg(p, r, v) ==
  /\ gpio' = [gpio EXCEPT ![p] = Updated([@ EXCEPT ![r] = v])]
  /\ seen' = [seen EXCEPT ![p] = Unknown]
  /\ UNCHANGED drive

(* PORTA_EOI.                                                              *)
Eoi(p) ==
  /\ GpioIrq(p)
  /\ gpio' = [gpio EXCEPT ![p] = Updated([@ EXCEPT !.raw = FALSE])]
  /\ seen' = [seen EXCEPT ![p] = Unknown]
  /\ UNCHANGED drive

(* EXT_PORTA.                                                              *)
ReadExt(p) ==
  /\ seen' = [seen EXCEPT ![p] = {Level(gpio[p])}]
  /\ UNCHANGED <<gpio, drive>>

(* halo_dwgpio_reset: the inputs are the world's and stay, but for those  *)
(* that a sensor lowers in its own reset.                                  *)
GpioReset(lowered) ==
  LET level == [p \in Pins |-> drive[p] /\ p \notin lowered] IN
  /\ gpio' = [p \in Pins |->
                Updated(PinAtReset(gpio[p].ext /\ p \notin lowered))]
  /\ drive' = level
  /\ seen' = [p \in Pins |-> Unknown]

PinNext(p) ==
  \/ p \in HostPins /\ \E level \in BOOLEAN : HostDrives(p, level)
  \/ \E r \in FwRegs[p], v \in BOOLEAN : WriteReg(p, r, v)
  \/ Eoi(p)
  \/ ReadExt(p)

GpioNext == \E p \in Pins : PinNext(p)

GpioTypeOK ==
  /\ gpio \in [Pins -> [PinBits -> BOOLEAN]]
  /\ drive \in [Pins -> BOOLEAN]
  /\ seen \in [Pins -> SUBSET BOOLEAN]

(* An input is what the world holds it at, through every reset; and on a   *)
(* pin with both edges enabled the driver's last reading is the level, or  *)
(* an interrupt is latched that makes it read again: no press and no       *)
(* release is missed, whatever falls between acknowledgement and reading.  *)
InputsAreSeen == \A p \in Pins :
  /\ gpio[p].ext = drive[p]
  /\ gpio[p].bothedge /\ gpio[p].inten /\ seen[p] # Unknown
       => seen[p] = {Level(gpio[p])} \/ gpio[p].raw
=============================================================================
