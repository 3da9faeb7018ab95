------------------------------- MODULE I2cBus -------------------------------
(***************************************************************************)
(* A DesignWare I2C controller (designware_i2c.c with halo-emu's patches)  *)
(* and the register files behind it: the BMA580 accelerometer, whose INT1  *)
(* drives a GPIO pin, the QMC6308 magnetometer, the bank-switched PAG7982  *)
(* camera sensor and the TPS65132, of plain registers.  Commands take      *)
(* effect as they are written, one byte each; the driver (external) marks  *)
(* the first byte of a message RESTART and the last of a transfer STOP,    *)
(* and may give up at any byte.  The bus core is QEMU's: a start on a bus  *)
(* that is busy reaches whoever is there, whatever address it is for.  A   *)
(* byte is a register's address or its value.                              *)
(***************************************************************************)
EXTENDS Gpio, Sequences

CONSTANTS
  Buses,     (* the sets of targets a bus is populated with                *)
  Absent,    (* an address at which no target answers                      *)
  FifoSize,  (* DESIGNWARE_I2C_RX_FIFO_SIZE                                *)
  RxTls,     (* the thresholds the driver writes                           *)
  FwWrites,  (* <<register, value>> the driver writes                      *)
  FwReads,   (* registers from which the driver reads two bytes            *)
  Nobody     (* the bus is free                                            *)

(* No target is at Absent, and a FIFO has room for the two bytes of a      *)
(* read.                                                                   *)
ASSUME BusAssumption ==
  /\ Absent # Nobody /\ \A T \in Buses : Absent \notin T /\ Nobody \notin T
  /\ FifoSize \in Nat /\ FifoSize >= 2 /\ RxTls \subseteq Nat

Bytes == 0..3
IntPin == "int1"

(* The registers of the four, by what the models do with them.             *)
ChipId == 0     (* CHIP_ID, PART_ID, of which the PAG7982 has a second     *)
IntStatus == 1  (* INT_STATUS, write one to clear; of the QMC6308, STATUS  *)
Sample == 2     (* ACC_DATA, DATA: the injected sample                     *)
BankSel == 3    (* of the PAG7982; plain in the others                     *)
Drdy == 1       (* QMC_STATUS_DRDY                                         *)
Id == 2         (* what the identity reads                                 *)

Ids(t) == CASE t = "cam" -> {ChipId, ChipId + 1}
            [] t = "pmic" -> {}
            [] OTHER -> {ChipId}

VARIABLES
  dw,      (* the controller: enable, status, RX FIFO, raw interrupts      *)
  bus,     (* the target whose transfer has been started                   *)
  dev,     (* the targets: register pointer, address received, contents    *)
  drv,     (* the driver: its operation and where it is                    *)
  want,    (* history: the contents, had each write been atomic            *)
  due,     (* history: the bytes of the driver's read                      *)
  hung     (* history: no STOP has come since a transfer was broken off    *)

i2cVars == <<dw, bus, dev, drv, want, due, hung, gpioVars>>

DwAtReset == [en |-> FALSE, status |-> "idle", fifo |-> <<>>, tl |-> 0,
              full |-> FALSE, over |-> FALSE, abrt |-> FALSE, stop |-> FALSE]

Contents(t, sample) ==
  [reg |-> [b \in 0..1, a \in Bytes |->
              IF b = 0 /\ a \in Ids(t) THEN Id ELSE 0],
   bank |-> 0, pending |-> {}, sample |-> sample]

DevAtReset(t, sample) ==
  [ptr |-> 0, got |-> FALSE, mem |-> Contents(t, sample)]

I2cInit ==
  /\ dw = DwAtReset /\ bus = Nobody
  /\ \E T \in Buses : dev = [t \in T |-> DevAtReset(t, 0)]
  /\ drv = [at |-> "idle"]
  /\ want = [t \in DOMAIN dev |-> Contents(t, 0)]
  /\ due = <<>> /\ hung = FALSE

-----------------------------------------------------------------------------
(* The register files.                                                     *)
BankOf(m) == IF m.bank < 2 THEN m.bank ELSE 1

Bits(byte) == {w \in {1, 2} : (byte \div w) % 2 = 1}
Byte(bits) == (IF 1 \in bits THEN 1 ELSE 0) + (IF 2 \in bits THEN 2 ELSE 0)

Write(t, m, a, v) ==
  CASE t = "imu" /\ a = IntStatus -> [m EXCEPT !.pending = @ \ Bits(v)]
    [] t = "cam" /\ a = BankSel   -> [m EXCEPT !.bank = v]
    [] t = "cam" /\ a \in Ids(t) /\ m.bank = 0 -> m
    [] OTHER -> [m EXCEPT !.reg[<<IF t = "cam" THEN BankOf(m) ELSE 0, a>>] = v]

Read(t, m, a) ==
  CASE t = "imu" /\ a = IntStatus -> Byte(m.pending)
    [] t \in {"imu", "magn"} /\ a = Sample -> m.sample
    [] t = "magn" /\ a = IntStatus -> Byte(Bits(m.reg[0, a]) \cup {Drdy})
    [] t = "cam" /\ a = BankSel -> m.bank
    [] OTHER -> m.reg[IF t = "cam" THEN BankOf(m) ELSE 0, a]

Next1(a) == (a + 1) % 4

(* halo_bma580_send, halo_qmc6308_send, halo_pag7982_send and, with one    *)
(* byte of address, halo_i2c_regfile_send.                                 *)
Taken(t, d, byte) ==
  IF ~d.got THEN [d EXCEPT !.ptr = byte, !.got = TRUE]
  ELSE [d EXCEPT !.mem = Write(t, @, d.ptr, byte), !.ptr = Next1(@)]

-----------------------------------------------------------------------------
(* The controller.  s is [dw, bus, dev]; each step of a command makes the  *)
(* next of it.                                                             *)
ResetToIdle(c) == [c EXCEPT !.status = "idle", !.fifo = <<>>, !.full = FALSE,
                            !.over = FALSE]

Aborted(s) == [s EXCEPT !.dw = [ResetToIdle(@) EXCEPT !.abrt = TRUE]]

(* i2c_start_transfer (external) and what the controller makes of it.      *)
Started(s, tar, recv) ==
  LET t == IF s.bus # Nobody THEN s.bus
           ELSE IF tar \in DOMAIN s.dev THEN tar ELSE Nobody
  IN IF t = Nobody THEN Aborted(s)
     ELSE [dw |-> [s.dw EXCEPT !.status = IF recv THEN "receiving"
                                                  ELSE "sending"],
           bus |-> t,
           dev |-> [s.dev EXCEPT ![t].got = recv /\ @]]

Addressed(s, tar, recv) ==
  IF ~s.dw.abrt /\ s.dw.status = "address" THEN Started(s, tar, recv) ELSE s

Sent(s, byte) ==
  IF s.bus = Nobody THEN Aborted(s)
  ELSE [s EXCEPT !.dev[s.bus] = Taken(s.bus, @, byte)]

Received(s) ==
  LET d == s.dev[s.bus]
      fifo == Append(s.dw.fifo, Read(s.bus, d.mem, d.ptr))
  IN IF Len(s.dw.fifo) = FifoSize THEN [s EXCEPT !.dw.over = TRUE]
     ELSE [s EXCEPT !.dw.fifo = fifo,
                    !.dw.full = @ \/ Len(fifo) > s.dw.tl,
                    !.dev[s.bus].ptr = Next1(@)]

Moved(s, cmd) == IF s.dw.abrt THEN s
                 ELSE IF cmd.recv THEN Received(s) ELSE Sent(s, cmd.byte)

Stopped(s, cmd) == IF s.dw.abrt \/ ~cmd.stop THEN s
                   ELSE [s EXCEPT !.dw.stop = TRUE, !.bus = Nobody]

(* Mutant: upstream's order, the repeated start after the byte.            *)
CommandRestartLast(s, tar, cmd) ==
  LET b == Moved(Addressed(s, tar, cmd.recv), cmd)
      c == IF cmd.restart /\ ~b.dw.abrt THEN Started(b, tar, cmd.recv) ELSE b
  IN Stopped(c, cmd)

Command(s, tar, cmd) ==
  LET a == IF cmd.restart THEN Started(s, tar, cmd.recv) ELSE s
  IN Stopped(Moved(Addressed(a, tar, cmd.recv), cmd), cmd)

Apply(s) ==
  /\ dw' = s.dw /\ bus' = s.bus /\ dev' = s.dev
  /\ IF "imu" \in DOMAIN dev
     THEN InputSet(IntPin, s.dev["imu"].mem.pending # {})
     ELSE UNCHANGED <<gpio, drive>>
  /\ UNCHANGED seen

(* dw_ic_data_cmd_reg_post_write.                                          *)
DataCmd(tar, cmd) ==
  LET s == [dw |-> dw, bus |-> bus, dev |-> dev] IN
  Apply(IF ~dw.en \/ dw.status = "idle" \/ dw.abrt THEN s
        ELSE Command(s, tar, cmd))

(* dw_ic_enable_reg_post_write, without and with ABORT.                    *)
Enable(on) ==
  /\ dw' = IF on THEN [dw EXCEPT !.en = TRUE, !.status = "address"]
                 ELSE [ResetToIdle(dw) EXCEPT !.en = FALSE]
  /\ UNCHANGED <<bus, dev, gpioVars>>

Abort ==
  /\ dw' = [ResetToIdle(dw) EXCEPT !.abrt = TRUE]
  /\ UNCHANGED <<bus, dev, gpioVars>>

(* Mutant: the threshold is taken as it is written.                        *)
WriteRxTlAsIs(n) ==
  /\ dw' = [dw EXCEPT !.tl = n, !.full = dw.en /\ Len(dw.fifo) > n]
  /\ UNCHANGED <<bus, dev, gpioVars>>

(* dw_ic_rx_tl_reg_pre_write and post_write.                               *)
WriteRxTl(n) ==
  LET tl == IF n > FifoSize - 1 THEN FifoSize - 1 ELSE n IN
  /\ dw' = [dw EXCEPT !.tl = tl, !.full = dw.en /\ Len(dw.fifo) > tl]
  /\ UNCHANGED <<bus, dev, gpioVars>>

(* CLR_INTR: all but TX_EMPTY and RX_FULL.                                 *)
ClrIntr == [dw EXCEPT !.over = FALSE, !.abrt = FALSE, !.stop = FALSE]

-----------------------------------------------------------------------------
(* The driver (external), in a transfer or not.  For the histories, goes   *)
(* is the target that this one reaches: the one it names, or whoever holds *)
(* the bus.                                                                *)
Sending == {"write", "read", "read2"}  (* after the start, before a STOP    *)

Begin(op, t, a, v) ==
  /\ drv.at = "idle"
  /\ Enable(TRUE)
  /\ drv' = [at |-> "address", op |-> op, t |-> t, a |-> a, v |-> v,
             goes |-> IF bus = Nobody THEN t ELSE bus]
  /\ due' = <<>> /\ UNCHANGED <<want, hung>>

SendAddress ==
  /\ drv.at = "address"
  /\ DataCmd(drv.t, [recv |-> FALSE, restart |-> TRUE, stop |-> FALSE,
                     byte |-> drv.a])
  /\ drv' = IF dw'.abrt THEN [at |-> "end"] ELSE [drv EXCEPT !.at = drv.op]
  /\ UNCHANGED <<want, due, hung>>

SendValue ==
  /\ drv.at = "write"
  /\ DataCmd(drv.t, [recv |-> FALSE, restart |-> FALSE, stop |-> TRUE,
                     byte |-> drv.v])
  /\ want' = IF dw'.abrt THEN want
             ELSE [want EXCEPT ![drv.goes] = Write(drv.goes, @, drv.a, drv.v)]
  /\ drv' = [at |-> "end"]
  /\ hung' = FALSE /\ UNCHANGED due

(* Two reads, the first with RESTART and the second with STOP.             *)
SendRead ==
  /\ drv.at \in {"read", "read2"}
  /\ DataCmd(drv.t, [recv |-> TRUE, restart |-> drv.at = "read",
                     stop |-> drv.at = "read2", byte |-> 0])
  /\ LET a == IF drv.at = "read" THEN drv.a ELSE Next1(drv.a) IN
     due' = IF dw'.abrt THEN due
            ELSE Append(due, Read(drv.goes, want[drv.goes], a))
  /\ drv' = IF drv.at = "read" /\ ~dw'.abrt THEN [drv EXCEPT !.at = "read2"]
                                             ELSE [at |-> "end"]
  /\ hung' = (drv.at = "read" /\ hung) /\ UNCHANGED want

(* dw_ic_data_cmd_reg_post_read, as long as IC_STATUS says RFNE.           *)
DrainRx ==
  /\ dw.fifo # <<>> /\ dw.status = "receiving"
  /\ dw' = [dw EXCEPT !.fifo = Tail(@), !.full = @ /\ Len(dw.fifo) - 1 > dw.tl]
  /\ due' = IF due # <<>> /\ Head(due) = Head(dw.fifo) THEN Tail(due)
            ELSE <<"wrong">>
  /\ UNCHANGED <<bus, dev, drv, want, hung, gpioVars>>

Finish ==
  /\ drv.at = "end" /\ (dw.abrt \/ (dw.stop /\ dw.fifo = <<>>))
  /\ dw' = ClrIntr /\ drv' = [at |-> "off"]
  /\ UNCHANGED <<bus, dev, want, due, hung, gpioVars>>

Disable ==
  /\ drv.at = "off" /\ Enable(FALSE)
  /\ drv' = [at |-> "idle"]
  /\ UNCHANGED <<want, due, hung>>

(* A transfer is broken off after its start and before its STOP.           *)
BrokenOff == hung' = (hung \/ drv.at \in Sending)

(* A transfer the driver gives up.                                         *)
GiveUp ==
  /\ drv.at \in {"address"} \cup Sending
  /\ Abort
  /\ drv' = [at |-> "end"] /\ due' = <<>>
  /\ BrokenOff /\ UNCHANGED want

SetThreshold(n) == drv.at \in {"idle", "end"} /\ WriteRxTl(n)
                   /\ UNCHANGED <<drv, want, due, hung>>

DriverNext ==
  \/ \E t \in DOMAIN dev \cup {Absent} :
       \/ \E w \in FwWrites : Begin("write", t, w[1], w[2])
       \/ \E a \in FwReads : Begin("read", t, a, 0)
  \/ SendAddress \/ SendValue \/ SendRead \/ DrainRx
  \/ Finish \/ Disable \/ GiveUp
  \/ \E n \in RxTls : SetThreshold(n)

-----------------------------------------------------------------------------
(* The host: the IMU's tap and data-ready, the injected samples.           *)
OnMem(t, m) ==
  /\ dev' = [dev EXCEPT ![t].mem = m] /\ want' = [want EXCEPT ![t] = m]
  /\ UNCHANGED <<dw, bus, drv, due, hung>>

Latch(bits) ==
  LET m == [dev["imu"].mem EXCEPT !.pending = bits] IN
  OnMem("imu", m) /\ InputSet(IntPin, m.pending # {}) /\ UNCHANGED seen

Tap == Latch(dev["imu"].mem.pending \cup {2})

SetDrdy(on) == Latch(IF on THEN dev["imu"].mem.pending \cup {1}
                          ELSE dev["imu"].mem.pending \ {1})

Inject(t, v) ==
  /\ OnMem(t, [dev[t].mem EXCEPT !.sample = v])
  /\ UNCHANGED gpioVars

I2cNext ==
  \/ DriverNext
  \/ "imu" \in DOMAIN dev /\ (Tap \/ \E on \in BOOLEAN : SetDrdy(on))
  \/ \E t \in {"imu", "magn"} \cap DOMAIN dev, v \in {0, 1} : Inject(t, v)

(* The reset of the controller and of the targets; the bus stays as it is, *)
(* and so do the injected samples.                                         *)
I2cReset ==
  /\ dw' = DwAtReset /\ UNCHANGED bus
  /\ dev' = [t \in DOMAIN dev |-> DevAtReset(t, dev[t].mem.sample)]
  /\ want' = [t \in DOMAIN dev |-> Contents(t, dev[t].mem.sample)]
  /\ drv' = [at |-> "idle"] /\ due' = <<>> /\ BrokenOff

I2cTypeOK ==
  /\ dw.status \in {"idle", "address", "sending", "receiving"}
  /\ Len(dw.fifo) <= FifoSize /\ dw.tl \in 0..FifoSize - 1
  /\ bus \in DOMAIN dev \cup {Nobody}

(* A transfer is what the driver meant: a write has changed the register   *)
(* it named and no other, the bytes of a read come from the registers it   *)
(* named, and the FIFO's interrupt says when they are there.  It is made   *)
(* with the target it names; only from a transfer that is given up or      *)
(* reset in its middle, of which the bus core is not told, to the next     *)
(* STOP does the bus stay with that one's target, and is what is meant for *)
(* another (or for nobody) done to it.                                     *)
TransfersIntact ==
  /\ \A t \in DOMAIN dev : dev[t].mem = want[t]
  /\ dw.status = "receiving" => dw.fifo = due
  /\ dw.full <=> dw.en /\ Len(dw.fifo) > dw.tl
  /\ bus # Nobody => hung \/ drv.at \in Sending
  /\ drv.at \in {"address"} \cup Sending => drv.goes = drv.t \/ hung
=============================================================================
