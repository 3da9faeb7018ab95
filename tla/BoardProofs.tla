---------------------------- MODULE BoardProofs -----------------------------
(***************************************************************************)
(* Proofs about the board's devices: the machine's power, its GPIO banks,  *)
(* its RTC and its ADC, its I2C buses, its speaker, its camera, its        *)
(* display and the web bridge; that no driver waits in vain.  Each part has*)
(* an inductive invariant of its own: a step of the board is a step of the *)
(* part, its reset, or leaves it alone.                                    *)
(***************************************************************************)
EXTENDS Board, Remainders, FiniteSetTheorems, SequenceTheorems

-----------------------------------------------------------------------------
(* The power: what the watchdog, the magics and the firmware's boot say    *)
(* about one another.                                                      *)
Pend == wdog.timer \/ preserve
Fired == "fired" \in magics

PowerTypes ==
  /\ wdog \in [WdogBits -> BOOLEAN] /\ mhu \in [MhuBits -> BOOLEAN]
  /\ nmi \in BOOLEAN /\ preserve \in BOOLEAN /\ served \in BOOLEAN
  /\ resetReq \in BOOLEAN /\ asked \in BOOLEAN
  /\ magics \subseteq {"fired", "ble_lua"}
  /\ fw \in {"boot", "stop", "unlock", "arm", "register", "feed", "lock",
             "up"}

(* An expiry that is on its way finds the handler's magic, or the line     *)
(* that will bring it about once the watchdog is armed.                    *)
ExpiryFlagged ==
  /\ Pend => wdog.raw \/ Fired
  /\ wdog.raw /\ wdog.inten => nmi \/ Fired
  /\ preserve /\ "ble_lua" \in magics => Fired

(* The firmware is armed before it registers, and registers before it      *)
(* comes up; the magic of its registration is never alone at a boot.       *)
BootOrder ==
  /\ fw = "arm" => ~wdog.locked
  /\ fw \in {"register", "feed", "lock", "up"} => wdog.inten
  /\ fw \in {"unlock", "arm", "register"} => "ble_lua" \notin magics
  /\ fw \in {"feed", "lock", "up"} => served
  /\ fw = "boot" /\ "ble_lua" \in magics => Fired
  /\ "ble_lua" \in magics => wdog.inten \/ Fired

PowerInv ==
  /\ PowerTypes /\ ExpiryFlagged /\ BootOrder
  /\ RequestIsAnswered

LEMMA PowerInitial == PowerInit => PowerInv
BY DEF WdogBits, MhuBits, PowerInit, SeInit, WdInit, WdogAtReset, WdogBits, MhuBits, PowerInv, PowerTypes,
       ExpiryFlagged, BootOrder, RequestIsAnswered, Pend, Fired

LEMMA PowerWdog ==
  PowerInv /\ (Fire \/ Expired \/ HostReset \/ NmiHandler) => PowerInv'
<1> SUFFICES ASSUME PowerInv, Fire \/ Expired \/ HostReset \/ NmiHandler
             PROVE  PowerInv'
  OBVIOUS
<1>1. UNCHANGED <<mhu, asked>> /\ resetReq' \in BOOLEAN
  BY DEF Fire, Expired, HostReset, NmiHandler, seVars, WdogBits, MhuBits, PowerInv, PowerTypes,
         wdVars
<1>2. RequestIsAnswered' BY <1>1 DEF PowerInv, RequestIsAnswered
<1>3. PowerTypes' /\ ExpiryFlagged' /\ BootOrder'
  <2>1. CASE Fire
    BY <1>1, <2>1 DEF Fire, NmiLine, WdogBits, MhuBits, PowerInv, PowerTypes, ExpiryFlagged,
       BootOrder, Pend, Fired
  <2>2. CASE Expired
    BY <1>1, <2>2 DEF Expired, WdogBits, MhuBits, PowerInv, PowerTypes, ExpiryFlagged,
       BootOrder, Pend, Fired
  <2>3. CASE HostReset
    BY <1>1, <2>3 DEF HostReset, wdVars, WdogBits, MhuBits, PowerInv, PowerTypes, ExpiryFlagged,
       BootOrder, Pend, Fired
  <2>4. CASE NmiHandler
    BY <1>1, <2>4 DEF NmiHandler, WdogBits, MhuBits, PowerInv, PowerTypes, ExpiryFlagged,
       BootOrder, Pend, Fired
  <2> QED BY <2>1, <2>2, <2>3, <2>4
<1> QED BY <1>2, <1>3 DEF PowerInv

LEMMA PowerFirmware ==
  PowerInv /\ (BootClean \/ Unlock \/ Arm \/ Register \/ Feed \/ Lock)
    => PowerInv'
<1> SUFFICES ASSUME PowerInv,
                    BootClean \/ Unlock \/ Arm \/ Register \/ Feed \/ Lock
             PROVE  PowerInv'
  OBVIOUS
<1>1. UNCHANGED <<mhu, asked, resetReq>>
  BY DEF BootClean, Unlock, Arm, Register, Feed, Lock, seVars
<1>2. RequestIsAnswered' BY <1>1 DEF PowerInv, RequestIsAnswered
<1>3. PowerTypes' /\ ExpiryFlagged' /\ BootOrder'
  <2>1. CASE BootClean
    BY <1>1, <2>1 DEF BootClean, At, WdogBits, MhuBits, PowerInv, PowerTypes, ExpiryFlagged,
       BootOrder, Pend, Fired
  <2>2. CASE Unlock
    <3>1. /\ UNCHANGED <<preserve, magics, served>>
          /\ WdogWrite("LOCK", TRUE)
          /\ \/ fw = "unlock" /\ fw' = "arm"
             \/ fw = "up" /\ fw' = "feed"
      BY <2>2 DEF Unlock, At
    <3>3. wdog' = [wdog EXCEPT !.locked = ~TRUE]
      BY <3>1 DEF WdogWrite
    <3>4. UNCHANGED nmi BY <3>1 DEF WdogWrite
    <3>2. /\ wdog' \in [WdogBits -> BOOLEAN] /\ ~wdog'.locked
          /\ wdog'.raw = wdog.raw /\ wdog'.inten = wdog.inten
          /\ wdog'.timer = wdog.timer
      BY <3>3 DEF WdogBits, PowerInv, PowerTypes
    <3> QED BY <1>1, <3>1, <3>2, <3>4 DEF PowerInv, PowerTypes, ExpiryFlagged,
               BootOrder, Pend, Fired
  <2>3. CASE Arm
    BY <1>1, <2>3 DEF Arm, At, WdogWrite, NmiLine, WdogBits, MhuBits, PowerInv, PowerTypes,
       ExpiryFlagged, BootOrder, Pend, Fired
  <2>4. CASE Register
    BY <1>1, <2>4 DEF Register, At, WdogBits, MhuBits, PowerInv, PowerTypes, ExpiryFlagged,
       BootOrder, Pend, Fired
  <2>5. CASE Feed
    BY <1>1, <2>5 DEF Feed, At, WdogWrite, NmiLine, WdogBits, MhuBits, PowerInv, PowerTypes,
       ExpiryFlagged, BootOrder, Pend, Fired
  <2>6. CASE Lock
    BY <1>1, <2>6 DEF Lock, At, WdogWrite, WdogBits, MhuBits, PowerInv, PowerTypes,
       ExpiryFlagged, BootOrder, Pend, Fired
  <2> QED BY <2>1, <2>2, <2>3, <2>4, <2>5, <2>6
<1> QED BY <1>2, <1>3 DEF PowerInv

LEMMA LinesOf ==
  ASSUME NEW m \in [MhuBits -> BOOLEAN]
  PROVE  /\ Lines(m) \in [MhuBits -> BOOLEAN]
         /\ Lines(m).chSt = m.chSt /\ Lines(m).recvIntEn = m.recvIntEn
         /\ Lines(m).recvIrq = (m.recvIntEn /\ m.chSt)
BY DEF MhuBits, Lines

(* What one request, and one write of the driver, do to the receiver.      *)
LEMMA ChSetAnswers ==
  ASSUME mhu \in [MhuBits -> BOOLEAN], NEW svc, ChSet(svc)
  PROVE  /\ mhu' \in [MhuBits -> BOOLEAN] /\ resetReq' \in BOOLEAN
         /\ mhu'.chSt /\ (mhu'.recvIntEn => mhu'.recvIrq)
<1> DEFINE m == [mhu EXCEPT !.chIntSt = @ \/ mhu.chIntEn, !.chSt = TRUE]
<1>1. m \in [MhuBits -> BOOLEAN] /\ m.chSt BY DEF MhuBits
<1>2. mhu' = Lines(m) /\ resetReq' = (resetReq \/ svc \in ResetServices)
  BY DEF ChSet
<1> HIDE DEF m
<1>3. resetReq' \in BOOLEAN BY <1>2
<1> QED BY <1>1, <1>2, <1>3, LinesOf

LEMMA WriteKeeps ==
  ASSUME mhu \in [MhuBits -> BOOLEAN], RequestIsAnswered,
         NEW r \in {"SEND_INT_EN", "RECV_INT_EN", "CH_INT_EN", "CH_INT_CLR"},
         SeWrite(r, TRUE)
  PROVE  /\ mhu' \in [MhuBits -> BOOLEAN]
         /\ asked => mhu'.chSt /\ (mhu'.recvIntEn => mhu'.recvIrq)
<1>1. CASE r = "SEND_INT_EN"
  <2> DEFINE m == [mhu EXCEPT !.sendIntEn = TRUE]
  <2>1. m \in [MhuBits -> BOOLEAN] /\ m.chSt = mhu.chSt BY DEF MhuBits
  <2>2. mhu' = Lines(m) BY <1>1 DEF SeWrite
  <2> HIDE DEF m
  <2> QED BY <2>1, <2>2, LinesOf DEF RequestIsAnswered
<1>2. CASE r = "RECV_INT_EN"
  <2> DEFINE m == [mhu EXCEPT !.recvIntEn = TRUE]
  <2>1. m \in [MhuBits -> BOOLEAN] /\ m.chSt = mhu.chSt BY DEF MhuBits
  <2>2. mhu' = Lines(m) BY <1>2 DEF SeWrite
  <2> HIDE DEF m
  <2> QED BY <2>1, <2>2, LinesOf DEF RequestIsAnswered
<1>3. CASE r = "CH_INT_EN"
  <2>1. mhu' = [mhu EXCEPT !.chIntEn = TRUE] BY <1>3 DEF SeWrite
  <2> QED BY <2>1 DEF MhuBits, RequestIsAnswered
<1>4. CASE r = "CH_INT_CLR"
  <2> DEFINE m == [mhu EXCEPT !.chIntSt = @ /\ ~TRUE]
  <2>1. m \in [MhuBits -> BOOLEAN] /\ m.chSt = mhu.chSt BY DEF MhuBits
  <2>2. mhu' = Lines(m) BY <1>4 DEF SeWrite
  <2> HIDE DEF m
  <2> QED BY <2>1, <2>2, LinesOf DEF RequestIsAnswered
<1> QED BY <1>1, <1>2, <1>3, <1>4

LEMMA EnclaveStep == PowerInv /\ UseEnclave => PowerInv'
<1> SUFFICES ASSUME PowerInv, UseEnclave PROVE PowerInv'
  OBVIOUS
<1>1. UNCHANGED wdVars BY DEF UseEnclave
<1>2. ExpiryFlagged' /\ BootOrder'
  BY <1>1 DEF PowerInv, wdVars, ExpiryFlagged, BootOrder, Pend, Fired
<1>3. mhu \in [MhuBits -> BOOLEAN] /\ RequestIsAnswered
  BY DEF PowerInv, PowerTypes
<1>4. /\ mhu' \in [MhuBits -> BOOLEAN]
      /\ resetReq' \in BOOLEAN /\ asked' \in BOOLEAN
      /\ RequestIsAnswered'
  <2>1. CASE SeSetUp
    <3>1. PICK r \in {"SEND_INT_EN", "RECV_INT_EN", "CH_INT_EN"} :
            SeWrite(r, TRUE) /\ UNCHANGED <<resetReq, asked>>
      BY <2>1 DEF SeSetUp
    <3> QED BY <1>3, <3>1, WriteKeeps DEF PowerInv, PowerTypes,
               RequestIsAnswered
  <2>2. CASE \E svc \in Services : SeAsk(svc)
    <3>1. PICK svc \in Services : asked' = TRUE /\ ChSet(svc)
      BY <2>2 DEF SeAsk
    <3> QED BY <1>3, <3>1, ChSetAnswers DEF RequestIsAnswered
  <2>3. CASE SeSent
    <3>1. SeWrite("CH_INT_CLR", TRUE) /\ UNCHANGED <<resetReq, asked>>
      BY <2>3 DEF SeSent
    <3> QED BY <1>3, <3>1, WriteKeeps DEF PowerInv, PowerTypes,
               RequestIsAnswered
  <2>4. CASE SeAnswered
    <3> DEFINE m == [mhu EXCEPT !.chSt = @ /\ ~TRUE]
    <3>1. m \in [MhuBits -> BOOLEAN] BY <1>3 DEF MhuBits
    <3>2. mhu' = Lines(m) /\ asked' = FALSE /\ UNCHANGED resetReq
      BY <2>4 DEF SeAnswered, SeWrite
    <3> HIDE DEF m
    <3> QED BY <3>1, <3>2, LinesOf DEF PowerInv, PowerTypes,
               RequestIsAnswered
  <2> QED BY <2>1, <2>2, <2>3, <2>4 DEF UseEnclave, SeNext
<1> QED BY <1>1, <1>2, <1>4 DEF PowerInv, PowerTypes, wdVars

LEMMA BootFlaggedStep == PowerInv /\ BootFlagged => PowerInv'
<1> SUFFICES ASSUME PowerInv, BootFlagged PROVE PowerInv'
  OBVIOUS
<1>1. /\ fw' = "stop" /\ UNCHANGED <<asked, wdog, nmi, preserve, magics, served>>
      /\ \E svc \in ResetServices : ChSet(svc)
  BY DEF BootFlagged, At
<1>2. mhu \in [MhuBits -> BOOLEAN] BY DEF PowerInv, PowerTypes
<1>3. /\ mhu' \in [MhuBits -> BOOLEAN] /\ resetReq' \in BOOLEAN
      /\ mhu'.chSt /\ (mhu'.recvIntEn => mhu'.recvIrq)
  BY <1>1, <1>2, ChSetAnswers
<1>4. RequestIsAnswered' BY <1>3 DEF RequestIsAnswered
<1>5. ExpiryFlagged' /\ BootOrder'
  BY <1>1 DEF PowerInv, ExpiryFlagged, BootOrder, Pend, Fired
<1> QED BY <1>1, <1>3, <1>4, <1>5 DEF PowerInv, PowerTypes

LEMMA PowerResetStep == PowerInv /\ PowerReset => PowerInv'
<1> SUFFICES ASSUME PowerInv, PowerReset PROVE PowerInv'
  OBVIOUS
<1>1. /\ wdog' \in [WdogBits -> BOOLEAN]
      /\ wdog'.raw = FALSE /\ wdog'.timer = FALSE
  BY DEF PowerReset, WdogReset, WdogAtReset, WdogBits
<1>2. mhu' \in [MhuBits -> BOOLEAN]
  BY DEF PowerReset, SeReset, MhuBits
<1>3. /\ nmi' = FALSE /\ resetReq' = FALSE /\ asked' = FALSE
      /\ preserve' = FALSE /\ fw' = "boot" /\ served' = FALSE
      /\ magics' = IF preserve THEN magics ELSE {}
  BY DEF PowerReset, SramReset
<1>4. PowerTypes' /\ RequestIsAnswered'
  BY <1>1, <1>2, <1>3 DEF PowerInv, PowerTypes, RequestIsAnswered
<1>5. ExpiryFlagged' /\ BootOrder'
  BY <1>1, <1>3 DEF PowerInv, ExpiryFlagged, BootOrder, Pend, Fired
<1> QED BY <1>4, <1>5 DEF PowerInv

LEMMA PowerOfBoard ==
  [Next]_boardVars => PowerNext \/ PowerReset \/ UNCHANGED powerVars
BY DEF Next, boardVars, PowerMoves, BusMoves, MediaMove, OthersMove, HostAsks,
       MachineReset, PowerStays, PowerNext

LEMMA PowerStep == PowerInv /\ [Next]_boardVars => PowerInv'
<1> SUFFICES ASSUME PowerInv, [Next]_boardVars PROVE PowerInv'
  OBVIOUS
<1>1. CASE PowerNext
  BY <1>1, PowerWdog, PowerFirmware, EnclaveStep, BootFlaggedStep
  DEF PowerNext
<1>2. CASE PowerReset BY <1>2, PowerResetStep
<1>3. CASE UNCHANGED powerVars
  BY <1>3 DEF powerVars, seVars, wdVars, PowerInv, PowerTypes, ExpiryFlagged,
     BootOrder, Pend, Fired, RequestIsAnswered
<1> QED BY <1>1, <1>2, <1>3, PowerOfBoard

(* The invariant of the power, of every behaviour of the board.            *)
THEOREM PowerInvariant == Spec => []PowerInv
<1>1. Init => PowerInv BY PowerInitial DEF Init
<1> QED BY <1>1, PowerStep, PTL DEF Spec

(* A firmware that is up is served: whatever resets the watchdog, the      *)
(* Enclave and the host bring about (halo_wdog.c, halo_se.c, halo.c's      *)
(* halo_sram_reset), whatever services the Enclave is asked for.           *)
THEOREM FirmwareServed == Spec => []NeverUnserved
<1>1. PowerInv => NeverUnserved BY DEF PowerInv, BootOrder, NeverUnserved
<1> QED BY <1>1, PowerInvariant, PTL

(* Every request to the Enclave has its answer in the channel before the   *)
(* write that makes it returns (halo_se.c), and the line is up.            *)
THEOREM EnclaveAnswers == Spec => []RequestIsAnswered
<1>1. PowerInv => RequestIsAnswered BY DEF PowerInv
<1> QED BY <1>1, PowerInvariant, PTL

-----------------------------------------------------------------------------
(* The GPIO banks: one pin's step keeps every pin's invariant.             *)
GpioInv == GpioTypeOK /\ InputsAreSeen

PinType == [PinBits -> BOOLEAN]

(* What a driver's reading promises of a pin.                              *)
PinRead(g, lvl, s) ==
  g.ext = lvl /\ (g.bothedge /\ g.inten /\ s # Unknown
                    => s = {Level(g)} \/ g.raw)

LEMMA UpdatedPin ==
  ASSUME NEW g \in PinType
  PROVE  /\ Updated(g) \in PinType
         /\ \A f \in PinBits \ {"raw"} : Updated(g)[f] = g[f]
         /\ g.bothedge => Updated(g).raw = (g.inten /\ g.raw)
         /\ Level(Updated(g)) = Level(g)
BY DEF PinType, PinBits, PinRegs, Updated, EdgeMode, Level

LEMMA InputPin ==
  ASSUME NEW g \in PinType, NEW lvl \in BOOLEAN, NEW old, NEW s,
         PinRead(g, old, s)
  PROVE  /\ WithInput(g, lvl) \in PinType
         /\ PinRead(WithInput(g, lvl), lvl, s)
<1> DEFINE h == [g EXCEPT !.ext = lvl]
           edge == /\ Level(g) # Level(h)
                   /\ g.bothedge \/ g.polarity = Level(h)
           n == [h EXCEPT !.raw = @ \/ (edge /\ EdgeMode(g) /\ g.inten)]
<1>1. /\ h \in PinType /\ h.ext = lvl /\ h.raw = g.raw
      /\ h.bothedge = g.bothedge /\ h.inten = g.inten
  BY DEF PinType, PinBits, PinRegs
<1>2. /\ n \in PinType /\ n.ext = lvl /\ Level(n) = Level(h)
      /\ n.bothedge = g.bothedge /\ n.inten = g.inten
      /\ n.raw = (g.raw \/ (edge /\ EdgeMode(g) /\ g.inten))
  <2> HIDE DEF edge, h
  <2> QED BY <1>1 DEF PinType, PinBits, PinRegs, Level
<1>3. WithInput(g, lvl) = Updated(n) BY DEF WithInput
<1> HIDE DEF n
<1>4. g.bothedge /\ g.inten /\ Level(g) # Level(n) => n.raw
  BY <1>2 DEF EdgeMode
<1>5. /\ Updated(n) \in PinType /\ Level(Updated(n)) = Level(n)
      /\ Updated(n).ext = lvl /\ Updated(n).bothedge = g.bothedge
      /\ Updated(n).inten = g.inten
      /\ n.bothedge => Updated(n).raw = (n.inten /\ n.raw)
  BY <1>2, UpdatedPin DEF PinBits, PinRegs
<1>6. g.raw => n.raw BY <1>2
<1> HIDE DEF edge
<1> QED BY <1>2, <1>3, <1>4, <1>5, <1>6 DEF PinRead

(* The driver's and the world's steps on one pin.                          *)
LEMMA WrittenPin ==
  ASSUME NEW g \in PinType, NEW lvl, g.ext = lvl, NEW r \in PinRegs,
         NEW v \in BOOLEAN
  PROVE  /\ Updated([g EXCEPT ![r] = v]) \in PinType
         /\ PinRead(Updated([g EXCEPT ![r] = v]), lvl, Unknown)
<1> DEFINE n == [g EXCEPT ![r] = v]
<1>1. n \in PinType /\ n.ext = g.ext BY DEF PinType, PinBits, PinRegs
<1> HIDE DEF n
<1>2. Updated(n) \in PinType /\ PinRead(Updated(n), lvl, Unknown)
  BY <1>1, UpdatedPin DEF PinRead, PinBits, PinRegs
<1> QED BY <1>2 DEF n

LEMMA AckedPin ==
  ASSUME NEW g \in PinType, NEW lvl, g.ext = lvl
  PROVE  /\ Updated([g EXCEPT !.raw = FALSE]) \in PinType
         /\ PinRead(Updated([g EXCEPT !.raw = FALSE]), lvl, Unknown)
<1> DEFINE n == [g EXCEPT !.raw = FALSE]
<1>1. n \in PinType /\ n.ext = g.ext BY DEF PinType, PinBits, PinRegs
<1> HIDE DEF n
<1>2. Updated(n) \in PinType /\ PinRead(Updated(n), lvl, Unknown)
  BY <1>1, UpdatedPin DEF PinRead, PinBits, PinRegs
<1> QED BY <1>2 DEF n

(* A step that gives one pin its new state keeps the rest.                 *)
LEMMA OnePin ==
  ASSUME GpioInv, NEW p \in Pins, NEW g \in PinType, NEW lvl \in BOOLEAN,
         NEW s \in SUBSET BOOLEAN, PinRead(g, lvl, s),
         gpio' = [gpio EXCEPT ![p] = g], drive' = [drive EXCEPT ![p] = lvl],
         seen' = [seen EXCEPT ![p] = s]
  PROVE  GpioInv'
<1>1. gpio \in [Pins -> PinType] /\ drive \in [Pins -> BOOLEAN]
      /\ seen \in [Pins -> SUBSET BOOLEAN]
  BY DEF GpioInv, GpioTypeOK, PinType
<1>2. gpio' \in [Pins -> PinType] /\ drive' \in [Pins -> BOOLEAN]
      /\ seen' \in [Pins -> SUBSET BOOLEAN]
  BY <1>1
<1>3. \A q \in Pins : PinRead(gpio[q], drive[q], seen[q])
  BY DEF GpioInv, InputsAreSeen, PinRead
<1>4. ASSUME NEW q \in Pins PROVE PinRead(gpio'[q], drive'[q], seen'[q])
  BY <1>1, <1>3
<1> QED BY <1>2, <1>4 DEF GpioInv, GpioTypeOK, PinType, InputsAreSeen, PinRead

LEMMA PinStep == ASSUME GpioInv, NEW p \in Pins, PinNext(p) PROVE GpioInv'
<1> DEFINE g == gpio[p]
<1>1. gpio \in [Pins -> PinType] /\ drive \in [Pins -> BOOLEAN]
      /\ seen \in [Pins -> SUBSET BOOLEAN]
  BY DEF GpioInv, GpioTypeOK, PinType
<1>2. g \in PinType /\ drive[p] \in BOOLEAN /\ seen[p] \in SUBSET BOOLEAN
      /\ PinRead(g, drive[p], seen[p]) /\ g.ext = drive[p]
  BY <1>1 DEF GpioInv, InputsAreSeen, PinRead
<1>3. CASE \E level \in BOOLEAN : HostDrives(p, level)
  <2>1. PICK level \in BOOLEAN : HostDrives(p, level) BY <1>3
  <2>2. seen' = [seen EXCEPT ![p] = seen[p]]
    BY <1>1, <2>1 DEF HostDrives
  <2>3. /\ WithInput(g, level) \in PinType
        /\ PinRead(WithInput(g, level), level, seen[p])
    BY <1>2, InputPin
  <2>4. /\ gpio' = [gpio EXCEPT ![p] = WithInput(g, level)]
        /\ drive' = [drive EXCEPT ![p] = level]
    BY <2>1 DEF HostDrives, InputSet
  <2> HIDE DEF g
  <2> QED BY <1>2, <2>2, <2>3, <2>4, OnePin
<1>4. CASE \E r \in FwRegs[p], v \in BOOLEAN : WriteReg(p, r, v)
  <2>1. PICK r \in FwRegs[p], v \in BOOLEAN : WriteReg(p, r, v) BY <1>4
  <2>2. r \in PinRegs BY GpioAssumption
  <2> DEFINE n == Updated([g EXCEPT ![r] = v])
  <2>3. n \in PinType /\ PinRead(n, drive[p], Unknown)
    BY <1>2, <2>2, WrittenPin
  <2>4. /\ gpio' = [gpio EXCEPT ![p] = n]
        /\ drive' = [drive EXCEPT ![p] = drive[p]]
        /\ seen' = [seen EXCEPT ![p] = Unknown]
    BY <1>1, <2>1 DEF WriteReg
  <2> HIDE DEF g, n
  <2> QED BY <1>2, <2>3, <2>4, OnePin DEF Unknown
<1>5. CASE Eoi(p)
  <2> DEFINE n == Updated([g EXCEPT !.raw = FALSE])
  <2>1. n \in PinType /\ PinRead(n, drive[p], Unknown) BY <1>2, AckedPin
  <2>2. /\ gpio' = [gpio EXCEPT ![p] = n]
        /\ drive' = [drive EXCEPT ![p] = drive[p]]
        /\ seen' = [seen EXCEPT ![p] = Unknown]
    BY <1>1, <1>5 DEF Eoi
  <2> HIDE DEF g, n
  <2> QED BY <1>2, <2>1, <2>2, OnePin DEF Unknown
<1>6. CASE ReadExt(p)
  <2>1. /\ gpio' = [gpio EXCEPT ![p] = g]
        /\ drive' = [drive EXCEPT ![p] = drive[p]]
        /\ seen' = [seen EXCEPT ![p] = {Level(g)}]
    BY <1>1, <1>6 DEF ReadExt
  <2>2. Level(g) \in BOOLEAN BY <1>2 DEF Level, PinType, PinBits, PinRegs
  <2>3. PinRead(g, drive[p], {Level(g)}) BY <1>2 DEF PinRead
  <2> HIDE DEF g
  <2> QED BY <1>2, <2>1, <2>2, <2>3, OnePin
<1> QED BY <1>3, <1>4, <1>5, <1>6 DEF PinNext

(* The bus drives the accelerometer's pin and no other.                    *)
BusInput ==
  UNCHANGED seen /\ (\/ UNCHANGED <<gpio, drive>>
                    \/ \E level \in BOOLEAN : InputSet(IntPin, level))

LEMMA AppliedInput == ASSUME NEW s, Apply(s) PROVE BusInput
<1>1. (s.dev["imu"].mem.pending # {}) \in BOOLEAN OBVIOUS
<1> QED BY <1>1 DEF Apply, BusInput

LEMMA DataCmdInput ==
  ASSUME NEW tar, NEW cmd, DataCmd(tar, cmd) PROVE BusInput
<1>1. PICK s : Apply(s) BY DEF DataCmd
<1> QED BY <1>1, AppliedInput

LEMMA BusOnlyInput == I2cNext => BusInput
<1> SUFFICES ASSUME I2cNext PROVE BusInput
  OBVIOUS
<1>1. CASE SendAddress BY <1>1, DataCmdInput DEF SendAddress
<1>2. CASE SendValue BY <1>2, DataCmdInput DEF SendValue
<1>3. CASE SendRead BY <1>3, DataCmdInput DEF SendRead
<1>4. ASSUME NEW bits, Latch(bits) PROVE BusInput
  <2> DEFINE m == [dev["imu"].mem EXCEPT !.pending = bits]
  <2>1. InputSet(IntPin, m.pending # {}) /\ UNCHANGED seen
    BY <1>4 DEF Latch
  <2>2. (m.pending # {}) \in BOOLEAN OBVIOUS
  <2> HIDE DEF m
  <2> QED BY <2>1, <2>2 DEF BusInput
<1>5. CASE Tap \/ \E on \in BOOLEAN : SetDrdy(on)
  BY <1>4, <1>5 DEF Tap, SetDrdy
<1>6. CASE UNCHANGED gpioVars BY <1>6 DEF gpioVars, BusInput
<1>7. CASE DrainRx \/ Finish \/ Disable \/ GiveUp
           \/ \E n \in RxTls : SetThreshold(n)
  BY <1>6, <1>7 DEF DrainRx, Finish, Disable, Enable, GiveUp, Abort,
     SetThreshold, WriteRxTl
<1>8. CASE \E t \in DOMAIN dev \cup {Absent} :
             \/ \E w \in FwWrites : Begin("write", t, w[1], w[2])
             \/ \E a \in FwReads : Begin("read", t, a, 0)
  BY <1>6, <1>8 DEF Begin, Enable
<1>9. CASE \E t \in {"imu", "magn"} \cap DOMAIN dev, v \in {0, 1} :
             Inject(t, v)
  BY <1>6, <1>9 DEF Inject
<1> QED BY <1>1, <1>2, <1>3, <1>5, <1>7, <1>8, <1>9 DEF I2cNext, DriverNext

LEMMA BusInputStep == GpioInv /\ BusInput => GpioInv'
<1> SUFFICES ASSUME GpioInv, BusInput PROVE GpioInv'
  OBVIOUS
<1>1. CASE UNCHANGED gpioVars
  BY <1>1 DEF gpioVars, GpioInv, GpioTypeOK, InputsAreSeen, Unknown, Level
<1>2. CASE \E level \in BOOLEAN : InputSet(IntPin, level)
  <2>1. PICK level \in BOOLEAN : InputSet(IntPin, level) BY <1>2
  <2>2. HostDrives(IntPin, level) BY <2>1 DEF BusInput, HostDrives
  <2>3. CASE IntPin \in Pins
    <3>1. GpioTypeOK /\ InputsAreSeen BY DEF GpioInv
    <3> DEFINE g == gpio[IntPin]
    <3>2. /\ g \in PinType /\ drive[IntPin] \in BOOLEAN
          /\ seen[IntPin] \in SUBSET BOOLEAN
          /\ PinRead(g, drive[IntPin], seen[IntPin])
          /\ seen' = [seen EXCEPT ![IntPin] = seen[IntPin]]
      BY <3>1, <2>2, <2>3 DEF GpioTypeOK, InputsAreSeen, PinRead, PinType,
         HostDrives
    <3>3. /\ WithInput(g, level) \in PinType
          /\ PinRead(WithInput(g, level), level, seen[IntPin])
      BY <3>2, InputPin
    <3>4. /\ gpio' = [gpio EXCEPT ![IntPin] = WithInput(g, level)]
          /\ drive' = [drive EXCEPT ![IntPin] = level]
      BY <2>1 DEF InputSet
    <3> HIDE DEF g
    <3> QED BY <2>3, <3>2, <3>3, <3>4, OnePin
  <2>4. CASE IntPin \notin Pins
    <3>1. gpio' = gpio /\ drive' = drive
      BY <2>1, <2>4 DEF InputSet, GpioInv, GpioTypeOK
    <3> QED BY <1>1, <2>2, <3>1 DEF HostDrives, gpioVars
  <2> QED BY <2>3, <2>4
<1> QED BY <1>1, <1>2 DEF BusInput, gpioVars

LEMMA PinAtResetRead ==
  ASSUME NEW level \in BOOLEAN
  PROVE  /\ PinAtReset(level) \in PinType
         /\ PinRead(PinAtReset(level), level, Unknown)
BY DEF PinAtReset, PinType, PinBits, PinRegs, PinRead

LEMMA GpioResetStep ==
  ASSUME GpioInv, NEW lowered, GpioReset(lowered) PROVE GpioInv'
<1> DEFINE low(p) == gpio[p].ext /\ p \notin lowered
<1>1. \A p \in Pins : low(p) \in BOOLEAN /\ gpio[p].ext = drive[p]
  BY DEF GpioInv, GpioTypeOK, PinBits, PinRegs, InputsAreSeen
<1>2. ASSUME NEW p \in Pins
      PROVE  /\ Updated(PinAtReset(low(p))) \in PinType
             /\ PinRead(Updated(PinAtReset(low(p))), low(p), Unknown)
  <2> DEFINE g == PinAtReset(low(p))
  <2>1. g \in PinType /\ PinRead(g, low(p), Unknown)
    BY <1>1, PinAtResetRead
  <2> HIDE DEF g, low
  <2>2. /\ Updated(g) \in PinType
        /\ PinRead(Updated(g), low(p), Unknown)
    BY <2>1, UpdatedPin DEF PinRead, PinBits, PinRegs
  <2> QED BY <2>2 DEF g
<1>3. \A p \in Pins : /\ gpio'[p] = Updated(PinAtReset(low(p)))
                       /\ drive'[p] = low(p)
                       /\ seen'[p] = Unknown
  BY <1>1 DEF GpioReset
<1>4. /\ DOMAIN gpio' = Pins /\ gpio' = [p \in Pins |-> gpio'[p]]
      /\ drive' = [p \in Pins |-> drive'[p]]
      /\ seen' = [p \in Pins |-> seen'[p]]
  BY DEF GpioReset
<1> HIDE DEF low
<1>5. /\ gpio' \in [Pins -> PinType] /\ drive' \in [Pins -> BOOLEAN]
      /\ seen' \in [Pins -> SUBSET BOOLEAN]
  BY <1>1, <1>2, <1>3, <1>4 DEF Unknown
<1>6. \A p \in Pins : PinRead(gpio'[p], drive'[p], seen'[p])
  BY <1>2, <1>3
<1> QED BY <1>5, <1>6 DEF GpioInv, GpioTypeOK, PinType, InputsAreSeen, PinRead

LEMMA GpioInitial == GpioInit => GpioInv
<1> SUFFICES ASSUME GpioInit PROVE GpioInv
  OBVIOUS
<1>1. \A p \in Pins : /\ gpio[p] = PinAtReset(InDefault[p])
                       /\ gpio[p] \in PinType
                       /\ PinRead(gpio[p], drive[p], seen[p])
  BY GpioAssumption, PinAtResetRead DEF GpioInit
<1>2. gpio \in [Pins -> PinType] BY <1>1 DEF GpioInit
<1>3. drive \in [Pins -> BOOLEAN] /\ seen \in [Pins -> SUBSET BOOLEAN]
  BY GpioAssumption DEF GpioInit, Unknown
<1> QED BY <1>1, <1>2, <1>3 DEF GpioInv, GpioTypeOK, PinType, InputsAreSeen,
    PinRead

LEMMA GpioOfBoard ==
  [Next]_boardVars => \/ BusInput \/ \E p \in Pins : PinNext(p)
                      \/ GpioReset({IntPin})
<1> SUFFICES ASSUME [Next]_boardVars
             PROVE  \/ BusInput \/ \E p \in Pins : PinNext(p)
                    \/ GpioReset({IntPin})
  OBVIOUS
<1>1. CASE UNCHANGED gpioVars BY <1>1 DEF gpioVars, BusInput
<1>2. CASE BusMoves BY <1>2, BusOnlyInput DEF BusMoves
<1>3. CASE PowerMoves \/ MediaMove \/ OthersMove \/ HostAsks
  BY <1>1, <1>3 DEF PowerMoves, MediaMove, OthersMove, HostAsks, BusStays,
     i2cVars
<1>4. CASE MachineReset BY <1>4 DEF MachineReset
<1>5. CASE UNCHANGED boardVars BY <1>1, <1>5 DEF boardVars, i2cVars
<1> QED BY <1>2, <1>3, <1>4, <1>5 DEF Next

LEMMA GpioInvariant == Spec => []GpioInv
<1>1. Init => GpioInv BY GpioInitial DEF Init
<1>2. GpioInv /\ [Next]_boardVars => GpioInv'
  BY GpioOfBoard, BusInputStep, PinStep, GpioResetStep
<1> QED BY <1>1, <1>2, PTL DEF Spec

(* No press and no release is missed, of any number of pins with any       *)
(* registers programmed, through the machine's resets (halo_gpio.c).       *)
THEOREM PressesSeen == Spec => []InputsAreSeen
<1>1. GpioInv => InputsAreSeen BY DEF GpioInv
<1> QED BY <1>1, GpioInvariant, PTL

-----------------------------------------------------------------------------
(* The battery's ADC.                                                      *)
AdcInv ==
  /\ adc \in [start : BOOLEAN, done : BOOLEAN, masked : BOOLEAN,
              ch : Channels \cup {NoChannel}, sel : Channels]
  /\ "wait" \in DOMAIN poll
  /\ DOMAIN sample = Channels
  /\ ConversionComes

LEMMA AdcStep == AdcInv /\ (AnaNext \/ AnaReset) => AdcInv'
<1> SUFFICES ASSUME AdcInv, AnaNext \/ AnaReset PROVE AdcInv'
  OBVIOUS
<1> USE DEF AdcInv, ConversionComes, AdcIrq, ReadAdc
<1>1. CASE AdcSetUp BY <1>1 DEF AdcSetUp, WriteAdc
<1>2. CASE AdcStart BY <1>2 DEF AdcStart, WriteControl
<1>3. CASE AdcIsr BY <1>3 DEF AdcIsr, WriteAdc
<1>4. CASE LedSet BY <1>4 DEF LedSet, WritePwm
<1>5. CASE \E raw \in Batteries : SetBattery(raw) BY <1>5 DEF SetBattery
<1>6. CASE AnaReset BY <1>6, AnaAssumption DEF AnaReset, AdcAtReset
<1> QED BY <1>1, <1>2, <1>3, <1>4, <1>5, <1>6 DEF AnaNext

(* A conversion that was started is announced with the battery as it was   *)
(* (halo_adc.c), whatever the host sets and whatever the firmware          *)
(* programs before it, for any set of channels.                            *)
THEOREM BatteryAnswers == Spec => []ConversionComes
<1>1. Init => AdcInv
  BY AnaAssumption DEF Init, AnaInit, AdcAtReset, AdcInv, ConversionComes
<1>2. AdcInv /\ UNCHANGED anaVars => AdcInv'
  BY DEF anaVars, AdcInv, ConversionComes, AdcIrq, ReadAdc
<1>3. AdcInv /\ [Next]_boardVars => AdcInv'
  BY <1>2, AdcStep DEF Next, boardVars, PowerMoves, BusMoves, MediaMove,
     OthersMove, HostAsks, MachineReset, OthersStay
<1>4. AdcInv => ConversionComes BY DEF AdcInv
<1> QED BY <1>1, <1>3, <1>4, PTL DEF Spec

-----------------------------------------------------------------------------
(* The RTC.                                                                *)
RtcType == [base : 0..RtcMod - 1, cmr : 0..RtcMod - 1,
            armed : BOOLEAN, raw : BOOLEAN]

RtcInv ==
  /\ rtc \in RtcType /\ nanos \in Nat /\ deadline \in {Off} \cup Nat
  /\ AlarmOnTime

(* The two truncations: d ticks on from t the count has moved by d, or is  *)
(* one short of it.                                                        *)
LEMMA TwoTruncations ==
  ASSUME NEW t \in Nat, NEW d \in Nat \ {0}
  PROVE  /\ TicksToNanos(d) \in Nat
         /\ NanosToTicks(t) \in Int
         /\ NanosToTicks(t + TicksToNanos(d)) \in Int
         /\ NanosToTicks(t + TicksToNanos(d)) - NanosToTicks(t) \in {d - 1, d}
BY SMT DEF TicksToNanos, NanosToTicks

LEMMA SmallRemainder ==
  ASSUME NEW M \in Nat \ {0}, NEW e \in {-1, 0, 1}
  PROVE  e % M \in {M - 1, 0, 1}
<1>1. CASE e = -1
  <2>1. e = (-1) * M + (M - 1) /\ M - 1 \in 0 .. M - 1 BY <1>1, SMT
  <2> QED BY <1>1, <2>1, ModUnique
<1>2. CASE e = 0
  <2>1. e = 0 * M + 0 /\ 0 \in 0 .. M - 1 BY <1>2, SMT
  <2> QED BY <1>2, <2>1, ModUnique
<1>3. CASE e = 1 /\ M # 1
  <2>1. e = 0 * M + 1 /\ 1 \in 0 .. M - 1 BY <1>3, SMT
  <2> QED BY <1>3, <2>1, ModUnique
<1>4. CASE e = 1 /\ M = 1 BY <1>4, SMT
<1> QED BY <1>1, <1>2, <1>3, <1>4

LEMMA RearmedOnTime ==
  ASSUME NEW r \in RtcType, NEW t \in Nat
  PROVE  /\ Rearm(r, t) \in {Off} \cup Nat
         /\ r.armed /\ ~r.raw =>
              /\ Rearm(r, t) # Off
              /\ (CountAt(r, Rearm(r, t)) - r.cmr) % RtcMod
                   \in {RtcMod - 1, 0, 1}
<1> DEFINE M == RtcMod
           k == NanosToTicks(t)
           c == CountAt(r, t)
           delta == (r.cmr - c) % M
           d == IF delta = 0 THEN 1 ELSE delta
           D == t + TicksToNanos(d)
           k2 == NanosToTicks(D)
           c2 == CountAt(r, D)
<1>1. M \in Nat \ {0} /\ r.base \in Int /\ r.cmr \in Int
  BY RtcAssumption DEF RtcType
<1>2. k \in Int BY TwoTruncations
<1>3. c = (r.base + k) % M /\ c2 = (r.base + k2) % M BY DEF CountAt
<1>4. Rearm(r, t) = IF ~r.armed \/ r.raw THEN Off ELSE D BY DEF Rearm
<1> HIDE DEF c
<1>5. c \in Int /\ \E p \in Int : r.base + k = p * M + c
  <2>1. r.base + k \in Int BY <1>1, <1>2
  <2> HIDE DEF k, M
  <2> QED BY <1>1, <1>3, <2>1, Quotient
<1>6. delta \in 0 .. M - 1 /\ \E q \in Int : r.cmr - c = q * M + delta
  <2>1. r.cmr - c \in Int BY <1>1, <1>5
  <2> HIDE DEF M
  <2> QED BY <1>1, <2>1, DivMod
<1> HIDE DEF delta
<1>7. d \in Nat \ {0} BY <1>1, <1>6
<1> HIDE DEF d
<1>8. D \in Nat /\ k2 \in Int /\ k2 - k \in {d - 1, d} BY <1>7, TwoTruncations
<1> HIDE DEF D
<1> HIDE DEF k, k2, c2
<1>10. c2 \in Int /\ \E p \in Int : r.base + k2 = p * M + c2
  <2>1. r.base + k2 \in Int BY <1>1, <1>8
  <2> HIDE DEF M
  <2> QED BY <1>1, <1>3, <2>1, Quotient
<1> DEFINE e == k2 - k - delta
<1>11. e \in {-1, 0, 1} BY <1>2, <1>6, <1>8, <1>1 DEF d
<1>12. \E x \in Int : c2 - r.cmr = e + x * M
  <2>1. PICK p \in Int : r.base + k = p * M + c BY <1>5
  <2>2. PICK q \in Int : r.cmr - c = q * M + delta BY <1>6
  <2>3. PICK p2 \in Int : r.base + k2 = p2 * M + c2 BY <1>10
  <2>4. c2 - r.cmr = e + (p - q - p2) * M
    <3> DEFINE a == p * M
               b == q * M
               a2 == p2 * M
    <3>1. a \in Int /\ b \in Int /\ a2 \in Int BY <1>1, SMT
    <3>2. (p - q - p2) * M = a - b - a2 BY <1>1, SMT
    <3>3. /\ r.base + k = a + c /\ r.cmr - c = b + delta
          /\ r.base + k2 = a2 + c2
      BY <2>1, <2>2, <2>3
    <3> HIDE DEF a, b, a2
    <3>4. /\ r.base \in Int /\ r.cmr \in Int /\ k \in Int /\ k2 \in Int
          /\ c \in Int /\ c2 \in Int /\ delta \in Int
      BY <1>1, <1>2, <1>5, <1>6, <1>8, <1>10
    <3>5. c2 - r.cmr = (k2 - k - delta) + (a - b - a2) BY <3>1, <3>3, <3>4, SMT
    <3> QED BY <3>2, <3>5
  <2> QED BY <2>4
<1>13. (c2 - r.cmr) % M = e % M
  <2>1. PICK x \in Int : c2 - r.cmr = e + x * M BY <1>12
  <2>2. e \in Int BY <1>11
  <2> HIDE DEF e, M
  <2> QED BY <1>1, <2>1, <2>2, ModShift, ZenonT(60)
<1>14. e % M \in {M - 1, 0, 1}
  <2> HIDE DEF e, M
  <2> QED BY <1>1, <1>11, SmallRemainder
<1>15. (c2 - r.cmr) % M \in {M - 1, 0, 1} BY <1>13, <1>14
<1> QED BY <1>4, <1>8, <1>15 DEF Off, c2

LEMMA RtcStep == RtcInv /\ (RtcNext \/ RtcReset) => RtcInv'
<1> SUFFICES ASSUME RtcInv, RtcNext \/ RtcReset PROVE RtcInv'
  OBVIOUS
<1>1. rtc \in RtcType /\ nanos \in Nat /\ deadline \in {Off} \cup Nat
  BY DEF RtcInv
<1>2. ASSUME NEW r \in RtcType, NEW t \in Nat,
             rtc' = r, nanos' = t, deadline' = Rearm(r, t)
      PROVE  RtcInv'
  BY <1>2, RearmedOnTime DEF RtcInv, AlarmOnTime
<1>3. CASE \E n \in 0..RtcMod - 1 : WriteCmr(n)
  <2>1. PICK n \in 0..RtcMod - 1 : WriteCmr(n) BY <1>3
  <2>2. [rtc EXCEPT !.cmr = n] \in RtcType BY <1>1 DEF RtcType
  <2> QED BY <1>1, <1>2, <2>1, <2>2 DEF WriteCmr, Programmed
<1>4. CASE \E n \in 0..RtcMod - 1 : WriteClr(n)
  <2>1. PICK n \in 0..RtcMod - 1 : WriteClr(n) BY <1>4
  <2>2. [rtc EXCEPT !.base = n] \in RtcType BY <1>1 DEF RtcType
  <2> QED BY <1>1, <1>2, <2>1, <2>2 DEF WriteClr
<1>5. CASE \E on \in BOOLEAN : WriteCcr(on)
  <2>1. PICK on \in BOOLEAN : WriteCcr(on) BY <1>5
  <2>2. [rtc EXCEPT !.armed = on] \in RtcType BY <1>1 DEF RtcType
  <2> QED BY <1>1, <1>2, <2>1, <2>2 DEF WriteCcr, Programmed
<1>6. CASE ReadEoi
  <2>1. [rtc EXCEPT !.raw = FALSE] \in RtcType BY <1>1 DEF RtcType
  <2> QED BY <1>1, <1>2, <1>6, <2>1 DEF ReadEoi, Programmed
<1>7. CASE Match
  <2>1. /\ rtc' \in RtcType /\ rtc'.raw = TRUE
        /\ deadline' = Off /\ nanos' = nanos
    BY <1>1, <1>7 DEF Match, RtcType
  <2> QED BY <1>1, <2>1 DEF RtcInv, AlarmOnTime
<1>8. CASE \E d \in Waits : Pass(d)
  <2>1. /\ UNCHANGED <<rtc, deadline>> /\ nanos' \in Nat
    BY <1>1, <1>8, RtcAssumption DEF Pass
  <2> QED BY <1>1, <2>1 DEF RtcInv, AlarmOnTime, CountAt
<1>9. CASE RtcReset
  <2>1. rtc' \in RtcType /\ rtc'.armed = FALSE
    BY <1>9, RtcAssumption DEF RtcReset, RtcAtReset, RtcType
  <2> QED BY <1>9, <2>1 DEF RtcReset, RtcInv, AlarmOnTime
<1> QED BY <1>3, <1>4, <1>5, <1>6, <1>7, <1>8, <1>9 DEF RtcNext

LEMMA RtcInvariant == Spec => []RtcInv
<1>1. Init => RtcInv
  BY RtcAssumption DEF Init, RtcInit, RtcAtReset, RtcInv, RtcType, AlarmOnTime
<1>2. RtcInv /\ UNCHANGED rtcVars => RtcInv'
  BY DEF rtcVars, RtcInv, AlarmOnTime, CountAt
<1>3. RtcInv /\ [Next]_boardVars => RtcInv'
  BY <1>2, RtcStep DEF Next, boardVars, PowerMoves, BusMoves, MediaMove,
     OthersMove, HostAsks, MachineReset, OthersStay
<1> QED BY <1>1, <1>3, PTL DEF Spec

(* The idle timer of the firmware expires within a tick of its match, of   *)
(* the 2^32 counts of the real counter as of eight (halo_rtc.c).           *)
THEOREM WokenOnTime == Spec => []AlarmOnTime
<1>1. RtcInv => AlarmOnTime BY DEF RtcInv
<1> QED BY <1>1, RtcInvariant, PTL

-----------------------------------------------------------------------------
(* The camera.                                                             *)
CamTypes ==
  /\ cam \in [start : BOOLEAN, busy : BOOLEAN, timer : BOOLEAN,
              intr : BOOLEAN, ena : BOOLEAN, format : BOOLEAN,
              addr : SUBSET Buffers]
  /\ shoot \in [at : {"off", "ready", "armed", "loaded", "wait", "halt"},
                buf : SUBSET Buffers]
  /\ DOMAIN frameAt = Buffers

(* Where the driver is says what the controller is doing.                  *)
CamInStep ==
  /\ shoot.at \in {"off", "ready", "armed", "loaded"} => ~cam.intr
  /\ shoot.at # "wait" => ~cam.busy /\ ~cam.timer
  /\ shoot.at \notin {"off"} => cam.format
  /\ shoot.at \notin {"off", "ready"} => cam.ena
  /\ shoot.at \in {"loaded", "wait"} =>
       cam.addr = shoot.buf /\ shoot.buf # {}
  /\ shoot.at = "wait" =>
       IF cam.intr THEN /\ ~cam.busy /\ ~cam.timer
                        /\ \A b \in shoot.buf : frameAt[b] # Stale
                   ELSE cam.busy /\ cam.timer

CamInv == CamTypes /\ CamInStep

LEMMA CamTick == CamInv /\ FrameTick => CamInv'
<1> SUFFICES ASSUME CamInv, FrameTick PROVE CamInv'
  OBVIOUS
<1>1. shoot.at = "wait" /\ cam.busy /\ cam.timer /\ ~cam.intr
  BY DEF CamInv, CamInStep, CamTypes, FrameTick
<1>2. cam.format /\ cam.addr = shoot.buf /\ shoot.buf # {}
      /\ cam.addr \subseteq Buffers /\ UNCHANGED shoot
  BY <1>1 DEF CamInv, CamInStep, CamTypes, FrameTick
<1>3. Deliver /\ cam' = [cam EXCEPT !.timer = FALSE, !.busy = FALSE,
                                    !.start = FALSE, !.intr = TRUE]
  BY <1>1 DEF FrameTick
<1>4. /\ DOMAIN frameAt' = Buffers
      /\ \A b \in shoot.buf : frameAt'[b] # Stale
  BY <1>2, <1>3 DEF Deliver, Stale
<1> QED BY <1>1, <1>2, <1>3, <1>4 DEF CamInv, CamInStep, CamTypes

LEMMA CamStep == CamInv /\ (CamNext \/ CamReset) => CamInv'
<1> SUFFICES ASSUME CamInv, CamNext \/ CamReset PROVE CamInv'
  OBVIOUS
<1> USE DEF CamInv, CamTypes, CamInStep
<1>1. CASE (\E file \in DOMAIN CamFiles : LoadSource(file)) \/ DropSource
  BY <1>1 DEF LoadSource, DropSource
<1>2. CASE CamSetFormat BY <1>2 DEF CamSetFormat, Shoots, WriteFormat
<1>3. CASE CamEnable BY <1>3 DEF CamEnable, Shoots, WriteEna
<1>4. CASE CamStart BY <1>4 DEF CamStart, Shoots, WriteCtrl
<1>5. CASE CamIsr BY <1>5 DEF CamIsr, CamIrq, Shoots, WriteIntr
<1>6. CASE CamHalt BY <1>6 DEF CamHalt, Shoots, WriteCtrl, CamStopped
<1>7. CASE CamFlush BY <1>7 DEF CamFlush, Shoots, SwReset, CamStopped
<1>8. CASE \E b \in Buffers : CamAddr(b)
  BY <1>8 DEF CamAddr, WriteFrameAddr
<1>9. CASE CamReset BY <1>9 DEF CamReset, CamAtReset
<1> QED BY <1>1, <1>2, <1>3, <1>4, <1>5, <1>6, <1>7, <1>8, <1>9, CamTick
        DEF CamNext

LEMMA CamInvariant == Spec => []CamInv
<1>1. Init => CamInv
  BY DEF Init, CamInit, CamAtReset, CamInv, CamTypes, CamInStep
<1>2. CamInv /\ UNCHANGED camVars => CamInv'
  BY DEF camVars, CamInv, CamTypes, CamInStep
<1>3. CamInv /\ [Next]_boardVars => CamInv'
  BY <1>2, CamStep DEF Next, boardVars, PowerMoves, BusMoves, MediaMove,
     OthersMove, HostAsks, MachineReset, MediaStay
<1> QED BY <1>1, <1>3, PTL DEF Spec

(* A frame that was asked for comes, into its buffer, for any number of    *)
(* buffers and files (halo_lpcam.c).                                       *)
THEOREM CameraDelivers == Spec => []FrameComes
<1>1. CamInv => FrameComes
  BY DEF CamInv, CamTypes, CamInStep, FrameComes, CamIrq
<1> QED BY <1>1, CamInvariant, PTL

-----------------------------------------------------------------------------
(* The display.                                                            *)
Lines1 == 1..PanelLines

ScanTypes ==
  /\ DOMAIN scan = {"busy", "lines", "shown"}
  /\ scan.busy \in BOOLEAN
  /\ scan.lines \in Seq(Nat) /\ scan.shown \in Seq(Nat)

DrawTypes ==
  /\ DOMAIN draw = {"at", "back", "frame", "y"}
  /\ draw.at \in {"off", "layer", "mask", "idle", "draw", "commit", "swapped"}
  /\ draw.back \in Fbs /\ draw.frame \in Nat /\ draw.y \in Nat

DispTypes ==
  /\ cdc \in [en : BOOLEAN, line : BOOLEAN, mask : BOOLEAN, layer : BOOLEAN,
              cfb : Fbs, timer : BOOLEAN]
  /\ fb \in [Fbs -> [Lines1 -> Nat]]
  /\ DrawTypes
  /\ ScanTypes

DrawInStep ==
  /\ draw.at \in {"mask", "idle", "draw", "commit", "swapped"} => cdc.mask
  /\ draw.at \in {"idle", "draw", "commit", "swapped"} => cdc.en /\ cdc.timer

(* The buffer that is shown holds one frame, and the driver's progress     *)
(* through the other.                                                      *)
FrontWhole ==
  /\ cdc.cfb = 1 - draw.back
  /\ \A y \in Lines1 : fb[cdc.cfb][y] = fb[cdc.cfb][1]
  /\ draw.at \notin {"draw", "commit"} =>
       fb[cdc.cfb][1] \in {draw.frame, Blank}
  /\ draw.at = "draw" => draw.y \in Lines1
  /\ \A y \in Lines1 :
       draw.at = "commit" \/ (draw.at = "draw" /\ y < draw.y)
         => fb[draw.back][y] = draw.frame

ScanWhole ==
  /\ scan.busy => /\ Len(scan.lines) <= PanelLines
                  /\ \A i \in 1..Len(scan.lines) :
                       scan.lines[i] = fb[cdc.cfb][i]
  /\ ~scan.busy => scan.lines = <<>>
  /\ \A i, j \in 1..Len(scan.shown) : scan.shown[i] = scan.shown[j]

DispInv == DispTypes /\ DrawInStep /\ FrontWhole /\ ScanWhole

LEMMA BlankLines == [y \in Lines1 |-> Blank] \in Seq(Nat) \cap [Lines1 -> Nat]
BY DispAssumption DEF Lines1, Blank

LEMMA ScanSteps == DispInv /\ (ScanStart \/ ScanLine \/ ScanEnd) => DispInv'
<1> SUFFICES ASSUME DispInv, ScanStart \/ ScanLine \/ ScanEnd PROVE DispInv'
  OBVIOUS
<1>1. UNCHANGED <<cdc, fb, draw>> BY DEF ScanStart, ScanLine, ScanEnd
<1>2. DrawInStep' /\ FrontWhole' BY <1>1 DEF DispInv, DrawInStep, FrontWhole
<1>3. DispTypes /\ ScanWhole /\ FrontWhole BY DEF DispInv
<1>4. ScanTypes' /\ ScanWhole'
  <2>1. CASE ScanStart
    <3>1. CASE scan' = [scan EXCEPT !.busy = TRUE, !.lines = <<>>]
      BY <1>1, <1>3, <3>1, DispAssumption DEF DispTypes, ScanTypes, ScanWhole
    <3>2. CASE scan' = [scan EXCEPT !.shown = [y \in Lines1 |-> Blank]]
      <4> DEFINE z == [y \in Lines1 |-> Blank]
      <4>1. z \in Seq(Nat) BY BlankLines
      <4>2. \A i, j \in 1..Len(z) : z[i] = z[j]
        BY <4>1, DispAssumption DEF Lines1
      <4> HIDE DEF z
      <4>3. scan' = [scan EXCEPT !.shown = z] BY <3>2 DEF z
      <4>4. ~scan.busy BY <2>1 DEF ScanStart
      <4>5. /\ DOMAIN scan' = {"busy", "lines", "shown"}
            /\ scan'.busy = scan.busy /\ scan'.lines = scan.lines
            /\ scan'.shown = z
        BY <1>3, <4>3 DEF DispTypes, ScanTypes
      <4> QED BY <1>1, <1>3, <4>1, <4>2, <4>4, <4>5
              DEF DispTypes, ScanTypes, ScanWhole
    <3> QED BY <2>1, <3>1, <3>2 DEF ScanStart, Lines1
  <2>2. CASE ScanLine
    <3> DEFINE n == Len(scan.lines) + 1
               x == fb[cdc.cfb][n]
    <3>1. n \in Lines1 /\ x \in Nat
      <4>1. n \in Lines1
        BY <1>3, <2>2, DispAssumption DEF ScanLine, DispTypes, Lines1
      <4> HIDE DEF n
      <4> QED BY <1>3, <4>1 DEF DispTypes, ScanTypes
    <3>2. /\ scan' = [scan EXCEPT !.lines = Append(@, x)]
          /\ scan.busy
      BY <2>2 DEF ScanLine
    <3>3. n <= PanelLines BY <3>1, DispAssumption DEF Lines1
    <3>4. /\ scan'.busy /\ scan'.lines = Append(scan.lines, x)
          /\ scan'.shown = scan.shown
          /\ ScanTypes'
      <4> HIDE DEF x
      <4>1. x \in Nat BY <3>1
      <4>2. /\ DOMAIN scan' = {"busy", "lines", "shown"}
            /\ scan'.busy = scan.busy /\ scan'.shown = scan.shown
            /\ scan'.lines = Append(scan.lines, x)
        BY <1>3, <3>2 DEF DispTypes, ScanTypes
      <4>3. Append(scan.lines, x) \in Seq(Nat)
        BY <1>3, <4>1 DEF DispTypes, ScanTypes
      <4> QED BY <1>3, <3>2, <4>2, <4>3 DEF DispTypes, ScanTypes
    <3>5. \A i \in 1..Len(Append(scan.lines, x)) :
            Append(scan.lines, x)[i] = fb[cdc.cfb][i]
      <4> DEFINE l == scan.lines
      <4>1. l \in Seq(Nat) /\ \A i \in 1..Len(l) : l[i] = fb[cdc.cfb][i]
        BY <1>3, <3>2 DEF DispTypes, ScanTypes, ScanWhole
      <4>2. x = fb[cdc.cfb][Len(l) + 1] OBVIOUS
      <4> HIDE DEF l, x
      <4>3. \A i \in 1..Len(Append(l, x)) : Append(l, x)[i] = fb[cdc.cfb][i]
        BY <3>1, <4>1, <4>2
      <4> QED BY <4>3 DEF l
    <3>6. Len(Append(scan.lines, x)) = n
      <4> HIDE DEF x
      <4> QED BY <1>3, <3>1 DEF DispTypes, ScanTypes
    <3> HIDE DEF x
    <3> QED BY <1>1, <1>3, <3>3, <3>4, <3>5, <3>6 DEF ScanWhole
  <2>3. CASE ScanEnd
    <3>1. /\ scan' = [busy |-> FALSE, lines |-> <<>>, shown |-> scan.lines]
          /\ scan.busy /\ Len(scan.lines) = PanelLines
      BY <2>3 DEF ScanEnd
    <3>2. \A i \in 1..Len(scan.lines) : scan.lines[i] = fb[cdc.cfb][1]
      BY <1>3, <3>1 DEF ScanWhole, FrontWhole, Lines1
    <3> QED BY <1>3, <3>1, <3>2 DEF DispTypes, ScanTypes, ScanWhole
  <2> QED BY <2>1, <2>2, <2>3
<1> QED BY <1>1, <1>2, <1>3, <1>4 DEF DispInv, DispTypes, DrawTypes

(* The register writes of the driver and the tick, between scanouts.       *)
LEMMA CdcSteps ==
  /\ DispInv
  /\ LineTick \/ CdcSetUp \/ CdcUnmask \/ CdcOn \/ CdcOff \/ SwapDone \/ LineIsr
  => DispInv'
<1> SUFFICES ASSUME DispInv,
                    LineTick \/ CdcSetUp \/ CdcUnmask \/ CdcOn \/ CdcOff
                      \/ SwapDone \/ LineIsr
             PROVE  DispInv'
  OBVIOUS
<1> USE DEF DispInv, DispTypes, DrawTypes
<1>1. UNCHANGED <<fb, scan>>
  BY DEF LineTick, CdcSetUp, CdcUnmask, CdcOn, CdcOff, SwapDone, LineIsr, Draws,
     WriteLayer, WriteIrqMask, WriteGlbCtrl, WriteIrqClear, CdcWrite
<1>2. /\ cdc' \in [en : BOOLEAN, line : BOOLEAN, mask : BOOLEAN,
                   layer : BOOLEAN, cfb : Fbs, timer : BOOLEAN]
      /\ cdc'.cfb = cdc.cfb
  BY DEF LineTick, CdcSetUp, CdcUnmask, CdcOn, CdcOff, SwapDone, LineIsr, Draws,
     WriteLayer, WriteIrqMask, WriteGlbCtrl, WriteIrqClear, CdcWrite
<1>6. /\ DrawTypes'
      /\ draw'.back = draw.back /\ draw'.frame = draw.frame
      /\ draw'.y = draw.y
      /\ \/ draw'.at = draw.at
         \/ /\ draw'.at \in {"layer", "mask", "idle"}
            /\ draw.at \notin {"draw", "commit"}
  <2>1. CASE LineTick \/ LineIsr BY <2>1 DEF LineTick, LineIsr
  <2>2. CASE CdcSetUp \/ CdcUnmask \/ CdcOn \/ CdcOff \/ SwapDone
    <3>1. \E from \in {"off", "layer", "mask", "idle", "swapped"},
             to \in {"layer", "mask", "idle"} : Draws(from, to)
      BY <2>2 DEF CdcSetUp, CdcUnmask, CdcOn, CdcOff, SwapDone
    <3> QED BY <3>1 DEF Draws
  <2> QED BY <2>1, <2>2
<1>3. DrawInStep'
  BY DEF LineTick, CdcSetUp, CdcUnmask, CdcOn, CdcOff, SwapDone, LineIsr, Draws,
     WriteLayer, WriteIrqMask, WriteGlbCtrl, WriteIrqClear, CdcWrite, DrawInStep
<1>4. FrontWhole' BY <1>1, <1>2, <1>6 DEF FrontWhole
<1>5. ScanWhole' /\ ScanTypes' BY <1>1, <1>2 DEF ScanWhole, ScanTypes
<1> QED BY <1>1, <1>2, <1>3, <1>4, <1>5, <1>6

LEMMA DrawSteps == DispInv /\ (DrawFrame \/ DrawLine) => DispInv'
<1> SUFFICES ASSUME DispInv, DrawFrame \/ DrawLine PROVE DispInv'
  OBVIOUS
<1>1. UNCHANGED <<cdc, scan>> BY DEF DrawFrame, DrawLine
<1>2. cdc.cfb = 1 - draw.back /\ draw.back \in Fbs /\ cdc.cfb \in Fbs
      /\ draw.back # cdc.cfb /\ PanelLines \in Nat \ {0}
  BY DispAssumption DEF DispInv, DispTypes, DrawTypes, FrontWhole, Fbs
<1>3. CASE DrawFrame
  <2>1. UNCHANGED fb BY <1>3 DEF DrawFrame
  <2>2. /\ DrawTypes'
        /\ draw.at = "idle" /\ draw'.at = "draw" /\ draw'.y = 1
        /\ draw'.back = draw.back
    BY <1>3 DEF DrawFrame, DispInv, DispTypes, DrawTypes
  <2>3. FrontWhole'
    BY <1>1, <1>2, <2>1, <2>2 DEF DispInv, FrontWhole, Lines1
  <2>4. DrawInStep' /\ ScanWhole' /\ ScanTypes'
    BY <1>1, <2>1, <2>2 DEF DispInv, DispTypes, DrawInStep, ScanWhole,
       ScanTypes
  <2> QED BY <1>1, <2>1, <2>2, <2>3, <2>4 DEF DispInv, DispTypes
<1>4. CASE DrawLine
  <2>1. /\ DrawTypes'
        /\ draw.at = "draw" /\ draw'.y = draw.y + 1
        /\ draw'.at = IF draw.y = PanelLines THEN "commit" ELSE "draw"
        /\ draw'.back = draw.back /\ draw'.frame = draw.frame
    BY <1>4 DEF DrawLine, DispInv, DispTypes, DrawTypes
  <2>2. draw.y \in Lines1 BY <2>1 DEF DispInv, FrontWhole
  <2>3. fb' = [fb EXCEPT ![draw.back][draw.y] = draw.frame]
    BY <1>4 DEF DrawLine
  <2>4. /\ fb' \in [Fbs -> [Lines1 -> Nat]]
        /\ fb'[cdc.cfb] = fb[cdc.cfb]
        /\ \A y \in Lines1 : fb'[draw.back][y] =
             IF y = draw.y THEN draw.frame ELSE fb[draw.back][y]
    BY <1>2, <2>2, <2>3 DEF DispInv, DispTypes, DrawTypes
  <2>5. FrontWhole'
    <3>1. draw'.at = "draw" => draw'.y \in Lines1
      BY <1>2, <2>1, <2>2 DEF Lines1
    <3>2. \A y \in Lines1 :
            draw'.at = "commit" \/ (draw'.at = "draw" /\ y < draw'.y)
              => y = draw.y \/ y < draw.y
      BY <1>2, <2>1, <2>2 DEF Lines1
    <3>3. \A y \in Lines1 :
            draw'.at = "commit" \/ (draw'.at = "draw" /\ y < draw'.y)
              => fb'[draw'.back][y] = draw'.frame
      BY <2>1, <2>4, <3>2 DEF DispInv, FrontWhole
    <3> QED BY <1>1, <1>2, <2>1, <2>4, <3>1, <3>3 DEF DispInv, FrontWhole
  <2>6. DrawInStep' /\ ScanWhole' /\ ScanTypes'
    BY <1>1, <2>1, <2>4 DEF DispInv, DispTypes, DrawInStep, ScanWhole,
       ScanTypes
  <2> QED BY <1>1, <2>1, <2>4, <2>5, <2>6 DEF DispInv, DispTypes
<1> QED BY <1>3, <1>4

LEMMA SwapStep == DispInv /\ SwapFb => DispInv'
<1> SUFFICES ASSUME DispInv, SwapFb PROVE DispInv'
  OBVIOUS
<1>1. /\ ~scan.busy /\ UNCHANGED <<fb, scan>> /\ draw.at = "commit"
      /\ cdc' = [cdc EXCEPT !.cfb = draw.back]
      /\ draw' = [draw EXCEPT !.at = "swapped", !.back = 1 - @]
  BY DEF SwapFb, WriteCfb, CdcWrite
<1>2. /\ cdc' \in [en : BOOLEAN, line : BOOLEAN, mask : BOOLEAN,
                   layer : BOOLEAN, cfb : Fbs, timer : BOOLEAN]
      /\ cdc'.cfb = draw.back /\ cdc'.en = cdc.en /\ cdc'.mask = cdc.mask
      /\ cdc'.timer = cdc.timer
  BY <1>1 DEF DispInv, DispTypes, DrawTypes
<1>3. /\ DrawTypes'
      /\ draw'.at = "swapped" /\ draw'.back = 1 - draw.back
      /\ draw'.frame = draw.frame /\ draw.back = 1 - draw'.back
  BY <1>1 DEF DispInv, DispTypes, DrawTypes, Fbs
<1>4. DrawInStep' BY <1>1, <1>2, <1>3 DEF DispInv, DrawInStep
<1>5. 1 \in Lines1 BY DispAssumption DEF Lines1
<1>6. \A y \in Lines1 : fb[draw.back][y] = draw.frame
  BY <1>1 DEF DispInv, FrontWhole
<1>7. FrontWhole' BY <1>1, <1>2, <1>3, <1>5, <1>6 DEF FrontWhole
<1>8. ScanWhole' /\ ScanTypes'
  BY <1>1 DEF DispInv, DispTypes, ScanWhole, ScanTypes
<1> QED BY <1>1, <1>2, <1>3, <1>4, <1>7, <1>8 DEF DispInv, DispTypes

LEMMA BlankBoth ==
  ASSUME fb' = [b \in Fbs |-> [y \in 1..PanelLines |-> Blank]]
  PROVE  fb' \in [Fbs -> [Lines1 -> Nat]]
         /\ \A b \in Fbs, y \in Lines1 : fb'[b][y] = Blank
BY DEF Lines1, Blank

LEMMA DispResetStep == DispInv /\ DispReset => DispInv'
<1> SUFFICES ASSUME DispInv, DispReset PROVE DispInv'
  OBVIOUS
<1>1. /\ fb' = [b \in Fbs |-> [y \in 1..PanelLines |-> Blank]]
      /\ ~scan.busy /\ UNCHANGED scan
      /\ cdc' = CdcAtReset
      /\ draw' = [at |-> "off", back |-> 1, frame |-> draw.frame, y |-> 0]
  BY DEF DispReset
<1>2. fb' \in [Fbs -> [Lines1 -> Nat]]
      /\ \A b \in Fbs, y \in Lines1 : fb'[b][y] = Blank
  BY <1>1, BlankBoth
<1>3. DrawTypes' /\ draw'.at = "off" /\ draw'.back = 1
  BY <1>1 DEF DispInv, DispTypes, DrawTypes, Fbs
<1>4. /\ cdc' \in [en : BOOLEAN, line : BOOLEAN, mask : BOOLEAN,
                   layer : BOOLEAN, cfb : Fbs, timer : BOOLEAN]
      /\ cdc'.cfb = 0
  BY <1>1 DEF CdcAtReset, Fbs
<1>5. 1 \in Lines1 BY DispAssumption DEF Lines1
<1>6. FrontWhole' BY <1>2, <1>3, <1>4, <1>5 DEF FrontWhole, Fbs
<1>7. DrawInStep' BY <1>3 DEF DrawInStep
<1>8. ScanWhole' /\ ScanTypes'
  BY <1>1 DEF DispInv, DispTypes, ScanWhole, ScanTypes
<1> QED BY <1>2, <1>3, <1>4, <1>6, <1>7, <1>8 DEF DispInv, DispTypes

LEMMA DispInitial == DispInit => DispInv
<1> SUFFICES ASSUME DispInit PROVE DispInv
  OBVIOUS
<1>1. /\ fb \in [Fbs -> [Lines1 -> Nat]]
      /\ \A b \in Fbs, y \in Lines1 : fb[b][y] = Blank
  BY DEF DispInit, Lines1, Blank
<1>2. DrawTypes /\ draw.at = "off" /\ draw.back = 1
  BY DEF DispInit, DrawTypes, Fbs
<1>3. /\ cdc \in [en : BOOLEAN, line : BOOLEAN, mask : BOOLEAN,
                  layer : BOOLEAN, cfb : Fbs, timer : BOOLEAN]
      /\ cdc.cfb = 0
  BY DEF DispInit, CdcAtReset, Fbs
<1>4. 1 \in Lines1 BY DispAssumption DEF Lines1
<1>5. FrontWhole BY <1>1, <1>2, <1>3, <1>4 DEF FrontWhole, Fbs
<1>6. ScanTypes /\ ScanWhole BY DEF DispInit, ScanTypes, ScanWhole
<1> QED BY <1>1, <1>2, <1>3, <1>5, <1>6 DEF DispInv, DispTypes, DrawInStep

LEMMA DispInvariant == Spec => []DispInv
<1>1. Init => DispInv BY DispInitial DEF Init
<1>2. DispInv /\ UNCHANGED dispVars => DispInv'
  BY DEF dispVars, DispInv, DispTypes, DrawTypes, ScanTypes, DrawInStep,
     FrontWhole, ScanWhole
<1>3. DispInv /\ (DispNext \/ DispReset) => DispInv'
  BY ScanSteps, CdcSteps, DrawSteps, SwapStep, DispResetStep DEF DispNext
<1>4. DispInv /\ [Next]_boardVars => DispInv'
  BY <1>2, <1>3 DEF Next, boardVars, PowerMoves, BusMoves, MediaMove,
     OthersMove, HostAsks, MachineReset, MediaStay
<1> QED BY <1>1, <1>4, PTL DEF Spec

(* What is scanned out is one frame, of a panel of any height, and the one *)
(* that was committed last (halo_cdc200.c).                                *)
THEOREM FramesShownWhole == Spec => []ScanIntact
<1>1. DispInv => ScanIntact
  <2> SUFFICES ASSUME DispInv PROVE ScanIntact
    OBVIOUS
  <2>1. draw.at \in {"idle", "swapped"} =>
          fb[cdc.cfb][1] \in {draw.frame, Blank}
    BY DEF DispInv, FrontWhole
  <2>4. ASSUME NEW l \in Seq(Nat) PROVE DOMAIN l = 1..Len(l)
    OBVIOUS
  <2>5. /\ DOMAIN scan.shown = 1..Len(scan.shown)
        /\ DOMAIN scan.lines = 1..Len(scan.lines)
    BY <2>4 DEF DispInv, DispTypes, ScanTypes
  <2>2. \A i, j \in DOMAIN scan.shown : scan.shown[i] = scan.shown[j]
    BY <2>5 DEF DispInv, ScanWhole
  <2>3. \A i \in DOMAIN scan.lines : scan.lines[i] = fb[cdc.cfb][1]
    <3>1. CASE ~scan.busy
      <4>1. Len(scan.lines) = 0 BY <3>1 DEF DispInv, ScanWhole
      <4> QED BY <2>5, <4>1
    <3>2. CASE scan.busy
      <4>1. ASSUME NEW i \in 1..Len(scan.lines)
            PROVE  scan.lines[i] = fb[cdc.cfb][1]
        <5>1. i \in Lines1 /\ scan.lines[i] = fb[cdc.cfb][i]
          BY <3>2, DispAssumption
          DEF DispInv, DispTypes, ScanTypes, ScanWhole, Lines1
        <5> QED BY <5>1 DEF DispInv, FrontWhole
      <4> QED BY <2>5, <4>1
    <3> QED BY <3>1, <3>2
  <2> QED BY <2>1, <2>2, <2>3 DEF ScanIntact
<1> QED BY <1>1, DispInvariant, PTL

(* The tick that a commit waits for is pending (halo_cdc200.c).            *)
THEOREM CommitsCarriedOut == Spec => []CommitComes
<1>1. DispInv => CommitComes BY DEF DispInv, DrawInStep, CommitComes
<1> QED BY <1>1, DispInvariant, PTL

-----------------------------------------------------------------------------
(* The speaker.                                                            *)
I2sFields == {"en", "masked", "fifo", "started", "over", "pending", "frac",
              "rate", "ckdiv"}

SpkTypes ==
  /\ DOMAIN i2s = I2sFields /\ i2s.fifo \in Seq(Nat)
  /\ i2s.pending \in BOOLEAN
  /\ DOMAIN spk = {"at", "next", "left"}
  /\ spk.at \in {"off", "enabled", "unmasked", "on", "isr", "ending"}
  /\ spk.next \in Nat /\ spk.left \in Nat

(* Where the driver is says what the controller is doing.                  *)
SpkInStep ==
  /\ spk.at # "off" /\ spk.at # "ending" => i2s.en
  /\ spk.at \in {"on", "isr", "unmasked"} => ~i2s.masked /\ i2s.pending
  /\ spk.at \in {"off", "enabled"} => ~i2s.pending
  /\ spk.at \in {"off", "enabled", "ending"} => i2s.masked
  /\ spk.at \in {"off", "enabled", "unmasked"} =>
       i2s.fifo = <<>> /\ ~i2s.started
  /\ spk.at = "isr" => /\ spk.left \in 1..TxDepth - TxTrigger
                       /\ Len(i2s.fifo) + spk.left <= TxDepth
  /\ ~i2s.over

SpkInv == SpkTypes /\ SpkInStep

(* What an access leaves in the registers.                                 *)
LEMMA Updated1 ==
  ASSUME NEW s, NEW w, NEW p, DOMAIN s = I2sFields, s.pending \in BOOLEAN,
         Update(s, w, p)
  PROVE  /\ DOMAIN i2s' = I2sFields
         /\ i2s'.en = s.en /\ i2s'.masked = s.masked /\ i2s'.fifo = s.fifo
         /\ i2s'.over = s.over /\ i2s'.pending \in BOOLEAN
         /\ Active(s) => i2s'.pending /\ i2s'.started = s.started
         /\ ~Active(s) => ~i2s'.pending /\ ~i2s'.started
<1>1. CASE ~Active(s)
  <2>1. i2s' = [s EXCEPT !.pending = FALSE, !.started = FALSE]
    BY <1>1 DEF Update
  <2> QED BY <1>1, <2>1 DEF I2sFields
<1>2. CASE Active(s) /\ s.pending
  <2>1. i2s' = s BY <1>2 DEF Update
  <2> QED BY <1>2, <2>1
<1>3. CASE Active(s) /\ ~s.pending
  <2>1. i2s' = [s EXCEPT !.pending = TRUE, !.frac = 0, !.rate = s.ckdiv]
    BY <1>3 DEF Update
  <2> QED BY <1>3, <2>1 DEF I2sFields
<1> QED BY <1>1, <1>2, <1>3

LEMMA SpkDriver ==
  /\ SpkInv
  /\ \/ \E rate \in PlayRates : SpkEnable(rate)
     \/ SpkUnmask \/ SpkRunning \/ SpkIsr \/ SpkEnd \/ SpkDrop \/ SpkDisable
  => SpkInv'
<1> SUFFICES ASSUME SpkInv,
                    \/ \E rate \in PlayRates : SpkEnable(rate)
                    \/ SpkUnmask \/ SpkRunning \/ SpkIsr \/ SpkEnd \/ SpkDrop
                    \/ SpkDisable
             PROVE  SpkInv'
  OBVIOUS
<1>0. DOMAIN i2s = I2sFields /\ i2s.pending \in BOOLEAN
  BY DEF SpkInv, SpkTypes
<1> USE DEF SpkInv, SpkTypes, SpkInStep, Drives, WriteI2s
<1>1. CASE \E rate \in PlayRates : SpkEnable(rate)
  <2>1. PICK rate \in PlayRates : SpkEnable(rate) BY <1>1
  <2> DEFINE s == [i2s EXCEPT !.en = TRUE, !.ckdiv = rate]
  <2>2. /\ DOMAIN s = I2sFields /\ s.pending = i2s.pending /\ s.en = TRUE
        /\ s.masked = i2s.masked /\ s.fifo = i2s.fifo /\ s.over = i2s.over
    BY <1>0 DEF I2sFields
  <2>3. /\ Update(s, wav, played) /\ spk.at = "off"
        /\ spk' = [spk EXCEPT !.at = "enabled"]
    BY <2>1 DEF SpkEnable
  <2> HIDE DEF s
  <2>4. ~Active(s) BY <2>2, <2>3 DEF Active
  <2> QED BY <1>0, <2>2, <2>3, <2>4, Updated1
<1>2. CASE SpkUnmask
  <2> DEFINE s == [i2s EXCEPT !.masked = FALSE]
  <2>2. /\ DOMAIN s = I2sFields /\ s.pending = i2s.pending /\ s.en = i2s.en
        /\ s.masked = FALSE /\ s.fifo = i2s.fifo /\ s.over = i2s.over
        /\ s.started = i2s.started
    BY <1>0 DEF I2sFields
  <2>3. /\ Update(s, wav, played) /\ spk.at = "enabled"
        /\ spk' = [spk EXCEPT !.at = "unmasked"]
    BY <1>2 DEF SpkUnmask
  <2> HIDE DEF s
  <2>4. Active(s) BY <2>2, <2>3 DEF Active
  <2> QED BY <1>0, <2>2, <2>3, <2>4, Updated1
<1>3. CASE SpkRunning BY <1>3 DEF SpkRunning
<1>4. CASE SpkIsr
  BY <1>4, SpkAssumption DEF SpkIsr, I2sIrq, TxFe
<1>5. CASE SpkEnd
  <2> DEFINE s == [i2s EXCEPT !.masked = TRUE]
  <2>2. /\ DOMAIN s = I2sFields /\ s.pending = i2s.pending
        /\ s.masked = TRUE /\ s.fifo = i2s.fifo /\ s.over = i2s.over
    BY <1>0 DEF I2sFields
  <2>3. /\ Update(s, wav, played) /\ spk' = [spk EXCEPT !.at = "ending"]
    BY <1>5 DEF SpkEnd
  <2> HIDE DEF s
  <2> QED BY <1>0, <2>2, <2>3, Updated1
<1>6. CASE SpkDrop
  <2> DEFINE s == [i2s EXCEPT !.fifo = <<>>]
  <2>2. /\ DOMAIN s = I2sFields /\ s.pending = i2s.pending
        /\ s.masked = i2s.masked /\ s.fifo = <<>> /\ s.over = i2s.over
    BY <1>0 DEF I2sFields
  <2>3. spk.at = "ending" /\ UNCHANGED spk /\ \E p : Update(s, wav, p)
    BY <1>6 DEF SpkDrop, FlushTx
  <2> HIDE DEF s
  <2>4. PICK p : Update(s, wav, p) BY <2>3
  <2>5. /\ DOMAIN i2s' = I2sFields /\ i2s'.pending \in BOOLEAN
        /\ i2s'.masked = i2s.masked /\ i2s'.fifo = <<>>
        /\ i2s'.over = i2s.over
    BY <1>0, <2>2, <2>4, Updated1
  <2> QED BY <2>3, <2>5
<1>7. CASE SpkDisable
  <2> DEFINE s == [i2s EXCEPT !.en = FALSE]
  <2>2. /\ DOMAIN s = I2sFields /\ s.pending = i2s.pending /\ s.en = FALSE
        /\ s.masked = i2s.masked /\ s.fifo = i2s.fifo /\ s.over = i2s.over
    BY <1>0 DEF I2sFields
  <2>3. /\ Update(s, wav, played) /\ i2s.fifo = <<>> /\ spk.at = "ending"
        /\ spk' = [spk EXCEPT !.at = "off"]
    BY <1>7 DEF SpkDisable
  <2> HIDE DEF s
  <2>4. ~Active(s) BY <2>2 DEF Active
  <2> QED BY <1>0, <2>2, <2>3, <2>4, Updated1
<1> QED BY <1>1, <1>2, <1>3, <1>4, <1>5, <1>6, <1>7

LEMMA SpkPushStep == SpkInv /\ SpkPush => SpkInv'
<1> SUFFICES ASSUME SpkInv, SpkPush PROVE SpkInv'
  OBVIOUS
<1> USE DEF SpkInv, SpkTypes, SpkInStep
<1>1. /\ spk.at = "isr" /\ spk.left \in 1..TxDepth - TxTrigger
      /\ Len(i2s.fifo) + spk.left <= TxDepth /\ i2s.en /\ ~i2s.masked
      /\ Len(i2s.fifo) < TxDepth /\ Push(spk.next)
  BY SpkAssumption DEF SpkPush
<1>2. /\ DOMAIN spk' = {"at", "next", "left"}
      /\ spk'.next = spk.next + 1 /\ spk'.left = spk.left - 1
      /\ spk'.at = IF spk.left = 1 THEN "on" ELSE "isr"
  BY DEF SpkPush
<1> DEFINE s == [i2s EXCEPT !.fifo = Append(@, spk.next)]
<1>3. /\ DOMAIN s = I2sFields /\ s.pending = i2s.pending /\ s.en = i2s.en
      /\ s.masked = i2s.masked /\ s.fifo = Append(i2s.fifo, spk.next)
      /\ s.over = i2s.over
  BY DEF I2sFields
<1>4. \E p : Update(s, wav, p)
  BY <1>1, SpkAssumption DEF Push
<1> HIDE DEF s
<1>5. PICK p : Update(s, wav, p) BY <1>4
<1>6. Active(s) BY <1>1, <1>3 DEF Active
<1>7. /\ DOMAIN i2s' = I2sFields /\ i2s'.pending \in BOOLEAN
      /\ i2s'.en = i2s.en /\ i2s'.masked = i2s.masked
      /\ i2s'.fifo = Append(i2s.fifo, spk.next) /\ i2s'.over = i2s.over
      /\ i2s'.pending
  BY <1>3, <1>5, <1>6, Updated1
<1>8. /\ Append(i2s.fifo, spk.next) \in Seq(Nat)
      /\ Len(Append(i2s.fifo, spk.next)) = Len(i2s.fifo) + 1
  OBVIOUS
<1>9. spk'.left = 0 \/ spk'.left \in 1..TxDepth - TxTrigger
  BY <1>1, <1>2, SpkAssumption
<1>10. Len(i2s'.fifo) + spk'.left <= TxDepth
  BY <1>1, <1>2, <1>7, <1>8, SpkAssumption
<1> QED BY <1>1, <1>2, <1>7, <1>8, <1>9, <1>10

LEMMA DrainStep == SpkInv /\ Drain => SpkInv'
<1> SUFFICES ASSUME SpkInv, Drain PROVE SpkInv'
  OBVIOUS
<1> USE DEF SpkInv, SpkTypes, SpkInStep
<1>1. /\ i2s.pending /\ UNCHANGED spk
      /\ spk.at \in {"on", "isr", "ending"}
  BY DEF Drain, Drain1
<1> DEFINE n == IF Len(i2s.fifo) < TxTrigger THEN Len(i2s.fifo) ELSE TxTrigger
           rest == SubSeq(i2s.fifo, n + 1, Len(i2s.fifo))
           s == [i2s EXCEPT !.started = TRUE, !.rate = i2s.ckdiv,
                            !.fifo = SubSeq(@, n + 1, Len(@))]
<1>2. rest \in Seq(Nat) /\ Len(rest) \in Nat /\ Len(rest) <= Len(i2s.fifo)
  <2>1. n \in 0..Len(i2s.fifo) /\ Len(i2s.fifo) \in Nat
    BY SpkAssumption
  <2> HIDE DEF n
  <2>2. \A i \in n + 1..Len(i2s.fifo) : i2s.fifo[i] \in Nat
    BY <2>1
  <2>3. rest \in Seq(Nat) BY <2>1, <2>2, SubSeqProperties
  <2>4. Len(rest) = IF n + 1 <= Len(i2s.fifo)
                    THEN Len(i2s.fifo) - (n + 1) + 1 ELSE 0
    BY <2>1, <2>2, SubSeqProperties
  <2> HIDE DEF rest
  <2> QED BY <2>1, <2>3, <2>4
<1>3. /\ DOMAIN s = I2sFields /\ s.pending = i2s.pending /\ s.en = i2s.en
      /\ s.masked = i2s.masked /\ s.fifo = rest /\ s.over = i2s.over
  <2> HIDE DEF n
  <2> QED BY DEF I2sFields
<1>4. \E frac, w, p : \/ Update(s, w, p)
                      \/ Update([s EXCEPT !.frac = frac], w, p)
  <2> DEFINE up == Upsampled(SubSeq(i2s.fifo, 1, n), i2s.frac, i2s.ckdiv)
  <2>1. CASE n = 0
    <3>1. Update(s, wav, played) BY <2>1 DEF Drain, Drain1
    <3> QED BY <3>1
  <2>2. CASE n # 0
    <3>1. \E w \in OpenWav(wav) :
            Update(IF w.open THEN [s EXCEPT !.frac = up.frac] ELSE s,
                   IF w.open THEN Written(w, up.out) ELSE w,
                   [played EXCEPT !.popped = @ + n,
                                  !.frames = @ + Len(up.out)])
      BY <2>2 DEF Drain, Drain1
    <3> HIDE DEF s, up
    <3> QED BY <3>1
  <2> QED BY <2>1, <2>2
<1> HIDE DEF rest, s
<1>5. PICK frac, w, p : \/ Update(s, w, p)
                       \/ Update([s EXCEPT !.frac = frac], w, p)
  BY <1>4
<1>6. \E z : /\ Update(z, w, p)
            /\ DOMAIN z = I2sFields /\ z.pending = i2s.pending
            /\ z.en = i2s.en /\ z.masked = i2s.masked /\ z.fifo = rest
            /\ z.over = i2s.over
  <2>1. CASE Update(s, w, p) BY <1>3, <2>1
  <2> DEFINE z == [s EXCEPT !.frac = frac]
  <2>2. /\ DOMAIN z = I2sFields /\ z.pending = i2s.pending
        /\ z.en = i2s.en /\ z.masked = i2s.masked /\ z.fifo = rest
        /\ z.over = i2s.over
    BY <1>3 DEF I2sFields
  <2>3. CASE Update(z, w, p)
    <3> HIDE DEF z
    <3> QED BY <2>2, <2>3
  <2> QED BY <1>5, <2>1, <2>3
<1>7. PICK z : /\ Update(z, w, p)
               /\ DOMAIN z = I2sFields /\ z.pending = i2s.pending
               /\ z.en = i2s.en /\ z.masked = i2s.masked /\ z.fifo = rest
               /\ z.over = i2s.over
  BY <1>6
<1>8. spk.at # "ending" => Active(z) BY <1>1, <1>7 DEF Active
<1>9. /\ DOMAIN i2s' = I2sFields /\ i2s'.pending \in BOOLEAN
      /\ i2s'.en = i2s.en /\ i2s'.masked = i2s.masked
      /\ i2s'.fifo = rest /\ i2s'.over = i2s.over
      /\ spk.at # "ending" => i2s'.pending
  BY <1>7, <1>8, Updated1
<1>10. spk.at = "isr" => Len(rest) + spk.left <= TxDepth
  BY <1>2, SpkAssumption
<1> QED BY <1>1, <1>2, <1>9, <1>10

LEMMA SpkResetStep == SpkInv /\ SpkReset => SpkInv'
<1> SUFFICES ASSUME SpkInv, SpkReset PROVE SpkInv'
  OBVIOUS
<1>1. /\ DOMAIN i2s' = I2sFields /\ i2s'.fifo = <<>> /\ i2s'.masked
      /\ ~i2s'.started /\ ~i2s'.over /\ i2s'.pending = FALSE
  BY DEF SpkReset, I2sAtReset, I2sFields
<1>2. /\ DOMAIN spk' = {"at", "next", "left"} /\ spk'.at = "off"
      /\ spk'.next = spk.next /\ spk'.left = 0
  BY DEF SpkReset, SpkInv, SpkTypes
<1>3. spk.next \in Nat BY DEF SpkInv, SpkTypes
<1>4. i2s'.fifo \in Seq(Nat) BY <1>1
<1>7. i2s'.pending \in BOOLEAN BY <1>1
<1>8. spk'.left \in Nat /\ spk'.next \in Nat
      /\ spk'.at \in {"off", "enabled", "unmasked", "on", "isr", "ending"}
  BY <1>2, <1>3
<1>5. SpkTypes' BY <1>1, <1>2, <1>4, <1>7, <1>8 DEF SpkTypes
<1>6. SpkInStep' BY <1>1, <1>2 DEF SpkInStep
<1> QED BY <1>5, <1>6 DEF SpkInv

(* The driver is asked for samples while it waits to be, and never for     *)
(* more than there is room for, whatever the FIFO's depth, its trigger and *)
(* the rates (halo_i2s.c).                                                 *)
THEOREM SpeakerKeptFed == Spec => []SpeakerServed
<1>1. Init => SpkInv
  BY DEF Init, SpkInit, I2sAtReset, I2sFields, SpkInv, SpkTypes, SpkInStep
<1>2. SpkInv /\ UNCHANGED spkVars => SpkInv'
  BY DEF spkVars, SpkInv, SpkTypes, SpkInStep
<1>3. SpkInv /\ (SpkNext \/ SpkReset) => SpkInv'
  BY SpkDriver, SpkPushStep, DrainStep, SpkResetStep DEF SpkNext
<1>4. SpkInv /\ [Next]_boardVars => SpkInv'
  BY <1>2, <1>3 DEF Next, boardVars, PowerMoves, BusMoves, MediaMove,
     OthersMove, HostAsks, MachineReset, MediaStay
<1>5. SpkInv => SpeakerServed
  BY DEF SpkInv, SpkTypes, SpkInStep, SpeakerServed, I2sIrq, TxFe
<1> QED BY <1>1, <1>4, <1>5, PTL DEF Spec

-----------------------------------------------------------------------------
(* The speaker's file: the upsampler's loop, by induction over the samples *)
(* it is given, and the writer's buffer.                                   *)
(* One turn of the upsampler's loop over the samples.                      *)
UpTurn(had, x, rate) ==
  LET owed == (had.frac + WavRate) \div rate
      room == UpSize - Len(had.out)
      n == IF owed < room THEN owed ELSE room
  IN [frac |-> had.frac + WavRate - n * rate,
      out |-> had.out \o [k \in 1..n |-> x]]

IsUp(u, m, samples, frac, rate) ==
  u = [i \in 0..m |-> IF i = 0 THEN [frac |-> frac, out |-> <<>>]
                      ELSE UpTurn(u[i - 1], samples[i], rate)]

LEMMA UpExists ==
  ASSUME NEW samples, NEW frac, NEW rate, NEW m \in Nat
  PROVE  \E u : IsUp(u, m, samples, frac, rate)
<1> DEFINE S == {k \in Nat : \E u : IsUp(u, k, samples, frac, rate)}
<1>1. 0 \in S
  <2> DEFINE u == [i \in 0..0 |-> [frac |-> frac, out |-> <<>>]]
  <2>1. IsUp(u, 0, samples, frac, rate)
    <3> SUFFICES u = [i \in 0..0 |-> IF i = 0 THEN [frac |-> frac, out |-> <<>>]
                      ELSE UpTurn(u[i - 1], samples[i], rate)]
      BY DEF IsUp
    <3>1. \A i \in 0..0 : i = 0 BY SMT
    <3> QED BY <3>1, Zenon
  <2> HIDE DEF u
  <2> QED BY <2>1
<1>2. ASSUME NEW k \in Nat, k \in S PROVE k + 1 \in S
  <2>1. PICK u : IsUp(u, k, samples, frac, rate) BY <1>2
  <2> DEFINE v == [i \in 0..k + 1 |-> IF i = 0 THEN [frac |-> frac, out |-> <<>>]
                      ELSE UpTurn(u[i - 1], samples[i], rate)]
  <2>2. ASSUME NEW i \in 0..k PROVE v[i] = u[i]
    <3>1. i \in 0..k + 1 OBVIOUS
    <3>2. v[i] = IF i = 0 THEN [frac |-> frac, out |-> <<>>]
                      ELSE UpTurn(u[i - 1], samples[i], rate)
      BY <3>1, Zenon
    <3>3. u[i] = IF i = 0 THEN [frac |-> frac, out |-> <<>>]
                      ELSE UpTurn(u[i - 1], samples[i], rate)
      BY <2>1, Zenon DEF IsUp
    <3> QED BY <3>2, <3>3, Zenon
  <2>3. ASSUME NEW i \in 0..k + 1, i # 0 PROVE v[i - 1] = u[i - 1]
    <3>1. i - 1 \in 0..k BY <2>3
    <3> HIDE DEF v
    <3> QED BY <3>1, <2>2
  <2> DEFINE w == [i \in 0..k + 1 |-> IF i = 0 THEN [frac |-> frac, out |-> <<>>]
                      ELSE UpTurn(v[i - 1], samples[i], rate)]
  <2>4. v = w
    <3>1. ASSUME NEW i \in 0..k + 1
          PROVE (IF i = 0 THEN [frac |-> frac, out |-> <<>>]
                      ELSE UpTurn(v[i - 1], samples[i], rate))
              = (IF i = 0 THEN [frac |-> frac, out |-> <<>>]
                      ELSE UpTurn(u[i - 1], samples[i], rate))
      <4> HIDE DEF v
      <4> QED BY <2>3, Zenon
    <3> QED BY <3>1, Zenon
  <2>5. IsUp(v, k + 1, samples, frac, rate)
    <3> HIDE DEF v
    <3> QED BY <2>4, Zenon DEF IsUp
  <2> HIDE DEF v
  <2> QED BY <2>5
<1>3. Nat \subseteq S BY <1>1, <1>2, SetInduction
<1> QED BY <1>3

LEMMA UpsampledIs ==
  ASSUME NEW samples, NEW frac, NEW rate, Len(samples) \in Nat
  PROVE  \E u : /\ IsUp(u, Len(samples), samples, frac, rate)
                /\ Upsampled(samples, frac, rate) = u[Len(samples)]
<1> DEFINE n == Len(samples)
           up == CHOOSE u : IsUp(u, n, samples, frac, rate)
<1>1. IsUp(up, n, samples, frac, rate) BY UpExists
<1>2. up[n] = Upsampled(samples, frac, rate)
  BY DEF Upsampled, IsUp, UpTurn
<1> QED BY <1>1, <1>2

(* A turn's arithmetic: at least one copy of the sample, and no more of    *)
(* all samples than the ratio allows.                                      *)
UpBefore(W, U, r, f0, f, len, i, D, q, m) ==
  /\ W \in Nat \ {0} /\ U \in Nat \ {0} /\ r \in 1..W /\ W <= U * r
  /\ f0 \in 0..r - 1 /\ f \in 0..r - 1 /\ m \in 0..r - 1
  /\ len \in Nat /\ i \in Nat /\ D \in Nat /\ i < D /\ q \in Int
  /\ f0 + i * W = len * r + f /\ f + W = q * r + m

UpAfter(W, U, r, f0, f, len, i, D, q, m) ==
  /\ q >= 1 /\ len + q <= D * U
  /\ f0 + (i + 1) * W = (len + q) * r + m
  /\ f + W - q * r = m

LEMMA UpArithmetic ==
  ASSUME NEW W, NEW U, NEW r, NEW f0, NEW f, NEW len, NEW i, NEW D, NEW q,
         NEW m, UpBefore(W, U, r, f0, f, len, i, D, q, m)
  PROVE  UpAfter(W, U, r, f0, f, len, i, D, q, m)
<1> SUFFICES
      ASSUME W \in Nat \ {0}, U \in Nat \ {0}, r \in 1..W, W <= U * r,
             f0 \in 0..r - 1, f \in 0..r - 1, m \in 0..r - 1, len \in Nat,
             i \in Nat, D \in Nat, i < D, q \in Int,
             f0 + i * W = len * r + f, f + W = q * r + m
      PROVE  /\ q >= 1 /\ len + q <= D * U
             /\ f0 + (i + 1) * W = (len + q) * r + m
             /\ f + W - q * r = m
  BY Zenon DEF UpBefore, UpAfter
<1>0. r \in Nat \ {0} /\ r <= W OBVIOUS
<1> DEFINE qr == q * r
           lr == len * r
           iW == i * W
<1>1. qr \in Int /\ lr \in Int /\ iW \in Int OBVIOUS
<1>2. (i + 1) * W = iW + W /\ (len + q) * r = lr + qr BY SMT
<1> HIDE DEF qr, lr, iW
<1>3. f0 + iW = lr + f /\ f + W = qr + m BY DEF qr, lr, iW
<1>4. f0 + (i + 1) * W = (len + q) * r + m BY <1>0, <1>1, <1>2, <1>3
<1>5. f + W - q * r = m BY <1>0, <1>1, <1>3 DEF qr
<1>6. 0 * r < q * r
  <2>1. 0 * r = 0 BY <1>0
  <2>2. 0 < qr BY <1>0, <1>1, <1>3
  <2> QED BY <2>1, <2>2 DEF qr
<1>7. 0 < q BY <1>0, <1>6, TimesLess
<1> DEFINE c == (i + 1) * U
           cr == c * r
           j == (i + 1) * W
<1>8. c \in Int /\ cr \in Int /\ j \in Int OBVIOUS
<1>9. j <= cr
  <2>1. W * (i + 1) <= (U * r) * (i + 1) BY TimesOrder
  <2>2. (i + 1) * W = W * (i + 1) BY SMT
  <2>3. (U * r) * (i + 1) = ((i + 1) * U) * r BY SMT
  <2> QED BY <2>1, <2>2, <2>3
<1>10. (c + 1) * r = cr + r BY SMT
<1>11. c <= D * U
  <2>1. i + 1 <= D /\ i + 1 \in Int OBVIOUS
  <2> QED BY <2>1, TimesOrder
<1> HIDE DEF c, cr, j
<1>12. (len + q) * r < (c + 1) * r
  <2> DEFINE x == (len + q) * r
             y == (c + 1) * r
  <2>1. x = lr + qr /\ y = cr + r BY <1>2, <1>10
  <2> HIDE DEF x, y
  <2>2. lr + qr < cr + r
    <3>1. j = iW + W BY <1>2 DEF j
    <3> QED BY <1>0, <1>1, <1>3, <1>8, <1>9, <3>1
  <2>3. x < y BY <2>1, <2>2
  <2> QED BY <2>3 DEF x, y
<1>13. len + q < c + 1 BY <1>0, <1>8, <1>12, TimesLess
<1>14. D * U \in Int OBVIOUS
<1> QED BY <1>4, <1>5, <1>7, <1>8, <1>11, <1>13, <1>14

Rising(s) == \A i, j \in 1..Len(s) : i < j => s[i] <= s[j]

(* What the upsampler has after the first i samples.                       *)
UpSoFar(h, s, i, frac, rate) ==
  /\ h.out \in Seq(Nat) /\ h.frac \in 0..rate - 1
  /\ frac + i * WavRate = Len(h.out) * rate + h.frac
  /\ \A j \in 1..Len(h.out) : \E k \in 1..i : h.out[j] = s[k]
  /\ \A k \in 1..i : \E j \in 1..Len(h.out) : h.out[j] = s[k]
  /\ Rising(h.out)

LEMMA UpStep ==
  ASSUME NEW s \in Seq(Nat), Len(s) <= TxDepth, Rising(s),
         NEW rate \in 1..WavRate, WavRate <= UpRatio * rate,
         NEW frac \in 0..rate - 1, NEW i \in Nat, i < Len(s), NEW h,
         UpSoFar(h, s, i, frac, rate)
  PROVE  UpSoFar(UpTurn(h, s[i + 1], rate), s, i + 1, frac, rate)
<1> DEFINE total == h.frac + WavRate
           owed == total \div rate
           room == UpSize - Len(h.out)
           n == IF owed < room THEN owed ELSE room
           more == [k \in 1..n |-> s[i + 1]]
           len == Len(h.out)
<1>0. /\ WavRate \in Nat \ {0} /\ UpRatio \in Nat \ {0} /\ TxDepth \in Nat
      /\ rate \in Nat \ {0} /\ frac \in Nat
  BY SpkAssumption
<1>1. /\ h.out \in Seq(Nat) /\ h.frac \in 0..rate - 1 /\ len \in Nat
      /\ frac + i * WavRate = len * rate + h.frac
  BY DEF UpSoFar
<1> DEFINE rem == total % rate
<1>2. total \in Int /\ total = h.frac + WavRate BY <1>0, <1>1
<1> HIDE DEF total
<1>3. owed \in Int /\ rem \in 0..rate - 1 /\ total = owed * rate + rem
  BY <1>0, <1>2, DivMod
<1>20. /\ n = (IF owed < room THEN owed ELSE room) /\ room = UpSize - len
       /\ UpTurn(h, s[i + 1], rate) =
            [frac |-> h.frac + WavRate - n * rate, out |-> h.out \o more]
  BY DEF UpTurn, total
<1> HIDE DEF owed, rem, room, n
<1> HIDE DEF len
<1>4. /\ owed >= 1 /\ len + owed <= TxDepth * UpRatio
      /\ frac + (i + 1) * WavRate = (len + owed) * rate + rem
      /\ h.frac + WavRate - owed * rate = rem
  <2>1. i < TxDepth
    <3>1. Len(s) \in Nat OBVIOUS
    <3> QED BY <1>0, <3>1
  <2>2. /\ WavRate \in Nat \ {0} /\ UpRatio \in Nat \ {0}
        /\ rate \in 1..WavRate /\ WavRate <= UpRatio * rate
        /\ frac \in 0..rate - 1 /\ h.frac \in 0..rate - 1
        /\ rem \in 0..rate - 1 /\ len \in Nat /\ i \in Nat
        /\ TxDepth \in Nat /\ i < TxDepth /\ owed \in Int
    BY <1>0, <1>1, <1>3, <2>1
  <2>3. /\ frac + i * WavRate = len * rate + h.frac
        /\ h.frac + WavRate = owed * rate + rem
    BY <1>1, <1>2, <1>3, Zenon
  <2>4. UpBefore(WavRate, UpRatio, rate, frac, h.frac, len, i, TxDepth, owed, rem)
    BY <2>2, <2>3, Zenon DEF UpBefore
  <2>5. UpAfter(WavRate, UpRatio, rate, frac, h.frac, len, i, TxDepth, owed, rem)
    BY <2>4, UpArithmetic, Zenon
  <2> QED BY <2>5, Zenon DEF UpAfter
<1>5. owed < room
  BY <1>0, <1>1, <1>3, <1>4, <1>20 DEF UpSize
<1>6. n = owed BY <1>5, <1>20
<1>8. rem \in 0..rate - 1 BY <1>3
<1>9. s[i + 1] \in Nat OBVIOUS
<1>10. n \in Nat /\ n >= 1 BY <1>3, <1>4, <1>6
<1>11. more \in Seq(Nat) /\ Len(more) = n /\ \A k \in 1..n : more[k] = s[i + 1]
  <2>1. more \in [1..n -> Nat] BY <1>9
  <2> QED BY <1>10, <2>1
<1> DEFINE out == h.out \o more
<1>12. /\ out \in Seq(Nat) /\ Len(out) = len + n
       /\ \A j \in 1..len + n :
            out[j] = IF j <= len THEN h.out[j] ELSE s[i + 1]
  <2> HIDE DEF more
  <2>1. /\ out \in Seq(Nat) /\ Len(out) = len + n
        /\ \A j \in 1..len + n :
             out[j] = IF j <= len THEN h.out[j] ELSE more[j - len]
    BY <1>1, <1>11, ConcatProperties, ZenonT(60) DEF len
  <2>2. ASSUME NEW j \in 1..len + n, ~ (j <= len) PROVE more[j - len] = s[i + 1]
    <3>1. j - len \in 1..n BY <1>1, <1>10, <2>2
    <3> QED BY <1>11, <3>1
  <2> HIDE DEF out
  <2> QED BY <2>1, <2>2
<1> DEFINE g == UpTurn(h, s[i + 1], rate)
<1>13. g.out = out /\ g.frac = rem
  <2>1. g = [frac |-> h.frac + WavRate - n * rate, out |-> out] BY <1>20
  <2> HIDE DEF g, out
  <2>2. g.out = out /\ g.frac = h.frac + WavRate - n * rate BY <2>1, Zenon
  <2> QED BY <1>4, <1>6, <2>2
<1> HIDE DEF g, out, more
<1>14. frac + (i + 1) * WavRate = Len(g.out) * rate + g.frac
  BY <1>4, <1>6, <1>12, <1>13
<1>15. \A j \in 1..len : \E k \in 1..i : h.out[j] = s[k]
  BY DEF UpSoFar, len
<1>16. \A k \in 1..i : \E j \in 1..len : h.out[j] = s[k]
  BY DEF UpSoFar, len
<1>17. ASSUME NEW j \in 1..len + n PROVE \E k \in 1..i + 1 : out[j] = s[k]
  <2>1. CASE j <= len
    <3>2. j \in 1..len BY <1>1, <1>10, <2>1
    <3>1. PICK k \in 1..i : h.out[j] = s[k] BY <1>15, <3>2
    <3> QED BY <1>12, <2>1, <3>1
  <2>2. CASE ~ (j <= len)
    <3>1. out[j] = s[i + 1] BY <1>12, <2>2
    <3> QED BY <3>1
  <2> QED BY <2>1, <2>2
<1>18. ASSUME NEW k \in 1..i + 1 PROVE \E j \in 1..len + n : out[j] = s[k]
  <2>1. CASE k <= i
    <3>0. k \in 1..i BY <2>1
    <3>1. PICK j \in 1..len : h.out[j] = s[k] BY <1>16, <3>0, Zenon
    <3>2. j \in 1..len + n /\ j <= len BY <1>1, <1>10
    <3> QED BY <1>12, <3>1, <3>2
  <2>2. CASE ~ (k <= i)
    <3>1. k = i + 1 BY <2>2
    <3>2. len + n \in 1..len + n /\ ~ (len + n <= len)
      BY <1>1, <1>4, <1>6, <1>10
    <3> QED BY <1>12, <3>1, <3>2
  <2> QED BY <2>1, <2>2
<1>19. ASSUME NEW j \in 1..len + n, NEW k \in 1..len + n, j < k
       PROVE  out[j] <= out[k]
  <2>1. CASE k <= len
    <3>1. j \in 1..Len(h.out) /\ k \in 1..Len(h.out)
      BY <1>1, <1>10, <1>19, <2>1 DEF len
    <3>2. h.out[j] <= h.out[k] BY <1>19, <3>1 DEF UpSoFar, Rising
    <3>3. j <= len BY <1>1, <1>10, <1>19, <2>1
    <3> QED BY <1>12, <2>1, <3>2, <3>3
  <2>2. CASE ~ (k <= len) /\ j <= len
    <3>3. j \in 1..len BY <1>1, <1>10, <2>2
    <3>1. PICK l \in 1..i : h.out[j] = s[l] BY <1>15, <3>3
    <3>2. s[l] <= s[i + 1]
      <4>1. l \in 1..Len(s) /\ i + 1 \in 1..Len(s) /\ l < i + 1 BY <3>1
      <4> QED BY <4>1 DEF Rising
    <3> QED BY <1>12, <2>2, <3>1, <3>2
  <2>3. CASE ~ (k <= len) /\ ~ (j <= len)
    <3>1. out[j] = s[i + 1] /\ out[k] = s[i + 1] BY <1>12, <2>3
    <3> QED BY <1>9, <3>1
  <2> QED BY <2>1, <2>2, <2>3
<1> QED BY <1>8, <1>12, <1>13, <1>14, <1>17, <1>18, <1>19
        DEF UpSoFar, Rising, g

LEMMA UpsampledWhole ==
  ASSUME NEW s \in Seq(Nat), Len(s) <= TxDepth, Rising(s),
         NEW rate \in 1..WavRate, WavRate <= UpRatio * rate,
         NEW frac \in 0..rate - 1
  PROVE  UpSoFar(Upsampled(s, frac, rate), s, Len(s), frac, rate)
<1>1. Len(s) \in Nat OBVIOUS
<1>2. PICK u : /\ IsUp(u, Len(s), s, frac, rate)
               /\ Upsampled(s, frac, rate) = u[Len(s)]
  BY <1>1, UpsampledIs
<1> DEFINE S == {i \in Nat : i <= Len(s) => UpSoFar(u[i], s, i, frac, rate)}
<1>3. ASSUME NEW i \in 0..Len(s)
      PROVE u[i] = IF i = 0 THEN [frac |-> frac, out |-> <<>>]
                   ELSE UpTurn(u[i - 1], s[i], rate)
  BY <1>2, Zenon DEF IsUp
<1>4. 0 \in S
  <2>1. 0 \in 0..Len(s) BY <1>1
  <2>2. u[0] = [frac |-> frac, out |-> <<>>] BY <1>3, <2>1
  <2>3. u[0].frac = frac /\ u[0].out = <<>> BY <2>2
  <2>4. WavRate \in Nat /\ rate \in Nat BY SpkAssumption
  <2>5. frac + 0 * WavRate = 0 * rate + frac BY <2>4
  <2>6. UpSoFar(u[0], s, 0, frac, rate)
    BY <2>3, <2>5 DEF UpSoFar, Rising
  <2> QED BY <2>6
<1>5. ASSUME NEW i \in Nat, i \in S PROVE i + 1 \in S
  <2> SUFFICES ASSUME i + 1 <= Len(s)
               PROVE  UpSoFar(u[i + 1], s, i + 1, frac, rate)
    OBVIOUS
  <2>1. i < Len(s) /\ i + 1 \in 0..Len(s) /\ i + 1 # 0 /\ (i + 1) - 1 = i
    BY <1>1
  <2>2. UpSoFar(u[i], s, i, frac, rate) BY <1>1, <1>5, <2>1
  <2>3. u[i + 1] = UpTurn(u[i], s[i + 1], rate) BY <1>3, <2>1
  <2>4. UpSoFar(UpTurn(u[i], s[i + 1], rate), s, i + 1, frac, rate)
    BY <2>1, <2>2, UpStep
  <2> QED BY <2>3, <2>4
<1>6. Len(s) \in S
  <2> HIDE DEF S
  <2>1. Nat \subseteq S BY <1>4, <1>5, SetInduction
  <2> QED BY <1>1, <2>1
<1> QED BY <1>2, <1>6

(* The upsampler gives each sample its time: of what n samples and what    *)
(* was carried come to, whole frames in order and the rest carried; and    *)
(* its array never cuts a sample short (halo_i2s_sink).                    *)
THEOREM ResamplingExact ==
  ASSUME NEW s \in Seq(Nat), Len(s) <= TxDepth, Rising(s),
         NEW rate \in 1..WavRate, WavRate <= UpRatio * rate,
         NEW frac \in 0..rate - 1
  PROVE  LET up == Upsampled(s, frac, rate)
             all == frac + Len(s) * WavRate
         IN /\ up.out \in Seq(Nat) /\ Rising(up.out)
            /\ Len(up.out) = all \div rate /\ up.frac = all % rate
            /\ SpkSeq!ToSet(up.out) = SpkSeq!ToSet(s)
<1> DEFINE up == Upsampled(s, frac, rate)
           all == frac + Len(s) * WavRate
<1>1. UpSoFar(up, s, Len(s), frac, rate) BY UpsampledWhole
<1> HIDE DEF up
<1>2. /\ up.out \in Seq(Nat) /\ Rising(up.out) /\ up.frac \in 0..rate - 1
      /\ all = Len(up.out) * rate + up.frac
  BY <1>1 DEF UpSoFar
<1>3. Len(up.out) = all \div rate /\ up.frac = all % rate
  <2> DEFINE q == Len(up.out)
             r == up.frac
  <2>1. rate \in Nat \ {0} /\ q \in Int /\ Len(s) \in Nat BY <1>2
  <2>2. all \in Int BY <2>1, SpkAssumption
  <2>3. r \in 0..rate - 1 /\ all = q * rate + r BY <1>2
  <2> HIDE DEF q, r, all
  <2>4. all % rate = r /\ all \div rate = q
    BY <2>1, <2>2, <2>3, DivUnique, Zenon
  <2> QED BY <2>4 DEF q, r
<1>4. SpkSeq!ToSet(up.out) = SpkSeq!ToSet(s)
  <2>1. DOMAIN up.out = 1..Len(up.out) /\ DOMAIN s = 1..Len(s) BY <1>2
  <2>2. \A j \in 1..Len(up.out) : \E k \in 1..Len(s) : up.out[j] = s[k]
    BY <1>1 DEF UpSoFar
  <2>3. \A k \in 1..Len(s) : \E j \in 1..Len(up.out) : up.out[j] = s[k]
    BY <1>1 DEF UpSoFar
  <2>4. SpkSeq!ToSet(up.out) = {up.out[j] : j \in 1..Len(up.out)}
    BY <2>1 DEF SpkSeq!ToSet
  <2>5. SpkSeq!ToSet(s) = {s[k] : k \in 1..Len(s)} BY <2>1 DEF SpkSeq!ToSet
  <2> QED BY <2>2, <2>3, <2>4, <2>5, Zenon
<1> QED BY <1>2, <1>3, <1>4 DEF up

LEMMA Regrouped ==
  \A a, b, c \in Seq(Nat) : (a \o b) \o c = a \o (b \o c)
<1> TAKE a, b, c \in Seq(Nat)
<1> QED BY ConcatAssociative

WavFields == {"wanted", "open", "buf", "disk", "head"}

WavTypes(w) ==
  /\ DOMAIN w = WavFields /\ w.wanted \in BOOLEAN /\ w.open \in BOOLEAN
  /\ w.disk \in Seq(Nat) /\ w.buf \in Seq(Nat)

(* A flush moves the buffer to the disk; a write does so with whole        *)
(* blocks: neither changes what the file holds.                            *)
LEMMA FlushedKeeps ==
  ASSUME NEW w, WavTypes(w)
  PROVE  /\ WavTypes(Flushed(w))
         /\ Flushed(w).open = w.open /\ Flushed(w).wanted = w.wanted
         /\ Flushed(w).disk = w.disk \o w.buf /\ Flushed(w).buf = <<>>
         /\ Flushed(w).head = Len(Flushed(w).disk)
<1> DEFINE all == w.disk \o w.buf
           v == [w EXCEPT !.disk = all, !.buf = <<>>, !.head = Len(all)]
<1>1. Flushed(w) = v BY DEF Flushed
<1>2. DOMAIN w = WavFields /\ w.disk \in Seq(Nat) /\ w.buf \in Seq(Nat)
  BY DEF WavTypes
<1>3. all \in Seq(Nat) /\ <<>> \in Seq(Nat) BY <1>2, ConcatProperties
<1> HIDE DEF all
<1>4. /\ DOMAIN v = WavFields /\ v.disk = all /\ v.buf = <<>>
      /\ v.head = Len(all) /\ v.open = w.open /\ v.wanted = w.wanted
  BY <1>2 DEF WavFields
<1> HIDE DEF v
<1> QED BY <1>1, <1>3, <1>4 DEF WavTypes, all

LEMMA WrittenKeeps ==
  ASSUME NEW w, WavTypes(w), w.head = Len(w.disk), NEW fr \in Seq(Nat)
  PROVE  LET v == Written(w, fr) IN
         /\ WavTypes(v)
         /\ v.open = w.open /\ v.wanted = w.wanted
         /\ v.disk \o v.buf = (w.disk \o w.buf) \o fr
         /\ v.head = Len(v.disk)
<1> DEFINE all == w.buf \o fr
           whole == WavFlush * (Len(all) \div WavFlush)
           v == Written(w, fr)
<1>1. DOMAIN w = WavFields /\ w.disk \in Seq(Nat) /\ w.buf \in Seq(Nat)
  BY DEF WavTypes
<1>2. all \in Seq(Nat) BY <1>1, ConcatProperties
<1>3. w.disk \o all = (w.disk \o w.buf) \o fr
  BY <1>1, Regrouped, Zenon
<1>4. whole \in 0..Len(all)
  <2> DEFINE a == Len(all)
             q == a \div WavFlush
  <2>1. a \in Nat /\ WavFlush \in Nat \ {0} BY <1>2, SpkAssumption
  <2> HIDE DEF a
  <2>2. q \in Int /\ (a % WavFlush) \in 0..WavFlush - 1
        /\ a = q * WavFlush + (a % WavFlush)
    BY <2>1, DivMod
  <2> DEFINE r == a % WavFlush
             p == q * WavFlush
  <2>3. p \in Int /\ WavFlush * q = p /\ r \in Nat /\ r < WavFlush /\ a = p + r
    BY <2>1, <2>2
  <2>4. q >= 0
    <3> SUFFICES ASSUME q + 1 <= 0 PROVE FALSE BY <2>2
    <3> DEFINE b == q + 1
    <3>3. b \in Int /\ b <= 0 /\ 0 \in Int /\ WavFlush \in Nat BY <2>1, <2>2
    <3> HIDE DEF b
    <3>4. b * WavFlush <= 0 * WavFlush BY <3>3, TimesOrder
    <3>1. (q + 1) * WavFlush <= 0 * WavFlush BY <3>4 DEF b
    <3>2. (q + 1) * WavFlush = p + WavFlush /\ 0 * WavFlush = 0
      BY <2>1, <2>2, SMT
    <3> HIDE DEF p, r, q
    <3> QED BY <2>1, <2>3, <3>1, <3>2
  <2>5. p >= 0
    <3>1. 0 * WavFlush <= q * WavFlush BY <2>1, <2>2, <2>4, TimesOrder
    <3> QED BY <2>1, <3>1
  <2> HIDE DEF p, r
  <2>6. p \in 0..a BY <2>1, <2>3, <2>5
  <2> QED BY <2>3, <2>6 DEF a
<1> HIDE DEF whole
<1>5. v = IF whole = 0 THEN [w EXCEPT !.buf = all]
          ELSE [Flushed([w EXCEPT !.buf = SubSeq(all, 1, whole)])
                  EXCEPT !.buf = SubSeq(all, whole + 1, Len(all))]
  BY DEF Written, whole
<1> HIDE DEF all, v
<1>6. CASE whole = 0
  <2>1. v = [w EXCEPT !.buf = all] BY <1>5, <1>6
  <2>2. /\ DOMAIN v = WavFields /\ v.disk = w.disk /\ v.buf = all
        /\ v.head = w.head /\ v.open = w.open /\ v.wanted = w.wanted
    BY <1>1, <2>1 DEF WavFields
  <2> QED BY <1>1, <1>2, <1>3, <2>2 DEF WavTypes, v
<1>7. CASE whole # 0
  <2> DEFINE front == SubSeq(all, 1, whole)
             back == SubSeq(all, whole + 1, Len(all))
             x == [w EXCEPT !.buf = front]
             y == [Flushed(x) EXCEPT !.buf = back]
  <2>1. front \in Seq(Nat) /\ back \in Seq(Nat)
    <3>1. Len(all) \in Nat /\ \A i \in 1..Len(all) : all[i] \in Nat BY <1>2
    <3>2. whole \in Int /\ whole + 1 \in Int BY <1>4
    <3>3. \A i \in 1..whole : all[i] \in Nat BY <1>4, <3>1
    <3>4. \A i \in whole + 1..Len(all) : all[i] \in Nat BY <1>4, <3>1
    <3> QED BY <3>1, <3>2, <3>3, <3>4, SubSeqProperties
  <2>2. front \o back = all
    <3>1. SubSeq(all, 1, whole) \o SubSeq(all, whole + 1, Len(all))
          = SubSeq(all, 1, Len(all))
      <4>1. Len(all) \in Nat /\ 1 \in 1..Len(all) + 1 /\ whole \in 1 - 1..Len(all)
            /\ Len(all) \in whole..Len(all)
        BY <1>2, <1>4
      <4> QED BY <1>2, <4>1, ConcatAdjacentSubSeq
    <3>2. SubSeq(all, 1, Len(all)) = all BY <1>2, SubSeqFull
    <3> QED BY <3>1, <3>2
  <2> HIDE DEF front, back
  <2>3. WavTypes(x) /\ x.disk = w.disk /\ x.buf = front /\ x.open = w.open
        /\ x.wanted = w.wanted
    <3>1. /\ DOMAIN x = WavFields /\ x.disk = w.disk /\ x.buf = front
          /\ x.open = w.open /\ x.wanted = w.wanted
      BY <1>1 DEF WavFields
    <3> HIDE DEF x
    <3> QED BY <1>1, <2>1, <3>1 DEF WavTypes
  <2> HIDE DEF x
  <2>4. /\ WavTypes(Flushed(x)) /\ Flushed(x).open = w.open
        /\ Flushed(x).wanted = w.wanted
        /\ Flushed(x).disk = w.disk \o front
        /\ Flushed(x).head = Len(Flushed(x).disk)
    BY <2>3, FlushedKeeps
  <2> DEFINE z == Flushed(x)
  <2>5. DOMAIN z = WavFields BY <2>4 DEF WavTypes
  <2> HIDE DEF z
  <2>6. y = [z EXCEPT !.buf = back] BY DEF z
  <2> HIDE DEF y
  <2>7. /\ DOMAIN y = WavFields /\ y.disk = z.disk /\ y.buf = back
        /\ y.head = z.head /\ y.open = z.open /\ y.wanted = z.wanted
    BY <2>5, <2>6 DEF WavFields
  <2>8. WavTypes(y) BY <2>1, <2>4, <2>7 DEF WavTypes, z
  <2>9. y.disk \o y.buf = w.disk \o all
    <3> HIDE DEF y
    <3>1. (w.disk \o front) \o back = w.disk \o (front \o back)
      BY <1>1, <2>1, Regrouped, Zenon
    <3> QED BY <2>2, <2>4, <2>7, <3>1 DEF z
  <2>10. v = y BY <1>5, <1>7 DEF y, z, x, front, back
  <2> QED BY <1>3, <2>4, <2>7, <2>8, <2>9, <2>10 DEF z, v
<1> QED BY <1>6, <1>7

(* A queue's first n samples and its rest.                                 *)
LEMMA Halves ==
  ASSUME NEW f \in Seq(Nat), NEW n \in 0..Len(f)
  PROVE  LET pre == SubSeq(f, 1, n)
             rest == SubSeq(f, n + 1, Len(f))
         IN /\ pre \in Seq(Nat) /\ Len(pre) = n
            /\ rest \in Seq(Nat) /\ Len(rest) = Len(f) - n
            /\ \A i \in 1..n : pre[i] = f[i]
            /\ \A i \in 1..Len(f) - n : rest[i] = f[n + i]
<1> DEFINE pre == SubSeq(f, 1, n)
           rest == SubSeq(f, n + 1, Len(f))
           len == Len(f)
<1>1. len \in Nat /\ n \in Nat /\ n <= len /\ \A i \in 1..len : f[i] \in Nat
  OBVIOUS
<1> HIDE DEF len
<1>2. \A i \in 1..n : f[i] \in Nat BY <1>1
<1>3. \A i \in n + 1..len : f[i] \in Nat BY <1>1
<1>4. /\ pre \in Seq(Nat) /\ Len(pre) = IF 1 <= n THEN n - 1 + 1 ELSE 0
      /\ \A i \in 1..n - 1 + 1 : pre[i] = f[1 + i - 1]
  BY <1>1, <1>2, SubSeqProperties
<1>5. /\ SubSeq(f, n + 1, len) \in Seq(Nat)
      /\ Len(SubSeq(f, n + 1, len)) =
           IF n + 1 <= len THEN len - (n + 1) + 1 ELSE 0
      /\ \A i \in 1..len - (n + 1) + 1 :
           SubSeq(f, n + 1, len)[i] = f[(n + 1) + i - 1]
  <2>1. n + 1 \in Int /\ len \in Int BY <1>1
  <2> QED BY <1>3, <2>1, SubSeqProperties
<1> HIDE DEF pre
<1>6. Len(pre) = n /\ \A i \in 1..n : pre[i] = f[i]
  <2>1. Len(pre) = n BY <1>1, <1>4
  <2>2. ASSUME NEW i \in 1..n PROVE pre[i] = f[i]
    <3>1. i \in 1..n - 1 + 1 /\ 1 + i - 1 = i BY <1>1
    <3> QED BY <1>4, <3>1
  <2> QED BY <2>1, <2>2
<1>7. rest = SubSeq(f, n + 1, len) BY DEF len
<1> HIDE DEF rest
<1>8. Len(rest) = len - n /\ \A i \in 1..len - n : rest[i] = f[n + i]
  <2>1. Len(rest) = len - n BY <1>1, <1>5, <1>7
  <2>2. ASSUME NEW i \in 1..len - n PROVE rest[i] = f[n + i]
    <3>1. i \in 1..len - (n + 1) + 1 /\ (n + 1) + i - 1 = n + i BY <1>1
    <3> QED BY <1>5, <1>7, <3>1
  <2> QED BY <2>1, <2>2
<1> QED BY <1>4, <1>5, <1>6, <1>7, <1>8 DEF pre, rest, len

LEMMA Elements ==
  ASSUME NEW f \in Seq(Nat)
  PROVE  SpkSeq!ToSet(f) = {f[i] : i \in 1..Len(f)}
<1>1. DOMAIN f = 1..Len(f) OBVIOUS
<1> QED BY <1>1 DEF SpkSeq!ToSet

LEMMA JoinedElements ==
  ASSUME NEW f \in Seq(Nat), NEW g \in Seq(Nat)
  PROVE  SpkSeq!ToSet(f \o g) = SpkSeq!ToSet(f) \cup SpkSeq!ToSet(g)
<1> DEFINE h == f \o g
           m == Len(f)
           n == Len(g)
<1>1. /\ h \in Seq(Nat) /\ Len(h) = m + n /\ m \in Nat /\ n \in Nat
      /\ \A i \in 1..m + n : h[i] = IF i <= m THEN f[i] ELSE g[i - m]
  BY ConcatProperties
<1>2. /\ SpkSeq!ToSet(h) = {h[i] : i \in 1..Len(h)}
      /\ SpkSeq!ToSet(f) = {f[i] : i \in 1..m}
      /\ SpkSeq!ToSet(g) = {g[i] : i \in 1..n}
  BY <1>1, Elements
<1> HIDE DEF h, m, n
<1>3. ASSUME NEW i \in 1..m + n
      PROVE  h[i] \in {f[j] : j \in 1..m} \cup {g[j] : j \in 1..n}
  <2>1. CASE i <= m
    <3>1. i \in 1..m /\ h[i] = f[i] BY <1>1, <2>1
    <3> QED BY <3>1, Zenon
  <2>2. CASE ~ (i <= m)
    <3>1. i - m \in 1..n /\ h[i] = g[i - m] BY <1>1, <2>2
    <3> QED BY <3>1, Zenon
  <2> QED BY <2>1, <2>2
<1>4. ASSUME NEW j \in 1..m PROVE \E i \in 1..m + n : h[i] = f[j]
  <2>1. j \in 1..m + n /\ h[j] = f[j] BY <1>1
  <2> QED BY <2>1
<1>5. ASSUME NEW j \in 1..n PROVE \E i \in 1..m + n : h[i] = g[j]
  <2>1. /\ m + j \in 1..m + n /\ ~ (m + j <= m) /\ (m + j) - m = j BY <1>1
  <2>2. h[m + j] = g[j] BY <1>1, <2>1
  <2> QED BY <2>1, <2>2
<1>6. {h[i] : i \in 1..m + n} =
        {f[j] : j \in 1..m} \cup {g[j] : j \in 1..n}
  <2>1. ASSUME NEW x \in {h[i] : i \in 1..m + n}
        PROVE  x \in {f[j] : j \in 1..m} \cup {g[j] : j \in 1..n}
    BY <1>3
  <2>2. ASSUME NEW x \in {f[j] : j \in 1..m} PROVE x \in {h[i] : i \in 1..m + n}
    BY <1>4
  <2>3. ASSUME NEW x \in {g[j] : j \in 1..n} PROVE x \in {h[i] : i \in 1..m + n}
    BY <1>5
  <2> QED BY <2>1, <2>2, <2>3
<1> QED BY <1>1, <1>2, <1>6 DEF h

(* What is in the file is in order, each sample as often as its time asks; *)
(* what is in the FIFO follows, once; all of it came before sample n.      *)
InOrder(file, fifo, n) ==
  /\ Rising(file)
  /\ \A i, j \in 1..Len(fifo) : i < j => fifo[i] < fifo[j]
  /\ \A i \in 1..Len(file), j \in 1..Len(fifo) : file[i] < fifo[j]
  /\ \A i \in 1..Len(file) : file[i] < n
  /\ \A i \in 1..Len(fifo) : fifo[i] < n

LEMMA FifoToFile ==
  ASSUME NEW file \in Seq(Nat), NEW fifo \in Seq(Nat), NEW b \in Nat,
         InOrder(file, fifo, b), NEW n \in 0..Len(fifo), NEW up \in Seq(Nat),
         Rising(up), SpkSeq!ToSet(up) = SpkSeq!ToSet(SubSeq(fifo, 1, n))
  PROVE  LET rest == SubSeq(fifo, n + 1, Len(fifo)) IN
         /\ InOrder(file \o up, rest, b)
         /\ SpkSeq!ToSet(file \o up) \cup SpkSeq!ToSet(rest)
            = SpkSeq!ToSet(file) \cup SpkSeq!ToSet(fifo)
<1> DEFINE pre == SubSeq(fifo, 1, n)
           rest == SubSeq(fifo, n + 1, Len(fifo))
           all == file \o up
           a == Len(file)
           c == Len(up)
           l == Len(fifo)
<1>1. /\ pre \in Seq(Nat) /\ Len(pre) = n /\ rest \in Seq(Nat)
      /\ Len(rest) = l - n /\ \A i \in 1..n : pre[i] = fifo[i]
      /\ \A i \in 1..l - n : rest[i] = fifo[n + i]
  BY Halves
<1>2. /\ all \in Seq(Nat) /\ Len(all) = a + c
      /\ \A i \in 1..a + c : all[i] = IF i <= a THEN file[i] ELSE up[i - a]
  BY ConcatProperties
<1>3. a \in Nat /\ c \in Nat /\ l \in Nat /\ n \in 0..l OBVIOUS
<1>4. \A i \in 1..a : file[i] \in Nat OBVIOUS
<1>5. \A i \in 1..c : up[i] \in Nat OBVIOUS
<1>6. \A i \in 1..l : fifo[i] \in Nat OBVIOUS
<1>7. \A i \in 1..c : \E k \in 1..n : up[i] = fifo[k]
  <2>1. {up[i] : i \in 1..c} = {pre[k] : k \in 1..n} BY <1>1, Elements
  <2>2. ASSUME NEW i \in 1..c PROVE \E k \in 1..n : up[i] = fifo[k]
    <3>1. up[i] \in {pre[k] : k \in 1..n} BY <2>1, Zenon
    <3>2. PICK k \in 1..n : up[i] = pre[k] BY <3>1
    <3> QED BY <1>1, <3>2
  <2> QED BY <2>2
<1>8. /\ \A i, j \in 1..a : i < j => file[i] <= file[j]
      /\ \A i, j \in 1..c : i < j => up[i] <= up[j]
      /\ \A i, j \in 1..l : i < j => fifo[i] < fifo[j]
      /\ \A i \in 1..a, j \in 1..l : file[i] < fifo[j]
      /\ \A i \in 1..a : file[i] < b
      /\ \A i \in 1..l : fifo[i] < b
  BY DEF InOrder, Rising
<1>9. SpkSeq!ToSet(all) \cup SpkSeq!ToSet(rest)
      = SpkSeq!ToSet(file) \cup SpkSeq!ToSet(fifo)
  <2>1. SpkSeq!ToSet(all) = SpkSeq!ToSet(file) \cup SpkSeq!ToSet(up)
    BY JoinedElements
  <2>2. pre \o rest = fifo
    <3>1. 1 \in 1..l + 1 /\ n \in 1 - 1..l /\ l \in n..l BY <1>3
    <3>2. SubSeq(fifo, 1, n) \o SubSeq(fifo, n + 1, l) = SubSeq(fifo, 1, l)
      BY <3>1, ConcatAdjacentSubSeq
    <3> QED BY <3>2, SubSeqFull
  <2>3. SpkSeq!ToSet(fifo) = SpkSeq!ToSet(pre) \cup SpkSeq!ToSet(rest)
    <3> HIDE DEF pre, rest
    <3>1. SpkSeq!ToSet(pre \o rest) = SpkSeq!ToSet(pre) \cup SpkSeq!ToSet(rest)
      BY <1>1, JoinedElements
    <3> QED BY <2>2, <3>1
  <2>4. SpkSeq!ToSet(up) = SpkSeq!ToSet(pre) OBVIOUS
  <2> HIDE DEF pre, rest, all
  <2> QED BY <2>1, <2>3, <2>4
<1> HIDE DEF pre, rest, all, a, c, l
<1>10. ASSUME NEW i \in 1..a + c, i > a
       PROVE  \E k \in 1..n : all[i] = fifo[k] /\ i - a \in 1..c
                              /\ all[i] = up[i - a]
  <2>1. i - a \in 1..c /\ all[i] = up[i - a] BY <1>2, <1>3, <1>10
  <2>2. PICK k \in 1..n : up[i - a] = fifo[k] BY <1>7, <2>1
  <2> QED BY <2>1, <2>2
<1>11. ASSUME NEW i \in 1..a + c, NEW j \in 1..a + c, i < j
       PROVE  all[i] <= all[j]
  <2>1. CASE j <= a
    <3>1. i \in 1..a /\ j \in 1..a BY <1>3, <1>11, <2>1
    <3>2. all[i] = file[i] /\ all[j] = file[j] BY <1>2, <1>3, <3>1
    <3> QED BY <1>8, <1>11, <3>1, <3>2
  <2>2. CASE j > a /\ i <= a
    <3>1. PICK k \in 1..n : all[j] = fifo[k] BY <1>10, <2>2
    <3>2. i \in 1..a /\ k \in 1..l /\ all[i] = file[i] BY <1>2, <1>3, <2>2
    <3>3. file[i] < fifo[k] BY <1>8, <3>2
    <3> QED BY <1>4, <1>6, <3>1, <3>2, <3>3
  <2>3. CASE j > a /\ i > a
    <3>2. i - a \in 1..c /\ all[i] = up[i - a] BY <1>10, <2>3
    <3>3. j - a \in 1..c /\ all[j] = up[j - a] BY <1>10, <2>3
    <3>4. i - a < j - a BY <1>3, <1>11
    <3>1. /\ i - a \in 1..c /\ j - a \in 1..c /\ i - a < j - a
          /\ all[i] = up[i - a] /\ all[j] = up[j - a]
      BY <3>2, <3>3, <3>4
    <3> QED BY <1>8, <3>1
  <2> QED BY <1>3, <2>1, <2>2, <2>3
<1>12. ASSUME NEW i \in 1..a + c, NEW j \in 1..l - n PROVE all[i] < rest[j]
  <2>1. n + j \in 1..l /\ rest[j] = fifo[n + j] BY <1>1, <1>3
  <2>2. CASE i <= a
    <3>2. i \in 1..a BY <1>3, <2>2
    <3>1. all[i] = file[i] BY <1>2, <2>2
    <3> QED BY <1>8, <2>1, <3>1, <3>2
  <2>3. CASE i > a
    <3>1. PICK k \in 1..n : all[i] = fifo[k] BY <1>10, <2>3
    <3>2. k \in 1..l /\ k < n + j BY <1>3
    <3> QED BY <1>8, <2>1, <3>1, <3>2
  <2> QED BY <1>3, <2>2, <2>3
<1>13. ASSUME NEW i \in 1..l - n, NEW j \in 1..l - n, i < j
       PROVE  rest[i] < rest[j]
  <2>1. n + i \in 1..l /\ n + j \in 1..l /\ n + i < n + j BY <1>3, <1>13
  <2> QED BY <1>1, <1>8, <2>1
<1>14. ASSUME NEW i \in 1..l - n PROVE rest[i] < b
  <2>1. n + i \in 1..l BY <1>3
  <2> QED BY <1>1, <1>8, <2>1
<1>15. ASSUME NEW i \in 1..a + c PROVE all[i] < b
  <2>1. CASE i <= a
    <3>1. i \in 1..a BY <1>3, <2>1
    <3> QED BY <1>2, <1>8, <2>1, <3>1
  <2>2. CASE i > a
    <3>1. PICK k \in 1..n : all[i] = fifo[k] BY <1>10, <2>2
    <3>2. k \in 1..l BY <1>3
    <3> QED BY <1>8, <3>1, <3>2
  <2> QED BY <1>3, <2>1, <2>2
<1>16. InOrder(all, rest, b)
  BY <1>1, <1>2, <1>11, <1>12, <1>13, <1>14, <1>15 DEF InOrder, Rising
<1> QED BY <1>9, <1>16 DEF all, rest

FileOf(w) == w.disk \o w.buf
PlayedFields == {"taken", "popped", "frames"}

(* The types of what an access of the controller updates.                  *)
SinkTypes(s, w, p) ==
  /\ DOMAIN s = I2sFields /\ s.fifo \in Seq(Nat) /\ s.pending \in BOOLEAN
  /\ s.rate \in PlayRates \cup {WavRate}
  /\ s.ckdiv \in PlayRates \cup {WavRate}
  /\ WavTypes(w) /\ (w.open => w.wanted)
  /\ DOMAIN p = PlayedFields /\ p.popped \in Nat

(* While there is a file it has, with the FIFO, what the FIFO has taken,   *)
(* all before sample n, and what was popped has got its time.              *)
Kept(s, w, p, n) ==
  /\ s.pending => s.rate = s.ckdiv
  /\ w.wanted =>
       /\ w.head = Len(w.disk)
       /\ ~w.open => w.disk = <<>> /\ w.buf = <<>>
       /\ InOrder(FileOf(w), s.fifo, n)
       /\ SpkSeq!ToSet(FileOf(w)) \cup SpkSeq!ToSet(s.fifo) = p.taken
       /\ s.frac = (p.popped * WavRate) % s.rate
       /\ p.frames = (p.popped * WavRate) \div s.rate

IdleFlushed == wav.wanted /\ ~i2s.pending => wav.buf = <<>>

PlayInv ==
  /\ SpkInv
  /\ SinkTypes(i2s, wav, played) /\ Kept(i2s, wav, played, spk.next)
  /\ IdleFlushed
  /\ Len(i2s.fifo) <= TxDepth /\ spk.next \in 1..MaxSamples + 1

LEMMA RatesArePositive ==
  \A r \in PlayRates \cup {WavRate} :
    r \in 1..WavRate /\ r \in Nat \ {0} /\ WavRate <= UpRatio * r
<1>1. /\ WavRate \in Nat \ {0} /\ UpRatio \in Nat \ {0}
      /\ PlayRates \subseteq {r \in 1..WavRate : WavRate <= UpRatio * r}
  BY SpkAssumption
<1>2. WavRate <= UpRatio * WavRate
  <2>1. 1 * WavRate <= UpRatio * WavRate BY <1>1, TimesOrder
  <2> QED BY <1>1, <2>1
<1> TAKE r \in PlayRates \cup {WavRate}
<1>3. CASE r = WavRate BY <1>1, <1>2, <1>3
<1>4. CASE r \in PlayRates BY <1>1, <1>4
<1> QED BY <1>3, <1>4

LEMMA NothingPopped ==
  ASSUME NEW r \in PlayRates \cup {WavRate}
  PROVE  (0 * WavRate) % r = 0 /\ (0 * WavRate) \div r = 0
<1>1. r \in Nat \ {0} /\ WavRate \in Nat BY RatesArePositive, SpkAssumption
<1>2. 0 * WavRate = 0 /\ 0 = 0 * r + 0 /\ 0 \in 0..r - 1 BY <1>1
<1>3. 0 % r = 0 /\ 0 \div r = 0 BY <1>1, <1>2, DivUnique
<1> QED BY <1>2, <1>3

LEMMA UpdateKeeps ==
  ASSUME NEW s, NEW w, NEW p, NEW n, SinkTypes(s, w, p), Kept(s, w, p, n),
         Update(s, w, p)
  PROVE  /\ SinkTypes(i2s', wav', played') /\ Kept(i2s', wav', played', n)
         /\ IdleFlushed'
<1>1. CASE ~Active(s)
  <2>1. /\ i2s' = [s EXCEPT !.pending = FALSE, !.started = FALSE]
        /\ wav' = IF w.open THEN Flushed(w) ELSE w
        /\ played' = p
    BY <1>1 DEF Update
  <2>2. /\ DOMAIN i2s' = I2sFields /\ i2s'.fifo = s.fifo
        /\ i2s'.pending = FALSE /\ i2s'.rate = s.rate /\ i2s'.ckdiv = s.ckdiv
        /\ i2s'.frac = s.frac
    BY <2>1 DEF SinkTypes, I2sFields
  <2>3. CASE w.open
    <3>1. wav' = Flushed(w) BY <2>1, <2>3
    <3>2. WavTypes(w) /\ w.disk \in Seq(Nat) /\ w.buf \in Seq(Nat)
      BY DEF SinkTypes, WavTypes
    <3>3. /\ WavTypes(wav') /\ wav'.open = w.open /\ wav'.wanted = w.wanted
          /\ wav'.disk = FileOf(w) /\ wav'.buf = <<>>
          /\ wav'.head = Len(wav'.disk)
      BY <3>1, <3>2, FlushedKeeps DEF FileOf
    <3>4. FileOf(wav') = FileOf(w)
      <4>1. FileOf(w) \in Seq(Nat) BY <3>2, ConcatProperties DEF FileOf
      <4> DEFINE f == FileOf(w)
      <4> HIDE DEF f
      <4>2. f \o <<>> = f BY <4>1, ConcatEmptySeq DEF f
      <4>3. FileOf(wav') = f \o <<>> BY <3>3 DEF FileOf, f
      <4> QED BY <4>2, <4>3 DEF f
    <3>5. Kept(i2s', wav', played', n)
      BY <2>1, <2>2, <2>3, <3>3, <3>4 DEF Kept
    <3> QED BY <2>1, <2>2, <3>3, <3>5 DEF SinkTypes, IdleFlushed
  <2>4. CASE ~w.open
    <3>1. wav' = w BY <2>1, <2>4
    <3> QED BY <2>1, <2>2, <2>4, <3>1 DEF SinkTypes, Kept, IdleFlushed
  <2> QED BY <2>3, <2>4
<1>2. CASE Active(s) /\ s.pending
  <2>1. i2s' = s /\ wav' = w /\ played' = p BY <1>2 DEF Update
  <2> QED BY <1>2, <2>1 DEF IdleFlushed
<1>3. CASE Active(s) /\ ~s.pending
  <2>1. /\ i2s' = [s EXCEPT !.pending = TRUE, !.frac = 0, !.rate = s.ckdiv]
        /\ wav' = w /\ played' = [p EXCEPT !.popped = 0, !.frames = 0]
    BY <1>3 DEF Update
  <2>2. /\ DOMAIN i2s' = I2sFields /\ i2s'.fifo = s.fifo
        /\ i2s'.pending = TRUE /\ i2s'.rate = s.ckdiv /\ i2s'.ckdiv = s.ckdiv
        /\ i2s'.frac = 0
    BY <2>1 DEF SinkTypes, I2sFields
  <2>3. /\ DOMAIN played' = PlayedFields /\ played'.popped = 0
        /\ played'.frames = 0 /\ played'.taken = p.taken
    BY <2>1 DEF SinkTypes, PlayedFields
  <2>4. s.ckdiv \in PlayRates \cup {WavRate} BY DEF SinkTypes
  <2>5. (0 * WavRate) % s.ckdiv = 0 /\ (0 * WavRate) \div s.ckdiv = 0
    BY <2>4, NothingPopped
  <2> QED BY <2>1, <2>2, <2>3, <2>5 DEF SinkTypes, Kept, IdleFlushed
<1> QED BY <1>1, <1>2, <1>3 DEF SinkTypes

(* An access that changes none of what is kept, but its FIFO's emptiness,  *)
(* or the divider of an idle controller.                                   *)
LEMMA SameKept ==
  ASSUME NEW s, NEW w, NEW p, NEW n, SinkTypes(s, w, p), Kept(s, w, p, n),
         NEW z, DOMAIN z = I2sFields, z.fifo = s.fifo, z.pending = s.pending,
         z.rate = s.rate, z.frac = s.frac,
         z.ckdiv = s.ckdiv \/ (~s.pending /\ z.ckdiv \in PlayRates)
  PROVE  SinkTypes(z, w, p) /\ Kept(z, w, p, n)
BY DEF SinkTypes, Kept

LEMMA PlayDriver ==
  /\ PlayInv
  /\ \/ \E rate \in PlayRates : SpkEnable(rate)
     \/ SpkUnmask \/ SpkRunning \/ SpkIsr \/ SpkEnd \/ SpkDisable
  => PlayInv'
<1> SUFFICES ASSUME PlayInv,
                    \/ \E rate \in PlayRates : SpkEnable(rate)
                    \/ SpkUnmask \/ SpkRunning \/ SpkIsr \/ SpkEnd
                    \/ SpkDisable
             PROVE  PlayInv'
  OBVIOUS
<1>0. /\ SpkInv /\ SinkTypes(i2s, wav, played)
      /\ Kept(i2s, wav, played, spk.next) /\ IdleFlushed
      /\ Len(i2s.fifo) <= TxDepth /\ spk.next \in 1..MaxSamples + 1
      /\ DOMAIN i2s = I2sFields /\ DOMAIN spk = {"at", "next", "left"}
      /\ i2s.pending \in BOOLEAN
  BY DEF PlayInv, SpkInv, SpkTypes
<1>1. SpkInv' BY <1>0, SpkDriver
<1>2. spk'.next = spk.next
  BY <1>0 DEF SpkEnable, SpkUnmask, SpkRunning, SpkIsr, SpkEnd, SpkDisable,
     Drives
<1>3. ASSUME NEW z, Update(z, wav, played),
             DOMAIN z = I2sFields, z.fifo = i2s.fifo, z.pending = i2s.pending,
             z.rate = i2s.rate, z.frac = i2s.frac,
             z.ckdiv = i2s.ckdiv \/ (~i2s.pending /\ z.ckdiv \in PlayRates)
      PROVE  PlayInv'
  <2>1. SinkTypes(z, wav, played) /\ Kept(z, wav, played, spk.next)
    BY <1>0, <1>3, SameKept
  <2>2. /\ SinkTypes(i2s', wav', played')
        /\ Kept(i2s', wav', played', spk.next) /\ IdleFlushed'
    BY <1>3, <2>1, UpdateKeeps
  <2>3. i2s'.fifo = i2s.fifo BY <1>0, <1>3, Updated1
  <2> QED BY <1>0, <1>1, <1>2, <2>2, <2>3 DEF PlayInv
<1>4. CASE \E rate \in PlayRates : SpkEnable(rate)
  <2>1. PICK rate \in PlayRates : SpkEnable(rate) BY <1>4
  <2> DEFINE z == [i2s EXCEPT !.en = TRUE, !.ckdiv = rate]
  <2>2. /\ DOMAIN z = I2sFields /\ z.fifo = i2s.fifo
        /\ z.pending = i2s.pending /\ z.rate = i2s.rate /\ z.frac = i2s.frac
        /\ z.ckdiv = rate
    BY <1>0 DEF I2sFields
  <2>3. Update(z, wav, played) BY <2>1 DEF SpkEnable, WriteI2s
  <2>4. ~i2s.pending
    BY <1>0, <2>1 DEF SpkEnable, Drives, SpkInv, SpkInStep
  <2> HIDE DEF z
  <2> QED BY <1>3, <2>2, <2>3, <2>4
<1>5. CASE SpkUnmask
  <2> DEFINE z == [i2s EXCEPT !.masked = FALSE]
  <2>2. /\ DOMAIN z = I2sFields /\ z.fifo = i2s.fifo
        /\ z.pending = i2s.pending /\ z.rate = i2s.rate /\ z.frac = i2s.frac
        /\ z.ckdiv = i2s.ckdiv
    BY <1>0 DEF I2sFields
  <2>3. Update(z, wav, played) BY <1>5 DEF SpkUnmask, WriteI2s
  <2> HIDE DEF z
  <2> QED BY <1>3, <2>2, <2>3
<1>6. CASE SpkRunning \/ SpkIsr
  <2>1. UNCHANGED <<i2s, wav, played>> BY <1>6 DEF SpkRunning, SpkIsr
  <2> QED BY <1>0, <1>1, <1>2, <2>1 DEF PlayInv, IdleFlushed
<1>7. CASE SpkEnd
  <2> DEFINE z == [i2s EXCEPT !.masked = TRUE]
  <2>2. /\ DOMAIN z = I2sFields /\ z.fifo = i2s.fifo
        /\ z.pending = i2s.pending /\ z.rate = i2s.rate /\ z.frac = i2s.frac
        /\ z.ckdiv = i2s.ckdiv
    BY <1>0 DEF I2sFields
  <2>3. Update(z, wav, played) BY <1>7 DEF SpkEnd, WriteI2s
  <2> HIDE DEF z
  <2> QED BY <1>3, <2>2, <2>3
<1>8. CASE SpkDisable
  <2> DEFINE z == [i2s EXCEPT !.en = FALSE]
  <2>2. /\ DOMAIN z = I2sFields /\ z.fifo = i2s.fifo
        /\ z.pending = i2s.pending /\ z.rate = i2s.rate /\ z.frac = i2s.frac
        /\ z.ckdiv = i2s.ckdiv
    BY <1>0 DEF I2sFields
  <2>3. Update(z, wav, played) BY <1>8 DEF SpkDisable, WriteI2s
  <2> HIDE DEF z
  <2> QED BY <1>3, <2>2, <2>3
<1> QED BY <1>4, <1>5, <1>6, <1>7, <1>8

(* What the FIFO loses is what the file does not have.                     *)
LEMMA FifoThrown ==
  ASSUME NEW file \in Seq(Nat), NEW f \in Seq(Nat), NEW b,
         InOrder(file, f, b)
  PROVE  /\ InOrder(file, <<>>, b)
         /\ (SpkSeq!ToSet(file) \cup SpkSeq!ToSet(f)) \ SpkSeq!ToSet(f)
            = SpkSeq!ToSet(file)
<1> DEFINE m == Len(file)
           k == Len(f)
<1>1. /\ SpkSeq!ToSet(file) = {file[i] : i \in 1..m}
      /\ SpkSeq!ToSet(f) = {f[i] : i \in 1..k}
      /\ \A i \in 1..m : file[i] \in Nat
      /\ \A i \in 1..k : f[i] \in Nat
      /\ \A i \in 1..m, j \in 1..k : file[i] < f[j]
  BY Elements DEF InOrder
<1> HIDE DEF m, k
<1>2. ASSUME NEW x \in {file[i] : i \in 1..m}, x \in {f[i] : i \in 1..k}
      PROVE FALSE
  <2>1. PICK i \in 1..m : x = file[i] OBVIOUS
  <2>2. PICK j \in 1..k : x = f[j] BY <1>2
  <2>3. x \in Nat /\ x < x BY <1>1, <2>1, <2>2
  <2> QED BY <2>3
<1>3. SpkSeq!ToSet(file) \cap SpkSeq!ToSet(f) = {} BY <1>1, <1>2
<1>4. Len(<<>>) = 0 OBVIOUS
<1> QED BY <1>3, <1>4 DEF InOrder

LEMMA PlayDrop == PlayInv /\ SpkDrop => PlayInv'
<1> SUFFICES ASSUME PlayInv, SpkDrop PROVE PlayInv'
  OBVIOUS
<1>0. /\ SpkInv /\ SinkTypes(i2s, wav, played)
      /\ Kept(i2s, wav, played, spk.next)
      /\ spk.next \in 1..MaxSamples + 1
  BY DEF PlayInv
<1>1. SpkInv' BY <1>0, SpkDriver
<1> DEFINE z == [i2s EXCEPT !.fifo = <<>>]
           p == [played EXCEPT !.taken = @ \ SpkSeq!ToSet(i2s.fifo)]
           file == FileOf(wav)
<1>2. /\ DOMAIN z = I2sFields /\ z.fifo = <<>>
      /\ z.pending = i2s.pending /\ z.rate = i2s.rate /\ z.frac = i2s.frac
      /\ z.ckdiv = i2s.ckdiv
  BY <1>0 DEF SinkTypes, I2sFields
<1>3. /\ DOMAIN p = PlayedFields /\ p.popped = played.popped
      /\ p.frames = played.frames
      /\ p.taken = played.taken \ SpkSeq!ToSet(i2s.fifo)
  BY <1>0 DEF SinkTypes, PlayedFields
<1>4. Update(z, wav, p) /\ spk' = spk BY DEF SpkDrop, FlushTx
<1> HIDE DEF z, p
<1>5. /\ i2s.fifo \in Seq(Nat) /\ file \in Seq(Nat)
      /\ <<>> \in Seq(Nat) /\ SpkSeq!ToSet(<<>>) = {}
  <2>1. wav.disk \in Seq(Nat) /\ wav.buf \in Seq(Nat)
    BY <1>0 DEF SinkTypes, WavTypes
  <2>2. file \in Seq(Nat) BY <2>1, ConcatProperties DEF FileOf
  <2>3. DOMAIN <<>> = {} OBVIOUS
  <2> QED BY <1>0, <2>2, <2>3 DEF SinkTypes, SpkSeq!ToSet
<1>6. ASSUME wav.wanted
      PROVE  InOrder(file, <<>>, spk.next) /\ SpkSeq!ToSet(file) = p.taken
  <2>1. /\ InOrder(file, i2s.fifo, spk.next)
        /\ SpkSeq!ToSet(file) \cup SpkSeq!ToSet(i2s.fifo) = played.taken
    BY <1>0, <1>6 DEF Kept
  <2> HIDE DEF file
  <2> QED BY <1>3, <1>5, <2>1, FifoThrown
<1>7. SinkTypes(z, wav, p) BY <1>0, <1>2, <1>3, <1>5 DEF SinkTypes
<1>8. Kept(z, wav, p, spk.next)
  BY <1>0, <1>2, <1>3, <1>5, <1>6 DEF Kept
<1>9. /\ SinkTypes(i2s', wav', played')
      /\ Kept(i2s', wav', played', spk.next) /\ IdleFlushed'
  BY <1>4, <1>7, <1>8, UpdateKeeps
<1>10. i2s'.fifo = <<>> BY <1>0, <1>2, <1>4, Updated1 DEF SinkTypes
<1> QED BY <1>0, <1>1, <1>4, <1>9, <1>10, SpkAssumption DEF PlayInv

LEMMA PlayPush == PlayInv /\ SpkPush => PlayInv'
<1> SUFFICES ASSUME PlayInv, SpkPush PROVE PlayInv'
  OBVIOUS
<1>0. /\ SpkInv /\ SinkTypes(i2s, wav, played)
      /\ Kept(i2s, wav, played, spk.next)
      /\ spk.next \in 1..MaxSamples + 1 /\ spk.next <= MaxSamples
      /\ DOMAIN spk = {"at", "next", "left"}
  BY DEF PlayInv, SpkPush, SpkInv, SpkTypes
<1>1. SpkInv' BY <1>0, SpkPushStep
<1> DEFINE b == spk.next
           f == i2s.fifo
           k == Len(f)
           z == [i2s EXCEPT !.fifo = Append(@, spk.next)]
           p == [played EXCEPT !.taken = @ \cup {spk.next}]
           file == FileOf(wav)
           m == Len(file)
<1>2. k < TxDepth /\ k \in Nat /\ f \in Seq(Nat) /\ b \in Nat
  BY <1>0, SpkAssumption DEF SpkPush, SpkInv, SpkTypes, SpkInStep
<1>3. Update(z, wav, p) /\ spk'.next = spk.next + 1
  <2>1. ~ (Len(i2s.fifo) >= TxDepth) BY <1>2, SpkAssumption
  <2>2. spk'.next = spk.next + 1 BY <1>0 DEF SpkPush
  <2> QED BY <2>1, <2>2 DEF SpkPush, Push
<1>4. /\ DOMAIN z = I2sFields /\ z.fifo = Append(f, b)
      /\ z.pending = i2s.pending /\ z.rate = i2s.rate /\ z.frac = i2s.frac
      /\ z.ckdiv = i2s.ckdiv
  BY <1>0 DEF SinkTypes, I2sFields
<1>5. /\ DOMAIN p = PlayedFields /\ p.popped = played.popped
      /\ p.frames = played.frames /\ p.taken = played.taken \cup {b}
  BY <1>0 DEF SinkTypes, PlayedFields
<1> HIDE DEF z, p
<1>6. file \in Seq(Nat)
  <2>1. wav.disk \in Seq(Nat) /\ wav.buf \in Seq(Nat)
    BY <1>0 DEF SinkTypes, WavTypes
  <2> QED BY <2>1, ConcatProperties DEF FileOf
<1> DEFINE g == Append(f, b)
<1>7. /\ g \in Seq(Nat) /\ Len(g) = k + 1 /\ g[k + 1] = b
      /\ \A i \in 1..k : g[i] = f[i]
  BY <1>2, AppendProperties
<1>8. \A i \in 1..k + 1 : i \in 1..k \/ i = k + 1 BY <1>2
<1>9. SpkSeq!ToSet(g) = SpkSeq!ToSet(f) \cup {b}
  <2>1. /\ SpkSeq!ToSet(g) = {g[i] : i \in 1..k + 1}
        /\ SpkSeq!ToSet(f) = {f[i] : i \in 1..k}
    BY <1>2, <1>7, Elements
  <2>2. 1..k \subseteq 1..k + 1 /\ k + 1 \in 1..k + 1 BY <1>2
  <2> HIDE DEF f, g, k, b
  <2>3. ASSUME NEW x \in SpkSeq!ToSet(g)
        PROVE  x \in SpkSeq!ToSet(f) \cup {b}
    BY <1>7, <1>8, <2>1
  <2>4. ASSUME NEW x \in SpkSeq!ToSet(f) \cup {b}
        PROVE  x \in SpkSeq!ToSet(g)
    <3>1. CASE x = b BY <1>7, <2>1, <2>2, <3>1
    <3>2. CASE x \in SpkSeq!ToSet(f)
      <4>1. PICK i \in 1..k : x = f[i] BY <2>1, <3>2
      <4>2. i \in 1..k + 1 /\ x = g[i] BY <1>7, <2>2, <4>1
      <4> QED BY <2>1, <4>2
    <3> QED BY <3>1, <3>2
  <2> QED BY <2>3, <2>4
<1>10. ASSUME wav.wanted PROVE InOrder(file, g, b + 1)
  <2>1. InOrder(file, f, b) BY <1>0, <1>10 DEF Kept
  <2>2. /\ \A i \in 1..m : file[i] \in Nat
        /\ \A i \in 1..k : f[i] \in Nat
    BY <1>2, <1>6
  <2>3. /\ Rising(file)
        /\ \A i, j \in 1..k : i < j => f[i] < f[j]
        /\ \A i \in 1..m, j \in 1..k : file[i] < f[j]
        /\ \A i \in 1..m : file[i] < b
        /\ \A i \in 1..k : f[i] < b
    BY <2>1 DEF InOrder
  <2> HIDE DEF file, f, g, k, b, m
  <2>4. ASSUME NEW i \in 1..k + 1, NEW j \in 1..k + 1, i < j
        PROVE  g[i] < g[j]
    <3>1. i \in 1..k BY <1>2, <2>4
    <3> QED BY <1>7, <1>8, <2>3, <2>4, <3>1
  <2>5. ASSUME NEW i \in 1..m, NEW j \in 1..k + 1 PROVE file[i] < g[j]
    BY <1>7, <1>8, <2>3
  <2>6. \A i \in 1..m : file[i] < b + 1 BY <1>2, <2>2, <2>3
  <2>7. \A i \in 1..k + 1 : g[i] < b + 1 BY <1>2, <1>7, <1>8, <2>2, <2>3
  <2> QED BY <1>7, <2>3, <2>4, <2>5, <2>6, <2>7 DEF InOrder, m
<1>11. SinkTypes(z, wav, p) BY <1>0, <1>4, <1>5, <1>7 DEF SinkTypes
<1>12. Kept(z, wav, p, b + 1)
  <2> HIDE DEF g, b
  <2>1. ASSUME wav.wanted
        PROVE  SpkSeq!ToSet(FileOf(wav)) \cup SpkSeq!ToSet(g) = p.taken
    <3>1. SpkSeq!ToSet(FileOf(wav)) \cup SpkSeq!ToSet(f) = played.taken
      BY <1>0, <2>1 DEF Kept
    <3> HIDE DEF f
    <3> QED BY <1>5, <1>9, <3>1
  <2>2. z.fifo = g BY <1>4 DEF g
  <2> QED BY <1>0, <1>4, <1>5, <1>10, <2>1, <2>2 DEF Kept
<1>13. /\ SinkTypes(i2s', wav', played')
       /\ Kept(i2s', wav', played', spk'.next) /\ IdleFlushed'
  BY <1>3, <1>11, <1>12, UpdateKeeps
<1>14. i2s'.fifo = g BY <1>0, <1>3, <1>4, Updated1 DEF SinkTypes
<1>15. Len(i2s'.fifo) <= TxDepth BY <1>2, <1>7, <1>14, SpkAssumption
<1>16. spk'.next \in 1..MaxSamples + 1 BY <1>0, <1>3, SpkAssumption
<1> QED BY <1>1, <1>13, <1>15, <1>16 DEF PlayInv

(* The carried remainder and the frames after n more samples.              *)
FractionGoes(r, a, n, W) ==
  LET all == ((a * W) % r) + n * W
  IN /\ all % r = ((a + n) * W) % r
     /\ ((a * W) \div r) + (all \div r) = ((a + n) * W) \div r

LEMMA FractionCarried ==
  ASSUME NEW r \in Nat \ {0}, NEW a \in Nat, NEW n \in Nat, NEW W \in Nat
  PROVE  FractionGoes(r, a, n, W)
<1> DEFINE x == a * W
           y == n * W
           had == x % r
           all == had + y
           q1 == x \div r
           q2 == all \div r
           f2 == all % r
           t == (a + n) * W
<1>1. x \in Nat /\ y \in Nat /\ t = x + y BY SMT
<1> HIDE DEF x, y, t
<1>2. q1 \in Int /\ had \in 0..r - 1 /\ x = q1 * r + had BY <1>1, DivMod
<1>3. all \in Int BY <1>1, <1>2
<1> HIDE DEF had, q1
<1>4. q2 \in Int /\ f2 \in 0..r - 1 /\ all = q2 * r + f2
  <2> HIDE DEF all
  <2> QED BY <1>3, DivMod
<1>5. all = had + y OBVIOUS
<1> HIDE DEF all, q2, f2
<1>6. t = (q1 + q2) * r + f2
  <2> DEFINE u == q1 * r
             v == q2 * r
  <2>1. u \in Int /\ v \in Int /\ (q1 + q2) * r = u + v BY <1>2, <1>4, SMT
  <2>2. x = u + had /\ all = v + f2 BY <1>2, <1>4
  <2> HIDE DEF u, v
  <2> QED BY <1>1, <1>2, <1>4, <1>5, <2>1, <2>2
<1>7. t \in Int /\ q1 + q2 \in Int BY <1>1, <1>2, <1>4
<1>8. t % r = f2 /\ t \div r = q1 + q2
  <2> DEFINE q == q1 + q2
  <2> HIDE DEF q
  <2>1. q \in Int /\ t = q * r + f2 BY <1>6, <1>7 DEF q
  <2>2. t % r = f2 /\ t \div r = q BY <1>4, <1>7, <2>1, DivUnique, Zenon
  <2> QED BY <2>2 DEF q
<1> QED BY <1>8 DEF x, y, t, had, all, q1, q2, f2, FractionGoes

LEMMA PlayDrain == PlayInv /\ Drain => PlayInv'
<1> SUFFICES ASSUME PlayInv, Drain PROVE PlayInv'
  OBVIOUS
<1>0. /\ SpkInv /\ SinkTypes(i2s, wav, played)
      /\ Kept(i2s, wav, played, spk.next)
      /\ Len(i2s.fifo) <= TxDepth /\ spk.next \in 1..MaxSamples + 1
  BY DEF PlayInv
<1>1. SpkInv' BY <1>0, DrainStep
<1>2. /\ i2s.pending /\ i2s.rate = i2s.ckdiv /\ spk' = spk
      /\ DOMAIN i2s = I2sFields /\ i2s.fifo \in Seq(Nat)
      /\ Len(i2s.fifo) \in Nat
      /\ i2s.rate \in PlayRates \cup {WavRate}
  BY <1>0 DEF Drain, Drain1, SinkTypes, Kept
<1> DEFINE f == i2s.fifo
           n == IF Len(f) < TxTrigger THEN Len(f) ELSE TxTrigger
           pre == SubSeq(f, 1, n)
           rest == SubSeq(f, n + 1, Len(f))
           up == Upsampled(pre, i2s.frac, i2s.ckdiv)
           s == [i2s EXCEPT !.started = TRUE, !.rate = i2s.ckdiv,
                            !.fifo = SubSeq(@, n + 1, Len(@))]
           file == FileOf(wav)
<1>3. n \in 0..Len(f) /\ n \in Nat BY <1>2, SpkAssumption
<1>4. IF n = 0 THEN Update(s, wav, played)
      ELSE \E w \in OpenWav(wav) :
        Update(IF w.open THEN [s EXCEPT !.frac = up.frac] ELSE s,
               IF w.open THEN Written(w, up.out) ELSE w,
               [played EXCEPT !.popped = @ + n, !.frames = @ + Len(up.out)])
  BY DEF Drain, Drain1
<1>5. /\ DOMAIN s = I2sFields /\ s.fifo = rest /\ s.pending = i2s.pending
      /\ s.rate = i2s.rate /\ s.frac = i2s.frac /\ s.ckdiv = i2s.ckdiv
  <2> HIDE DEF n
  <2> QED BY <1>2 DEF I2sFields
<1> HIDE DEF n, s, up
<1>6. /\ pre \in Seq(Nat) /\ Len(pre) = n /\ rest \in Seq(Nat)
      /\ Len(rest) = Len(f) - n /\ \A i \in 1..n : pre[i] = f[i]
  BY <1>2, <1>3, Halves
<1>7. ASSUME NEW z, NEW w, NEW p, Update(z, w, p), SinkTypes(z, w, p),
             Kept(z, w, p, spk.next), z.fifo = rest
      PROVE  PlayInv'
  <2>1. /\ SinkTypes(i2s', wav', played')
        /\ Kept(i2s', wav', played', spk'.next) /\ IdleFlushed'
    BY <1>2, <1>7, UpdateKeeps
  <2>2. i2s'.fifo = rest
    <3> HIDE DEF rest
    <3> QED BY <1>7, Updated1 DEF SinkTypes
  <2>3. Len(i2s'.fifo) <= TxDepth
    <3> HIDE DEF rest
    <3> QED BY <1>0, <1>2, <1>3, <1>6, <2>2, SpkAssumption
  <2> QED BY <1>0, <1>1, <1>2, <2>1, <2>3 DEF PlayInv
<1>8. CASE n = 0
  <2>1. Update(s, wav, played) BY <1>4, <1>8
  <2>2. rest = f BY <1>2, <1>8, SubSeqFull
  <2> HIDE DEF rest
  <2>3. SinkTypes(s, wav, played) /\ Kept(s, wav, played, spk.next)
    BY <1>0, <1>5, <2>2, SameKept
  <2> QED BY <1>5, <1>7, <2>1, <2>3
<1>9. CASE n # 0
  <2>1. PICK w \in OpenWav(wav) :
          Update(IF w.open THEN [s EXCEPT !.frac = up.frac] ELSE s,
                 IF w.open THEN Written(w, up.out) ELSE w,
                 [played EXCEPT !.popped = @ + n, !.frames = @ + Len(up.out)])
    BY <1>4, <1>9
  <2> DEFINE p == [played EXCEPT !.popped = @ + n,
                                 !.frames = @ + Len(up.out)]
             z == [s EXCEPT !.frac = up.frac]
  <2>2. /\ DOMAIN p = PlayedFields /\ p.popped = played.popped + n
        /\ p.frames = played.frames + Len(up.out) /\ p.taken = played.taken
    BY <1>0 DEF SinkTypes, PlayedFields
  <2>3. /\ DOMAIN z = I2sFields /\ z.fifo = rest /\ z.pending = i2s.pending
        /\ z.rate = i2s.rate /\ z.frac = up.frac /\ z.ckdiv = i2s.ckdiv
    BY <1>5 DEF I2sFields
  <2>4. p.popped \in Nat BY <1>0, <1>3, <2>2 DEF SinkTypes
  <2>5. /\ WavTypes(wav) /\ DOMAIN wav = WavFields
        /\ (wav.open => wav.wanted)
    BY <1>0 DEF SinkTypes, WavTypes
  <2>6. /\ WavTypes(w) /\ (w.open => w.wanted)
        /\ w.disk = wav.disk /\ w.buf = wav.buf /\ w.head = wav.head
        /\ (w.open => wav.wanted) /\ (w.wanted => w.open)
    <3>1. CASE wav.wanted /\ ~wav.open
      <4>1. \/ w = [wav EXCEPT !.open = TRUE]
            \/ w = [wav EXCEPT !.wanted = FALSE]
        BY <3>1 DEF OpenWav
      <4>2. /\ DOMAIN w = WavFields /\ w.disk = wav.disk /\ w.buf = wav.buf
            /\ w.head = wav.head
            /\ \/ w.open = TRUE /\ w.wanted = wav.wanted
               \/ w.open = wav.open /\ w.wanted = FALSE
        BY <2>5, <4>1 DEF WavFields
      <4> QED BY <2>5, <3>1, <4>2 DEF WavTypes
    <3>2. CASE ~ (wav.wanted /\ ~wav.open)
      <4>1. w = wav BY <3>2 DEF OpenWav
      <4> QED BY <2>5, <3>2, <4>1
    <3> QED BY <3>1, <3>2
  <2> HIDE DEF p, z
  <2>7. CASE ~w.open
    <3>1. Update(s, w, p) BY <2>1, <2>7 DEF p
    <3>2. SinkTypes(s, w, p)
      <4> HIDE DEF rest
      <4> QED BY <1>0, <1>2, <1>5, <1>6, <2>2, <2>4, <2>6 DEF SinkTypes
    <3>3. Kept(s, w, p, spk.next) BY <1>2, <1>5, <2>6, <2>7 DEF Kept
    <3> QED BY <1>5, <1>7, <3>1, <3>2, <3>3
  <2>8. CASE w.open
    <3>1. Update(z, Written(w, up.out), p) BY <2>1, <2>8 DEF p, z
    <3>2. wav.wanted BY <2>6, <2>8
    <3>3. /\ wav.head = Len(wav.disk) /\ InOrder(file, f, spk.next)
          /\ SpkSeq!ToSet(file) \cup SpkSeq!ToSet(f) = played.taken
          /\ i2s.frac = (played.popped * WavRate) % i2s.rate
          /\ played.frames = (played.popped * WavRate) \div i2s.rate
      BY <1>0, <3>2 DEF Kept
    <3> DEFINE rate == i2s.rate
               frac == i2s.frac
               a == played.popped
               all == frac + n * WavRate
    <3>4. /\ rate \in 1..WavRate /\ rate \in Nat \ {0}
          /\ WavRate <= UpRatio * rate /\ WavRate \in Nat /\ a \in Nat
      BY <1>0, <1>2, RatesArePositive, SpkAssumption DEF SinkTypes
    <3>5. frac \in 0..rate - 1
      <4> HIDE DEF rate
      <4>1. a * WavRate \in Int BY <3>4
      <4> QED BY <3>3, <3>4, <4>1, DivMod DEF rate
    <3>6. Rising(pre)
      <4>1. \A i, j \in 1..Len(f) : i < j => f[i] < f[j]
        BY <3>3 DEF InOrder
      <4>2. ASSUME NEW i \in 1..n, NEW j \in 1..n, i < j
            PROVE  pre[i] <= pre[j]
        <5>1. i \in 1..Len(f) /\ j \in 1..Len(f) /\ pre[i] = f[i]
              /\ pre[j] = f[j]
          <6> HIDE DEF pre, f
          <6> QED BY <1>2, <1>3, <1>6
        <5>2. f[i] \in Nat /\ f[j] \in Nat BY <1>2, <5>1
        <5> HIDE DEF pre, f
        <5> QED BY <4>1, <4>2, <5>1, <5>2
      <4> HIDE DEF pre
      <4> QED BY <1>6, <4>2 DEF Rising
    <3>7. /\ up.out \in Seq(Nat) /\ Rising(up.out)
          /\ Len(up.out) = all \div rate /\ up.frac = all % rate
          /\ SpkSeq!ToSet(up.out) = SpkSeq!ToSet(pre)
      <4>1. Len(pre) <= TxDepth
        <5> HIDE DEF pre
        <5> QED BY <1>0, <1>2, <1>3, <1>6, SpkAssumption
      <4>2. up = Upsampled(pre, frac, rate) BY <1>2 DEF up
      <4> HIDE DEF pre, frac, rate
      <4> QED BY <1>6, <3>4, <3>5, <3>6, <4>1, <4>2, ResamplingExact
    <3> DEFINE v == Written(w, up.out)
    <3>8. /\ WavTypes(v) /\ v.open = w.open /\ v.wanted = w.wanted
          /\ v.disk \o v.buf = (w.disk \o w.buf) \o up.out
          /\ v.head = Len(v.disk)
      BY <2>6, <3>3, <3>7, WrittenKeeps
    <3>9. FileOf(v) = file \o up.out BY <2>6, <3>8 DEF FileOf
    <3> HIDE DEF v
    <3>10. /\ InOrder(FileOf(v), rest, spk.next)
           /\ SpkSeq!ToSet(FileOf(v)) \cup SpkSeq!ToSet(rest) = played.taken
      <4>1. file \in Seq(Nat)
        <5>1. wav.disk \in Seq(Nat) /\ wav.buf \in Seq(Nat)
          BY <2>5 DEF WavTypes
        <5> QED BY <5>1, ConcatProperties DEF FileOf
      <4>2. spk.next \in Nat BY <1>0, SpkAssumption
      <4> HIDE DEF file
      <4> QED BY <1>2, <1>3, <3>3, <3>7, <3>9, <4>1, <4>2, FifoToFile
    <3>11. /\ z.frac = (p.popped * WavRate) % z.rate
           /\ p.frames = (p.popped * WavRate) \div z.rate
      <4>1. /\ all % rate = ((a + n) * WavRate) % rate
            /\ ((a * WavRate) \div rate) + (all \div rate)
               = ((a + n) * WavRate) \div rate
        <5>1. frac = (a * WavRate) % rate BY <3>3
        <5> HIDE DEF rate, a, frac, n
        <5> DEFINE b == ((a * WavRate) % rate) + n * WavRate
        <5>2. /\ b % rate = ((a + n) * WavRate) % rate
              /\ ((a * WavRate) \div rate) + (b \div rate)
                 = ((a + n) * WavRate) \div rate
          <6>1. FractionGoes(rate, a, n, WavRate)
            BY <1>3, <3>4, FractionCarried, Zenon
          <6> QED BY <6>1, Zenon DEF FractionGoes, b
        <5>3. all = b BY <5>1
        <5> HIDE DEF b, all
        <5> QED BY <5>2, <5>3
      <4>2. /\ z.frac = all % rate /\ z.rate = rate /\ p.popped = a + n
            /\ p.frames = ((a * WavRate) \div rate) + (all \div rate)
        BY <2>2, <2>3, <3>3, <3>7
      <4> HIDE DEF rate, a, all
      <4> QED BY <4>1, <4>2
    <3>12. SinkTypes(z, v, p)
      <4> HIDE DEF rest
      <4> QED BY <1>0, <1>2, <1>6, <2>2, <2>3, <2>4, <2>6, <3>8 DEF SinkTypes
    <3>13. Kept(z, v, p, spk.next)
      <4> HIDE DEF rest
      <4> QED BY <1>2, <2>2, <2>3, <2>8, <3>8, <3>10, <3>11 DEF Kept
    <3> QED BY <1>7, <2>3, <3>1, <3>12, <3>13 DEF v
  <2> QED BY <2>6, <2>7, <2>8 DEF WavTypes
<1> QED BY <1>8, <1>9

LEMMA PlayInitial == SpkInit => PlayInv
<1> SUFFICES ASSUME SpkInit PROVE PlayInv
  OBVIOUS
<1>1. SpkInv BY DEF SpkInit, I2sAtReset, I2sFields, SpkInv, SpkTypes, SpkInStep
<1>2. <<>> \in Seq(Nat) /\ Len(<<>>) = 0 /\ SpkSeq!ToSet(<<>>) = {}
      /\ <<>> \o <<>> = <<>>
  <2>1. DOMAIN <<>> = {} OBVIOUS
  <2>2. <<>> \in Seq(Nat) OBVIOUS
  <2> QED BY <2>1, <2>2, ConcatEmptySeq DEF SpkSeq!ToSet
<1>3. WavRate \in PlayRates \cup {WavRate} OBVIOUS
<1>4. SinkTypes(i2s, wav, played)
  BY <1>2 DEF SpkInit, I2sAtReset, I2sFields, SinkTypes, WavTypes, WavFields,
     PlayedFields
<1>5. InOrder(<<>>, <<>>, 1) BY <1>2 DEF InOrder, Rising
<1>6. Kept(i2s, wav, played, spk.next)
  <2>1. /\ wav.disk = <<>> /\ wav.buf = <<>> /\ wav.head = 0 /\ i2s.fifo = <<>>
        /\ i2s.frac = 0 /\ i2s.rate = WavRate /\ i2s.ckdiv = WavRate
        /\ played.taken = {} /\ played.popped = 0 /\ played.frames = 0
        /\ spk.next = 1
    BY DEF SpkInit, I2sAtReset
  <2> QED BY <1>2, <1>3, <1>5, <2>1, NothingPopped DEF Kept, FileOf
<1>7. IdleFlushed /\ Len(i2s.fifo) <= TxDepth /\ spk.next \in 1..MaxSamples + 1
  BY <1>2, SpkAssumption DEF SpkInit, I2sAtReset, IdleFlushed
<1> QED BY <1>1, <1>4, <1>6, <1>7 DEF PlayInv

LEMMA PlayReset == PlayInv /\ SpkReset => PlayInv'
<1> SUFFICES ASSUME PlayInv, SpkReset PROVE PlayInv'
  OBVIOUS
<1>0. /\ SpkInv /\ SinkTypes(i2s, wav, played)
      /\ Kept(i2s, wav, played, spk.next)
      /\ spk.next \in 1..MaxSamples + 1
  BY DEF PlayInv
<1>1. SpkInv' BY <1>0, SpkResetStep
<1>2. /\ DOMAIN i2s' = I2sFields /\ i2s'.fifo = <<>> /\ i2s'.pending = FALSE
      /\ i2s'.rate = WavRate /\ i2s'.ckdiv = WavRate /\ i2s'.frac = 0
  BY DEF SpkReset, I2sAtReset, I2sFields
<1>3. /\ DOMAIN played' = PlayedFields /\ played'.popped = 0
      /\ played'.frames = 0
      /\ played'.taken = played.taken \ SpkSeq!ToSet(i2s.fifo)
  BY DEF SpkReset, PlayedFields
<1>4. spk'.next = spk.next
  BY <1>0 DEF SpkReset, SpkInv, SpkTypes
<1>5. /\ WavTypes(wav) /\ wav.disk \in Seq(Nat) /\ wav.buf \in Seq(Nat)
      /\ (wav.open => wav.wanted) /\ i2s.fifo \in Seq(Nat)
  BY <1>0 DEF SinkTypes, WavTypes
<1> DEFINE file == FileOf(wav)
<1>6. file \in Seq(Nat) BY <1>5, ConcatProperties DEF FileOf
<1>7. /\ WavTypes(wav') /\ wav'.open = wav.open /\ wav'.wanted = wav.wanted
      /\ wav.wanted => /\ FileOf(wav') = file /\ wav'.buf = <<>>
                       /\ wav'.head = Len(wav'.disk)
                       /\ ~wav.open => wav'.disk = <<>>
  <2>1. CASE wav.open
    <3>1. wav' = Flushed(wav) BY <2>1 DEF SpkReset
    <3>2. /\ WavTypes(wav') /\ wav'.open = wav.open
          /\ wav'.wanted = wav.wanted /\ wav'.disk = file /\ wav'.buf = <<>>
          /\ wav'.head = Len(wav'.disk)
      BY <1>5, <3>1, FlushedKeeps DEF FileOf
    <3> HIDE DEF file
    <3>3. file \o <<>> = file BY <1>6, ConcatEmptySeq
    <3>4. FileOf(wav') = file \o <<>> BY <3>2 DEF FileOf
    <3> QED BY <2>1, <3>2, <3>3, <3>4
  <2>2. CASE ~wav.open
    <3>1. wav' = wav BY <2>2 DEF SpkReset
    <3> QED BY <1>0, <1>5, <2>2, <3>1 DEF Kept
  <2> QED BY <2>1, <2>2
<1> HIDE DEF file
<1>8. <<>> \in Seq(Nat) /\ Len(<<>>) = 0 /\ SpkSeq!ToSet(<<>>) = {}
  <2>1. DOMAIN <<>> = {} OBVIOUS
  <2>2. <<>> \in Seq(Nat) OBVIOUS
  <2> QED BY <2>1, <2>2 DEF SpkSeq!ToSet
<1>9. ASSUME wav.wanted
      PROVE  InOrder(file, <<>>, spk.next) /\ SpkSeq!ToSet(file) = played'.taken
  <2>1. /\ InOrder(file, i2s.fifo, spk.next)
        /\ SpkSeq!ToSet(file) \cup SpkSeq!ToSet(i2s.fifo) = played.taken
    BY <1>0, <1>9 DEF Kept, file
  <2> QED BY <1>3, <1>5, <1>6, <1>8, <2>1, FifoThrown
<1>10. SinkTypes(i2s', wav', played')
  <2>1. /\ i2s'.fifo \in Seq(Nat) /\ i2s'.pending \in BOOLEAN
        /\ i2s'.rate \in PlayRates \cup {WavRate}
        /\ i2s'.ckdiv \in PlayRates \cup {WavRate}
    BY <1>2, <1>8
  <2>2. played'.popped \in Nat BY <1>3
  <2>3. wav'.open => wav'.wanted BY <1>5, <1>7
  <2> QED BY <1>2, <1>3, <1>7, <2>1, <2>2, <2>3 DEF SinkTypes
<1>11. Kept(i2s', wav', played', spk'.next)
  <2>1. WavRate \in PlayRates \cup {WavRate} OBVIOUS
  <2> QED BY <1>2, <1>3, <1>4, <1>7, <1>8, <1>9, <2>1, NothingPopped DEF Kept
<1>12. IdleFlushed' BY <1>7 DEF IdleFlushed
<1> QED BY <1>0, <1>1, <1>2, <1>4, <1>8, <1>10, <1>11, <1>12, SpkAssumption
        DEF PlayInv

LEMMA PlayStep == PlayInv /\ (SpkNext \/ SpkReset) => PlayInv'
BY PlayDriver, PlayDrop, PlayPush, PlayDrain, PlayReset DEF SpkNext

LEMMA PlayStutters == PlayInv /\ UNCHANGED spkVars => PlayInv'
<1> SUFFICES ASSUME PlayInv, UNCHANGED spkVars PROVE PlayInv'
  OBVIOUS
<1>1. i2s' = i2s /\ wav' = wav /\ spk' = spk /\ played' = played BY DEF spkVars
<1>2. SpkInv' BY <1>1 DEF PlayInv, SpkInv, SpkTypes, SpkInStep
<1> QED BY <1>1, <1>2 DEF PlayInv, IdleFlushed

LEMMA PlayImplies == PlayInv => PlaybackIntact
<1> SUFFICES ASSUME PlayInv, wav.wanted PROVE
    LET out == FileOf(wav) \o i2s.fifo IN
    /\ SpkSeq!ToSet(out) = played.taken
    /\ \A i \in 2..Len(out) : out[i - 1] <= out[i]
    /\ played.frames = (played.popped * WavRate) \div i2s.rate
    /\ wav.head = Len(wav.disk)
    /\ ~i2s.pending => wav.buf = <<>>
  BY DEF PlaybackIntact, FileOf
<1> DEFINE file == FileOf(wav)
           f == i2s.fifo
           out == file \o f
           m == Len(file)
           k == Len(f)
<1>1. /\ SinkTypes(i2s, wav, played) /\ Kept(i2s, wav, played, spk.next)
      /\ IdleFlushed
  BY DEF PlayInv
<1>2. f \in Seq(Nat) /\ file \in Seq(Nat)
  <2>1. wav.disk \in Seq(Nat) /\ wav.buf \in Seq(Nat) /\ f \in Seq(Nat)
    BY <1>1 DEF SinkTypes, WavTypes
  <2> QED BY <2>1, ConcatProperties DEF FileOf
<1>3. /\ InOrder(file, f, spk.next)
      /\ SpkSeq!ToSet(file) \cup SpkSeq!ToSet(f) = played.taken
      /\ played.frames = (played.popped * WavRate) \div i2s.rate
      /\ wav.head = Len(wav.disk)
  BY <1>1 DEF Kept
<1>4. ~i2s.pending => wav.buf = <<>> BY <1>1 DEF IdleFlushed
<1> HIDE DEF file, f
<1>5. SpkSeq!ToSet(out) = played.taken BY <1>2, <1>3, JoinedElements
<1>6. /\ m \in Nat /\ k \in Nat /\ Len(out) = m + k
      /\ \A i \in 1..m + k : out[i] = IF i <= m THEN file[i] ELSE f[i - m]
      /\ \A i \in 1..m : file[i] \in Nat
      /\ \A i \in 1..k : f[i] \in Nat
  BY <1>2, ConcatProperties
<1>7. /\ \A i, j \in 1..m : i < j => file[i] <= file[j]
      /\ \A i, j \in 1..k : i < j => f[i] < f[j]
      /\ \A i \in 1..m, j \in 1..k : file[i] < f[j]
  BY <1>3 DEF InOrder, Rising
<1> HIDE DEF out, m, k
<1>8. ASSUME NEW i \in 2..m + k PROVE out[i - 1] <= out[i]
  <2>1. i \in 1..m + k /\ i - 1 \in 1..m + k /\ i - 1 < i BY <1>6
  <2>2. CASE i <= m
    <3>1. i \in 1..m /\ i - 1 \in 1..m /\ i - 1 <= m BY <1>6, <2>2
    <3>2. out[i] = file[i] /\ out[i - 1] = file[i - 1]
      BY <1>6, <2>1, <2>2, <3>1
    <3> QED BY <1>7, <2>1, <3>1, <3>2
  <2>3. CASE i - 1 <= m /\ ~ (i <= m)
    <3>1. i - 1 \in 1..m /\ i - m \in 1..k BY <1>6, <2>3
    <3>2. out[i] = f[i - m] /\ out[i - 1] = file[i - 1]
      BY <1>6, <2>1, <2>3
    <3>3. file[i - 1] \in Nat /\ f[i - m] \in Nat BY <1>6, <3>1
    <3>4. file[i - 1] < f[i - m] BY <1>7, <3>1
    <3> QED BY <3>2, <3>3, <3>4
  <2>4. CASE ~ (i - 1 <= m)
    <3>1. i - 1 - m \in 1..k /\ i - m \in 1..k /\ i - 1 - m < i - m
          /\ ~ (i <= m)
      BY <1>6, <2>4
    <3>2. out[i] = f[i - m] /\ out[i - 1] = f[i - 1 - m]
      BY <1>6, <2>1, <2>4, <3>1
    <3>3. f[i - 1 - m] \in Nat /\ f[i - m] \in Nat BY <1>6, <3>1
    <3>4. f[i - 1 - m] < f[i - m] BY <1>7, <3>1
    <3> QED BY <3>2, <3>3, <3>4
  <2> QED BY <1>6, <2>2, <2>3, <2>4
<1> QED BY <1>3, <1>4, <1>5, <1>6, <1>8 DEF out, file, f

LEMMA PlayInvariant == Spec => []PlayInv
<1>1. Init => PlayInv BY PlayInitial DEF Init
<1>2. PlayInv /\ [Next]_boardVars => PlayInv'
  BY PlayStep, PlayStutters
  DEF Next, boardVars, PowerMoves, BusMoves, MediaMove, OthersMove, HostAsks,
      MachineReset, MediaStay
<1> QED BY <1>1, <1>2, PTL DEF Spec

(* The file has what the firmware played, in order and each sample for its *)
(* time, for every FIFO, trigger, rate and block of the writer             *)
(* (halo_i2s_sink, halo_wav_writer_write, halo_i2s_update).                *)
THEOREM PlaybackRecorded == Spec => []PlaybackIntact
<1> QED BY PlayInvariant, PlayImplies, PTL

-----------------------------------------------------------------------------
(* The microphone: what was captured, and what became of it.              *)
PdmFields == {"chan", "useDma", "thr", "fifo", "last", "half", "over",
              "stalled", "tick", "frac"}

(* Until there is a burst in the FIFO the DMA is held off.                 *)
IsParked(s) == s.stalled = ~(s.useDma /\ Len(s.fifo) >= WatermarkOf(s))

LEMMA ParkedOnly ==
  ASSUME NEW s, DOMAIN s = PdmFields
  PROVE  LET z == Parked(s) IN
         /\ DOMAIN z = PdmFields /\ IsParked(z)
         /\ z.useDma = s.useDma /\ z.thr = s.thr /\ z.fifo = s.fifo
         /\ z.last = s.last /\ z.half = s.half /\ z.tick = s.tick
         /\ z.frac = s.frac
<1> DEFINE b == ~(s.useDma /\ Len(s.fifo) >= WatermarkOf(s))
           z == [s EXCEPT !.stalled = b]
<1> HIDE DEF b
<1>1. /\ DOMAIN z = PdmFields /\ z.stalled = b
      /\ z.useDma = s.useDma /\ z.thr = s.thr /\ z.fifo = s.fifo
      /\ z.last = s.last /\ z.half = s.half /\ z.tick = s.tick
      /\ z.frac = s.frac
  BY DEF PdmFields
<1>2. Parked(s) = z BY DEF Parked, b
<1> HIDE DEF z
<1>3. WatermarkOf(z) = WatermarkOf(s) BY <1>1 DEF WatermarkOf
<1> QED BY <1>1, <1>2, <1>3 DEF IsParked, b

Climbs(f) == \A i, j \in 1..Len(f) : i < j => f[i] < f[j]

(* The types, and where the driver and the burst are.                      *)
CaptureTypes ==
  /\ DOMAIN pdm = PdmFields /\ pdm.fifo \in Seq(Nat)
  /\ Len(pdm.fifo) <= PdmDepth /\ pdm.thr \in {0, Threshold}
  /\ pdm.half \in BOOLEAN /\ pdm.useDma \in BOOLEAN /\ pdm.frac \in Nat
  /\ DOMAIN dma = {"on", "beats", "lo", "has"}
  /\ dma.on \in BOOLEAN /\ dma.has \in BOOLEAN
  /\ DOMAIN caught = {"made", "lost", "reads", "words"}
  /\ caught.made \in Nat /\ caught.words \in Seq(Nat \X Nat)
  /\ mic \in {"off", "clear", "set", "armed", "on", "stop", "killed"}

(* A burst finds the sets it needs, and its halves where the port is.      *)
DmaInStep ==
  /\ dma.on <=> mic \in {"armed", "on", "stop"}
  /\ ~dma.on => dma.beats = 0 /\ ~dma.has
  /\ dma.on => (pdm.half <=> dma.has)
  /\ dma.has => dma.lo = pdm.last
  /\ \E k \in 0..Len(pdm.fifo) :
       k <= Threshold /\ dma.beats = 2 * k + (IF dma.has THEN 1 ELSE 0)
  /\ dma.beats <= 2 * Threshold
  /\ mic \in {"clear", "set"} => ~pdm.half
  /\ mic \in {"set", "armed", "on", "stop"} => pdm.thr = Threshold
  /\ IsParked(pdm)

(* Of the samples made the words have those that are neither lost, nor in  *)
(* the FIFO, nor held by the DMA; and all are in this order.               *)
Accounted(fifo, held, c) ==
  LET queued == MicSeq!ToSet(fifo)
      w == c.words
  IN
  /\ Climbs(fifo)
  /\ held \cup queued \cup c.lost \subseteq 1..c.made
  /\ c.lost \cap (held \cup queued) = {}
  /\ \A h \in held, x \in queued : h < x
  /\ \A i, j \in 1..Len(w) : i < j => w[i][1] < w[j][1]
  /\ \A i \in 1..Len(w), x \in held \cup queued : w[i][1] < x
  /\ \A i \in 1..Len(w) : w[i][1] = w[i][2]
  /\ {w[i][1] : i \in 1..Len(w)} = 1..c.made \ (c.lost \cup queued \cup held)

(* The file's position is what was read of it comes to at its rate.        *)
FileOnTime ==
  /\ DOMAIN src = {"file", "tone"} /\ src.tone \in BOOLEAN
  /\ DOMAIN src.file = {"rate", "pos", "frac"}
  /\ caught.reads \in Nat /\ src.file.pos \in 0..FileLen - 1
  /\ src.file = NoFile \/
       /\ src.file.rate \in Nat
       /\ src.file.frac = (caught.reads * src.file.rate) % MicRate
       /\ src.file.pos =
            ((caught.reads * src.file.rate) \div MicRate) % FileLen

CaptureInv ==
  CaptureTypes /\ DmaInStep /\ Accounted(pdm.fifo, Held(dma), caught)
  /\ FileOnTime

LEMMA QueuedAre ==
  ASSUME NEW f \in Seq(Nat)
  PROVE  /\ MicSeq!ToSet(f) = {f[i] : i \in 1..Len(f)}
         /\ MicSeq!ToSet(f) = SpkSeq!ToSet(f)
<1>1. DOMAIN f = 1..Len(f) OBVIOUS
<1> QED BY <1>1 DEF MicSeq!ToSet, SpkSeq!ToSet

LEMMA FirstOut ==
  ASSUME NEW f \in Seq(Nat), f # <<>>, Climbs(f)
  PROVE  /\ Tail(f) \in Seq(Nat) /\ Len(Tail(f)) = Len(f) - 1 /\ Climbs(Tail(f))
         /\ Head(f) \in Nat
         /\ MicSeq!ToSet(f) = {Head(f)} \cup MicSeq!ToSet(Tail(f))
         /\ \A x \in MicSeq!ToSet(Tail(f)) : Head(f) < x
<1> DEFINE t == Tail(f)
           k == Len(f)
           h == Head(f)
<1>1. /\ t \in Seq(Nat) /\ Len(t) = k - 1 /\ h \in Nat
      /\ \A i \in 1..Len(t) : t[i] = f[i + 1]
  BY HeadTailProperties
<1>2. k \in Nat \ {0} /\ h = f[1] BY EmptySeq
<1>3. \A i, j \in 1..k : i < j => f[i] < f[j] BY DEF Climbs
<1>4. /\ MicSeq!ToSet(f) = {f[i] : i \in 1..k}
      /\ MicSeq!ToSet(t) = {t[i] : i \in 1..k - 1}
  BY <1>1, QueuedAre
<1> HIDE DEF t, k, h
<1>5. ASSUME NEW i \in 1..k - 1 PROVE i + 1 \in 1..k /\ t[i] = f[i + 1] /\ h < t[i]
  <2>1. i + 1 \in 1..k /\ 1 \in 1..k /\ 1 < i + 1 BY <1>2
  <2>2. t[i] = f[i + 1] BY <1>1
  <2> QED BY <1>2, <1>3, <2>1, <2>2
<1>6. Climbs(t)
  <2>1. ASSUME NEW i \in 1..k - 1, NEW j \in 1..k - 1, i < j PROVE t[i] < t[j]
    <3>1. i + 1 \in 1..k /\ j + 1 \in 1..k /\ i + 1 < j + 1 BY <1>2, <2>1
    <3>2. t[i] = f[i + 1] /\ t[j] = f[j + 1] BY <1>5
    <3> QED BY <1>3, <3>1, <3>2
  <2> QED BY <1>1, <2>1 DEF Climbs
<1>7. ASSUME NEW x \in MicSeq!ToSet(t) PROVE h < x
  <2>1. PICK i \in 1..k - 1 : x = t[i] BY <1>4
  <2> QED BY <1>5, <2>1
<1>8. MicSeq!ToSet(f) = {h} \cup MicSeq!ToSet(t)
  <2>1. ASSUME NEW x \in MicSeq!ToSet(f) PROVE x \in {h} \cup MicSeq!ToSet(t)
    <3>1. PICK i \in 1..k : x = f[i] BY <1>4
    <3>2. CASE i = 1 BY <1>2, <3>1, <3>2
    <3>3. CASE i # 1
      <4>1. i - 1 \in 1..k - 1 /\ (i - 1) + 1 = i BY <1>2, <3>3
      <4>2. x = t[i - 1] BY <1>5, <3>1, <4>1
      <4> QED BY <1>4, <4>1, <4>2
    <3> QED BY <3>2, <3>3
  <2>2. ASSUME NEW x \in MicSeq!ToSet(t) PROVE x \in MicSeq!ToSet(f)
    <3>1. PICK i \in 1..k - 1 : x = t[i] BY <1>4
    <3>2. i + 1 \in 1..k /\ x = f[i + 1] BY <1>5, <3>1
    <3> QED BY <1>4, <3>2
  <2>3. h \in MicSeq!ToSet(f)
    <3>1. 1 \in 1..k /\ h = f[1] BY <1>2
    <3> QED BY <1>4, <3>1
  <2> QED BY <2>1, <2>2, <2>3
<1> QED BY <1>1, <1>6, <1>7, <1>8 DEF t, k, h

LEMMA TakenOut ==
  ASSUME NEW f \in Seq(Nat), f # <<>>, NEW c, Accounted(f, {}, c)
  PROVE  Accounted(Tail(f), {Head(f)}, c)
<1> DEFINE h == Head(f)
           q == MicSeq!ToSet(f)
           r == MicSeq!ToSet(Tail(f))
<1>1. Climbs(f) BY DEF Accounted
<1>2. /\ Climbs(Tail(f)) /\ q = {h} \cup r /\ h \in Nat
      /\ \A x \in r : h < x
  BY <1>1, FirstOut
<1>3. h \notin r BY <1>2
<1> HIDE DEF h, q, r
<1>4. {h} \cup r = {} \cup q BY <1>2
<1>5. c.lost \cup r \cup {h} = c.lost \cup q \cup {} BY <1>2
<1>6. /\ {h} \cup r \cup c.lost \subseteq 1..c.made
      /\ c.lost \cap ({h} \cup r) = {}
  BY <1>4 DEF Accounted, q
<1>7. \A i \in 1..Len(c.words), x \in {h} \cup r : c.words[i][1] < x
  BY <1>4 DEF Accounted, q
<1>8. {c.words[i][1] : i \in 1..Len(c.words)}
        = 1..c.made \ (c.lost \cup r \cup {h})
  BY <1>5 DEF Accounted, q
<1> QED BY <1>2, <1>6, <1>7, <1>8 DEF Accounted, h, q, r

LEMMA WordDone ==
  ASSUME NEW f, NEW x \in Nat, NEW c, c.words \in Seq(Nat \X Nat),
         Accounted(f, {x}, c), NEW d, d.made = c.made, d.lost = c.lost,
         d.words = Append(c.words, <<x, x>>)
  PROVE  Accounted(f, {}, d)
<1> DEFINE w == c.words
           v == Append(w, <<x, x>>)
           k == Len(w)
           q == MicSeq!ToSet(f)
<1>1. /\ v \in Seq(Nat \X Nat) /\ Len(v) = k + 1 /\ k \in Nat
      /\ \A i \in 1..k : v[i] = w[i]
      /\ v[k + 1] = <<x, x>>
  BY AppendProperties
<1>2. /\ Climbs(f) /\ {x} \cup q \cup c.lost \subseteq 1..c.made
      /\ c.lost \cap ({x} \cup q) = {}
      /\ \A y \in q : x < y
      /\ \A i, j \in 1..k : i < j => w[i][1] < w[j][1]
      /\ \A i \in 1..k, y \in {x} \cup q : w[i][1] < y
      /\ \A i \in 1..k : w[i][1] = w[i][2]
      /\ {w[i][1] : i \in 1..k} = 1..c.made \ (c.lost \cup q \cup {x})
  BY DEF Accounted
<1> HIDE DEF w, v, k, q
<1>3. \A i \in 1..k + 1 : i \in 1..k \/ i = k + 1 BY <1>1
<1>4. v[k + 1][1] = x /\ v[k + 1][2] = x BY <1>1
<1>5. ASSUME NEW i \in 1..k + 1, NEW j \in 1..k + 1, i < j
      PROVE  v[i][1] < v[j][1]
  <2>1. i \in 1..k BY <1>1, <1>5
  <2>2. v[i][1] < x BY <1>1, <1>2, <2>1
  <2>3. CASE j = k + 1 BY <1>4, <2>2, <2>3
  <2>4. CASE j \in 1..k BY <1>1, <1>2, <1>5, <2>1, <2>4
  <2> QED BY <1>3, <2>3, <2>4
<1>6. ASSUME NEW i \in 1..k + 1, NEW y \in q PROVE v[i][1] < y
  BY <1>1, <1>2, <1>3, <1>4, ZenonT(60)
<1>7. \A i \in 1..k + 1 : v[i][1] = v[i][2] BY <1>1, <1>2, <1>3, <1>4
<1>8. x \notin q /\ x \notin c.lost /\ x \in 1..c.made BY <1>2
<1>9. {v[i][1] : i \in 1..k + 1} = 1..c.made \ (c.lost \cup q)
  <2>1. {v[i][1] : i \in 1..k + 1} = {w[i][1] : i \in 1..k} \cup {x}
    <3>1. ASSUME NEW y \in {v[i][1] : i \in 1..k + 1}
          PROVE  y \in {w[i][1] : i \in 1..k} \cup {x}
      BY <1>1, <1>3, <1>4, ZenonT(60)
    <3>2. ASSUME NEW y \in {w[i][1] : i \in 1..k}
          PROVE  y \in {v[i][1] : i \in 1..k + 1}
      <4>1. PICK i \in 1..k : y = w[i][1] OBVIOUS
      <4>2. i \in 1..k + 1 /\ v[i] = w[i] BY <1>1
      <4> QED BY <4>1, <4>2
    <3>3. x \in {v[i][1] : i \in 1..k + 1}
      <4>1. k + 1 \in 1..k + 1 BY <1>1
      <4> QED BY <1>4, <4>1
    <3> QED BY <3>1, <3>2, <3>3
  <2> QED BY <1>2, <1>8, <2>1
<1>10. d.words = v BY DEF v, w
<1>11. /\ {} \cup q \cup d.lost \subseteq 1..d.made
       /\ d.lost \cap ({} \cup q) = {}
  BY <1>2
<1>12. {v[i][1] : i \in 1..k + 1} = 1..d.made \ (d.lost \cup q \cup {})
  BY <1>9
<1>13. Len(d.words) = k + 1 BY <1>1, <1>10
<1>14. /\ \A i, j \in 1..k + 1 : i < j => v[i][1] < v[j][1]
       /\ \A i \in 1..k + 1, y \in {} \cup q : v[i][1] < y
  BY <1>5, <1>6
<1>15. \A h \in {}, y \in q : h < y OBVIOUS
<1> HIDE DEF q
<1> DEFINE u == d.words
<1>16. u = v /\ Len(u) = k + 1 BY <1>10, <1>13
<1> HIDE DEF u
<1>17. /\ \A i, j \in 1..Len(u) : i < j => u[i][1] < u[j][1]
       /\ \A i \in 1..Len(u), y \in {} \cup q : u[i][1] < y
       /\ \A i \in 1..Len(u) : u[i][1] = u[i][2]
  BY <1>7, <1>14, <1>16
<1>18. {u[i][1] : i \in 1..Len(u)} = 1..d.made \ (d.lost \cup q \cup {})
  BY <1>12, <1>16
<1> QED BY <1>2, <1>11, <1>15, <1>17, <1>18 DEF Accounted, q, u

LEMMA ThrownAway ==
  ASSUME NEW f, NEW held, NEW c, Accounted(f, held, c), NEW d,
         d.made = c.made, d.words = c.words,
         d.lost = c.lost \cup MicSeq!ToSet(f) \cup held
  PROVE  Accounted(<<>>, {}, d)
<1>1. MicSeq!ToSet(<<>>) = {} /\ Len(<<>>) = 0 /\ Climbs(<<>>)
  <2>1. DOMAIN <<>> = {} /\ Len(<<>>) = 0 OBVIOUS
  <2> QED BY <2>1 DEF MicSeq!ToSet, Climbs
<1> QED BY <1>1 DEF Accounted

LEMMA HalfThrownAway ==
  ASSUME NEW f, NEW held, NEW c, Accounted(f, held, c), NEW d,
         d.made = c.made, d.words = c.words, d.lost = c.lost \cup held,
         \A x \in held : x \notin MicSeq!ToSet(f)
  PROVE  Accounted(f, {}, d)
BY DEF Accounted

MadeBefore(f, held, c, n, k, d) ==
  /\ f \in Seq(Nat) /\ Len(f) <= PdmDepth /\ c.made \in Nat
  /\ Accounted(f, held, c) /\ n \in Nat /\ k \in Nat
  /\ k = (IF n < PdmDepth - Len(f) THEN n ELSE PdmDepth - Len(f))
  /\ d.made = c.made + n /\ d.words = c.words
  /\ d.lost = c.lost \cup {c.made + i :
                            i \in {j \in 1..n : j > PdmDepth - Len(f)}}

MadeAfter(f, held, c, k, d) ==
  LET g == f \o [i \in 1..k |-> c.made + i] IN
  /\ Accounted(g, held, d)
  /\ g \in Seq(Nat) /\ Len(g) = Len(f) + k

LEMMA MadeMore ==
  ASSUME NEW f, NEW held, NEW c, NEW n, NEW k, NEW d,
         MadeBefore(f, held, c, n, k, d)
  PROVE  MadeAfter(f, held, c, k, d)
<1> SUFFICES
      ASSUME f \in Seq(Nat), Len(f) <= PdmDepth, c.made \in Nat,
             Accounted(f, held, c), n \in Nat, k \in Nat,
             k = (IF n < PdmDepth - Len(f) THEN n ELSE PdmDepth - Len(f)),
             d.made = c.made + n, d.words = c.words,
             d.lost = c.lost \cup {c.made + i :
                                   i \in {j \in 1..n : j > PdmDepth - Len(f)}}
      PROVE  LET g == f \o [i \in 1..k |-> c.made + i] IN
             /\ Accounted(g, held, d)
             /\ g \in Seq(Nat) /\ Len(g) = Len(f) + k
  BY Zenon DEF MadeBefore, MadeAfter
<1> DEFINE m == c.made
           more == [i \in 1..k |-> m + i]
           g == f \o more
           l == Len(f)
           q == MicSeq!ToSet(f)
           a == MicSeq!ToSet(more)
           b == {m + i : i \in {j \in 1..n : j > PdmDepth - l}}
           w == c.words
<1>0. l \in Nat /\ PdmDepth \in Nat /\ l <= PdmDepth /\ m \in Nat
  BY MicAssumption
<1>1. /\ more \in Seq(Nat) /\ Len(more) = k
      /\ \A i \in 1..k : more[i] = m + i
  <2>1. more \in [1..k -> Nat] BY <1>0
  <2> QED BY <2>1
<1> HIDE DEF more
<1>2. /\ g \in Seq(Nat) /\ Len(g) = l + k
      /\ \A i \in 1..l + k : g[i] = IF i <= l THEN f[i] ELSE more[i - l]
  <2>1. more \in Seq(Nat) BY <1>1
  <2> HIDE DEF l
  <2>2. /\ f \o more \in Seq(Nat) /\ Len(f \o more) = Len(f) + Len(more)
        /\ \A i \in 1..Len(f) + Len(more) :
             (f \o more)[i] = IF i <= Len(f) THEN f[i] ELSE more[i - Len(f)]
    BY <2>1, ConcatProperties
  <2>3. Len(more) = k BY <1>1
  <2> HIDE DEF g
  <2> QED BY <2>2, <2>3 DEF g, l
<1>3. MicSeq!ToSet(g) = q \cup a
  <2>1. SpkSeq!ToSet(g) = SpkSeq!ToSet(f) \cup SpkSeq!ToSet(more)
    BY <1>1, JoinedElements
  <2> HIDE DEF g
  <2> QED BY <1>1, <1>2, <2>1, QueuedAre
<1>4. /\ q = {f[i] : i \in 1..l} /\ a = {more[i] : i \in 1..k}
      /\ \A i \in 1..l : f[i] \in Nat
  BY <1>1, QueuedAre
<1>5. /\ Climbs(f) /\ held \cup q \cup c.lost \subseteq 1..m
      /\ c.lost \cap (held \cup q) = {}
      /\ \A h \in held, x \in q : h < x
      /\ \A i, j \in 1..Len(w) : i < j => w[i][1] < w[j][1]
      /\ \A i \in 1..Len(w), x \in held \cup q : w[i][1] < x
      /\ \A i \in 1..Len(w) : w[i][1] = w[i][2]
      /\ {w[i][1] : i \in 1..Len(w)} = 1..m \ (c.lost \cup q \cup held)
  BY DEF Accounted
<1> HIDE DEF g, q, a, l, w, b, m
<1>6. \A x \in a : x \in Nat /\ m < x /\ x <= m + k
  <2> TAKE x \in a
  <2>1. PICK i \in 1..k : x = more[i] BY <1>4
  <2>2. m \in Nat /\ k \in Nat BY <1>0
  <2>3. more[i] = m + i BY <1>1
  <2> QED BY <2>1, <2>2, <2>3
<1>7. \A x \in b : x \in Nat /\ m + k < x /\ x <= m + n
  <2> TAKE x \in b
  <2>1. PICK i \in 1..n : i > PdmDepth - l /\ x = m + i BY DEF b
  <2> QED BY <1>0, <2>1 DEF l
<1>8. k <= n BY <1>0 DEF l
<1>9. ASSUME NEW x \in 1..m + n, x \notin 1..m PROVE x \in a \cup b
  <2>1. x - m \in 1..n /\ x = m + (x - m) BY <1>0, <1>9
  <2>2. CASE x - m <= k
    <3>1. x - m \in 1..k BY <2>1, <2>2
    <3>2. more[x - m] = x BY <1>0, <1>1, <2>1, <3>1
    <3> QED BY <1>4, <3>1, <3>2
  <2>3. CASE ~ (x - m <= k)
    <3>1. x - m > PdmDepth - l BY <1>0, <2>1, <2>3 DEF l
    <3> QED BY <2>1, <3>1 DEF b
  <2> QED BY <2>2, <2>3
<1>10. 1..m \subseteq 1..m + n BY <1>0
<1>11. \A x \in 1..m : x \in Nat /\ x <= m BY <1>0
<1>12. d.lost = c.lost \cup b /\ d.made = m + n /\ d.words = w
  BY DEF b, m, l, w
<1>13. Climbs(g)
  <2>1. ASSUME NEW i \in 1..l + k, NEW j \in 1..l + k, i < j
        PROVE  g[i] < g[j]
    <3>1. CASE j <= l
      <4>1. i \in 1..l /\ j \in 1..l BY <1>0, <2>1, <3>1
      <4>2. f[i] < f[j] BY <1>5, <2>1, <4>1 DEF Climbs, l
      <4>3. g[i] = f[i] /\ g[j] = f[j] BY <1>0, <1>2, <4>1
      <4> QED BY <4>2, <4>3
    <3>2. CASE i <= l /\ ~ (j <= l)
      <4>1. i \in 1..l /\ j - l \in 1..k BY <1>0, <2>1, <3>2
      <4>2. g[i] = f[i] /\ g[j] = m + (j - l) BY <1>1, <1>2, <3>2, <4>1
      <4>3. f[i] \in q BY <1>4, <4>1
      <4>4. f[i] \in Nat /\ f[i] <= m BY <1>5, <1>11, <4>3
      <4> QED BY <1>0, <4>1, <4>2, <4>4
    <3>3. CASE ~ (i <= l)
      <4>1. i - l \in 1..k /\ j - l \in 1..k /\ ~ (j <= l)
        BY <1>0, <2>1, <3>3
      <4>2. g[i] = m + (i - l) /\ g[j] = m + (j - l)
        BY <1>1, <1>2, <3>3, <4>1
      <4> QED BY <1>0, <2>1, <4>2
    <3> QED BY <1>0, <3>1, <3>2, <3>3
  <2> QED BY <1>2, <2>1 DEF Climbs
<1>14. held \cup (q \cup a) \cup (c.lost \cup b) \subseteq 1..m + n
  <2>1. \A x \in a \cup b : x \in 1..m + n BY <1>0, <1>6, <1>7, <1>8
  <2> QED BY <1>5, <1>10, <2>1
<1>15. (c.lost \cup b) \cap (held \cup (q \cup a)) = {}
  <2>1. ASSUME NEW x \in a PROVE x \notin c.lost /\ x \notin b
    BY <1>0, <1>5, <1>6, <1>7, <1>11
  <2>2. ASSUME NEW x \in b PROVE x \notin held /\ x \notin q
    <3>1. x \notin 1..m BY <1>0, <1>7
    <3> QED BY <1>5, <3>1
  <2> QED BY <1>5, <2>1, <2>2
<1>16. ASSUME NEW h \in held, NEW x \in q \cup a PROVE h < x
  <2>1. h \in Nat /\ h <= m BY <1>5, <1>11
  <2> QED BY <1>0, <1>5, <1>6, <2>1
<1>17. ASSUME NEW i \in 1..Len(w), NEW x \in held \cup (q \cup a)
       PROVE  w[i][1] < x
  <2>1. CASE x \in held \cup q BY <1>5, <2>1
  <2>2. CASE x \in a
    <3>1. w[i][1] \in {w[j][1] : j \in 1..Len(w)} OBVIOUS
    <3>2. w[i][1] \in 1..m BY <1>5, <3>1
    <3> QED BY <1>0, <1>6, <1>11, <2>2, <3>2
  <2> QED BY <2>1, <2>2
<1>18. 1..m \ (c.lost \cup q \cup held)
         = 1..m + n \ ((c.lost \cup b) \cup (q \cup a) \cup held)
  <2>1. \A x \in 1..m : x \notin a /\ x \notin b
    BY <1>0, <1>6, <1>7, <1>11
  <2> QED BY <1>9, <1>10, <2>1
<1>19. Accounted(g, held, d)
  <2> DEFINE z == q \cup a
  <2>1. MicSeq!ToSet(g) = z BY <1>3
  <2>2. /\ held \cup z \cup d.lost \subseteq 1..d.made
        /\ d.lost \cap (held \cup z) = {}
    BY <1>12, <1>14, <1>15
  <2>3. {w[i][1] : i \in 1..Len(w)} = 1..d.made \ (d.lost \cup z \cup held)
    BY <1>5, <1>12, <1>18
  <2>4. /\ \A h \in held, x \in z : h < x
        /\ \A i \in 1..Len(w), x \in held \cup z : w[i][1] < x
    BY <1>16, <1>17
  <2> HIDE DEF z
  <2> QED BY <1>5, <1>12, <1>13, <2>1, <2>2, <2>3, <2>4 DEF Accounted
<1> QED BY <1>2, <1>19 DEF g, m, more, l

LEMMA CaptureInitial == MicInit => CaptureInv
<1> SUFFICES ASSUME MicInit PROVE CaptureInv
  OBVIOUS
<1>1. /\ pdm = PdmAtReset /\ src = [file |-> NoFile, tone |-> FALSE]
      /\ mic = "off" /\ dma = DmaOff
      /\ caught = [made |-> 0, lost |-> {}, reads |-> 0, words |-> <<>>]
  BY DEF MicInit
<1>2. <<>> \in Seq(Nat) /\ <<>> \in Seq(Nat \X Nat) /\ Len(<<>>) = 0
      /\ MicSeq!ToSet(<<>>) = {}
  <2>1. DOMAIN <<>> = {} OBVIOUS
  <2> QED BY <2>1 DEF MicSeq!ToSet
<1>3. PdmDepth \in Nat /\ Threshold \in Nat /\ FileLen \in Nat \ {0}
  BY MicAssumption
<1>4. CaptureTypes
  BY <1>1, <1>2, <1>3 DEF CaptureTypes, PdmAtReset, PdmFields, DmaOff
<1>5. DmaInStep
  <2>1. 0 \in 0..Len(<<>>) /\ 0 <= Threshold /\ 0 = 2 * 0 + 0 BY <1>2, <1>3
  <2>2. /\ ~dma.on /\ dma.beats = 0 /\ ~dma.has /\ mic = "off"
        /\ pdm.fifo = <<>> /\ pdm.stalled = TRUE /\ ~pdm.useDma
        /\ ~pdm.half
    BY <1>1 DEF DmaOff, PdmAtReset
  <2>3. \E k \in 0..Len(pdm.fifo) :
          k <= Threshold /\ dma.beats = 2 * k + (IF dma.has THEN 1 ELSE 0)
    <3>1. dma.beats = 2 * 0 + (IF dma.has THEN 1 ELSE 0) BY <2>2
    <3> QED BY <2>1, <2>2, <3>1
  <2>4. 0 <= 2 * Threshold BY <1>3
  <2>5. IsParked(pdm) BY <2>2 DEF IsParked
  <2> QED BY <2>2, <2>3, <2>4, <2>5 DEF DmaInStep
<1>6. Accounted(pdm.fifo, Held(dma), caught)
  <2>1. pdm.fifo = <<>> /\ Held(dma) = {} /\ caught.made = 0
        /\ caught.lost = {} /\ caught.words = <<>>
    BY <1>1 DEF PdmAtReset, DmaOff, Held
  <2>2. 1..0 = {} OBVIOUS
  <2> QED BY <1>2, <2>1, <2>2 DEF Accounted, Climbs
<1>7. FileOnTime BY <1>1, <1>3 DEF FileOnTime, NoFile
<1> QED BY <1>4, <1>5, <1>6, <1>7 DEF CaptureInv

(* What the proofs about the driver's steps share: the FIFO, the DMA's     *)
(* word and the file stay.                                                 *)
LEMMA SetUpStep ==
  ASSUME CaptureInv, NEW z, DOMAIN z = PdmFields, pdm' = Parked(z),
         z.fifo = pdm.fifo, z.last = pdm.last, z.half = pdm.half,
         z.useDma \in BOOLEAN, z.thr \in {0, Threshold}, z.frac \in Nat,
         UNCHANGED <<src, caught>>,
         mic' \in {"off", "clear", "set", "armed", "on", "stop", "killed"},
         dma' = dma \/ (dma.on = FALSE /\ dma' = [dma EXCEPT !.on = TRUE]),
         dma'.on <=> mic' \in {"armed", "on", "stop"},
         dma'.on => (pdm.half <=> dma.has),
         mic' \in {"clear", "set"} => ~pdm.half,
         mic' \in {"set", "armed", "on", "stop"} => z.thr = Threshold
  PROVE  CaptureInv'
<1>1. /\ CaptureTypes /\ DmaInStep /\ Accounted(pdm.fifo, Held(dma), caught)
      /\ FileOnTime
  BY DEF CaptureInv
<1>2. /\ DOMAIN pdm' = PdmFields /\ IsParked(pdm')
      /\ pdm'.useDma = z.useDma /\ pdm'.thr = z.thr /\ pdm'.fifo = pdm.fifo
      /\ pdm'.last = pdm.last /\ pdm'.half = pdm.half /\ pdm'.frac = z.frac
  BY ParkedOnly
<1>3. /\ DOMAIN dma' = {"on", "beats", "lo", "has"} /\ dma'.on \in BOOLEAN
      /\ dma'.beats = dma.beats /\ dma'.lo = dma.lo /\ dma'.has = dma.has
  <2>1. DOMAIN dma = {"on", "beats", "lo", "has"} /\ dma.on \in BOOLEAN
    BY <1>1 DEF CaptureTypes
  <2> QED BY <2>1
<1>4. dma.on => dma'.on BY <1>3
<1>5. CaptureTypes' BY <1>1, <1>2, <1>3 DEF CaptureTypes
<1>6. DmaInStep'
  <2>1. IsParked(pdm)' BY <1>2 DEF IsParked, WatermarkOf
  <2> QED BY <1>1, <1>2, <1>3, <1>4, <2>1 DEF DmaInStep
<1>7. Held(dma') = Held(dma) BY <1>3 DEF Held
<1>8. Accounted(pdm.fifo, Held(dma), caught)'
  BY <1>1, <1>2, <1>7 DEF Held
<1>9. FileOnTime' BY <1>1 DEF FileOnTime
<1> QED BY <1>5, <1>6, <1>8, <1>9 DEF CaptureInv

LEMMA CaptureSetUp ==
  CaptureInv /\ (MicThreshold \/ MicUseDma \/ MicStart \/ MicStop \/ MicEnd
                 \/ MicIsr) => CaptureInv'
<1> SUFFICES ASSUME CaptureInv,
                    MicThreshold \/ MicUseDma \/ MicStart \/ MicStop \/ MicEnd
                    \/ MicIsr
             PROVE  CaptureInv'
  OBVIOUS
<1>1. /\ DOMAIN pdm = PdmFields /\ pdm.half \in BOOLEAN
      /\ pdm.useDma \in BOOLEAN /\ pdm.thr \in {0, Threshold}
      /\ pdm.frac \in Nat /\ DOMAIN dma = {"on", "beats", "lo", "has"}
      /\ dma.on \in BOOLEAN
      /\ mic \in {"off", "clear", "set", "armed", "on", "stop", "killed"}
  BY DEF CaptureInv, CaptureTypes
<1>2. /\ dma.on <=> mic \in {"armed", "on", "stop"}
      /\ ~dma.on => dma.beats = 0 /\ ~dma.has
      /\ dma.on => (pdm.half <=> dma.has)
      /\ mic \in {"clear", "set"} => ~pdm.half
      /\ mic \in {"set", "armed", "on", "stop"} => pdm.thr = Threshold
  BY DEF CaptureInv, DmaInStep
<1>3. CASE MicThreshold
  <2> DEFINE z == [pdm EXCEPT !.thr = Threshold]
  <2>1. /\ DOMAIN z = PdmFields /\ z.fifo = pdm.fifo /\ z.last = pdm.last
        /\ z.half = pdm.half /\ z.useDma = pdm.useDma /\ z.thr = Threshold
        /\ z.frac = pdm.frac
    BY <1>1 DEF PdmFields
  <2>2. /\ pdm' = Parked(z) /\ UNCHANGED <<src, caught>> /\ dma' = dma
        /\ mic = "clear" /\ mic' = "set"
    BY <1>3 DEF MicThreshold, MicDrives, WriteThr
  <2> HIDE DEF z
  <2> QED BY <1>1, <1>2, <2>1, <2>2, SetUpStep
<1>4. CASE MicUseDma
  <2> DEFINE z == [pdm EXCEPT !.useDma = TRUE]
  <2>1. /\ DOMAIN z = PdmFields /\ z.fifo = pdm.fifo /\ z.last = pdm.last
        /\ z.half = pdm.half /\ z.useDma = TRUE /\ z.thr = pdm.thr
        /\ z.frac = pdm.frac
    BY <1>1 DEF PdmFields
  <2>2. /\ pdm' = Parked(z) /\ UNCHANGED <<src, caught>>
        /\ dma' = [dma EXCEPT !.on = TRUE] /\ mic = "set" /\ mic' = "armed"
    BY <1>4 DEF MicUseDma, MicDrives, WriteCtl
  <2>3. dma'.on = TRUE /\ dma.on = FALSE BY <1>1, <1>2, <2>2
  <2> HIDE DEF z
  <2> QED BY <1>1, <1>2, <2>1, <2>2, <2>3, SetUpStep
<1>5. ASSUME NEW run \in BOOLEAN, WriteConfig(run), UNCHANGED <<src, dma>>,
             mic = (IF run THEN "armed" ELSE "on"),
             mic' = (IF run THEN "on" ELSE "stop")
      PROVE  CaptureInv'
  <2> DEFINE fr == IF run /\ ~pdm.tick THEN 0 ELSE pdm.frac
             z == [pdm EXCEPT !.chan = run, !.tick = run,
                              !.frac = IF run /\ ~pdm.tick THEN 0 ELSE @]
  <2>0. fr \in Nat BY <1>1
  <2>1. /\ DOMAIN z = PdmFields /\ z.fifo = pdm.fifo /\ z.last = pdm.last
        /\ z.half = pdm.half /\ z.useDma = pdm.useDma /\ z.thr = pdm.thr
        /\ z.frac = fr
    <3> HIDE DEF fr
    <3>1. z = [pdm EXCEPT !.chan = run, !.tick = run, !.frac = fr]
      BY DEF fr
    <3> HIDE DEF z
    <3> QED BY <1>1, <3>1 DEF PdmFields
  <2>2. /\ pdm' = Parked(z) /\ UNCHANGED <<src, caught>> /\ dma' = dma
    BY <1>5 DEF WriteConfig
  <2> HIDE DEF z, fr
  <2> QED BY <1>1, <1>2, <1>5, <2>0, <2>1, <2>2, SetUpStep
<1>6. CASE MicStart \/ MicStop
  BY <1>5, <1>6 DEF MicStart, MicStop, MicDrives
<1>7. CASE MicEnd
  <2> DEFINE z == [pdm EXCEPT !.useDma = FALSE]
  <2>1. /\ DOMAIN z = PdmFields /\ z.fifo = pdm.fifo /\ z.last = pdm.last
        /\ z.half = pdm.half /\ z.useDma = FALSE /\ z.thr = pdm.thr
        /\ z.frac = pdm.frac
    BY <1>1 DEF PdmFields
  <2>2. /\ pdm' = Parked(z) /\ UNCHANGED <<src, caught>> /\ dma' = dma
        /\ mic = "killed" /\ mic' = "off"
    BY <1>7 DEF MicEnd, MicDrives, WriteCtl
  <2> HIDE DEF z
  <2> QED BY <1>1, <1>2, <2>1, <2>2, SetUpStep
<1>8. CASE MicIsr
  <2> DEFINE z == [pdm EXCEPT !.over = FALSE]
  <2>1. /\ DOMAIN z = PdmFields /\ z.fifo = pdm.fifo /\ z.last = pdm.last
        /\ z.half = pdm.half /\ z.useDma = pdm.useDma /\ z.thr = pdm.thr
        /\ z.frac = pdm.frac
    BY <1>1 DEF PdmFields
  <2>2. /\ pdm' = Parked(z) /\ UNCHANGED <<src, caught>> /\ dma' = dma
        /\ mic' = mic
    BY <1>8 DEF MicIsr, ReadError
  <2> HIDE DEF z
  <2> QED BY <1>1, <1>2, <2>1, <2>2, SetUpStep
<1> QED BY <1>3, <1>4, <1>6, <1>7, <1>8

LEMMA CaptureClear == CaptureInv /\ MicClear => CaptureInv'
<1> SUFFICES ASSUME CaptureInv, MicClear PROVE CaptureInv'
  OBVIOUS
<1>1. /\ CaptureTypes /\ DmaInStep /\ Accounted(pdm.fifo, Held(dma), caught)
      /\ FileOnTime
  BY DEF CaptureInv
<1> DEFINE z == [pdm EXCEPT !.fifo = <<>>, !.half = FALSE]
<1>2. /\ pdm' = Parked(z) /\ mic = "off" /\ mic' = "clear"
      /\ src' = src /\ dma' = dma
      /\ caught' = [caught EXCEPT !.lost = @ \cup MicSeq!ToSet(pdm.fifo)]
  BY DEF MicClear, MicDrives, FifoClear
<1>3. /\ DOMAIN z = PdmFields /\ z.fifo = <<>> /\ z.half = FALSE
      /\ z.useDma = pdm.useDma /\ z.thr = pdm.thr /\ z.frac = pdm.frac
  BY <1>1 DEF CaptureTypes, PdmFields
<1> HIDE DEF z
<1>4. /\ DOMAIN pdm' = PdmFields /\ IsParked(pdm') /\ pdm'.fifo = <<>>
      /\ pdm'.half = FALSE /\ pdm'.useDma = pdm.useDma
      /\ pdm'.thr = pdm.thr /\ pdm'.frac = pdm.frac
  BY <1>2, <1>3, ParkedOnly
<1>5. /\ DOMAIN caught' = DOMAIN caught /\ caught'.made = caught.made
      /\ caught'.words = caught.words /\ caught'.reads = caught.reads
      /\ caught'.lost = caught.lost \cup MicSeq!ToSet(pdm.fifo)
  BY <1>1, <1>2 DEF CaptureTypes
<1>6. ~dma.on /\ dma.beats = 0 /\ ~dma.has /\ Held(dma) = {}
  BY <1>1, <1>2 DEF DmaInStep, Held
<1>7. /\ <<>> \in Seq(Nat) /\ Len(<<>>) = 0 /\ PdmDepth \in Nat
      /\ Threshold \in Nat
  BY MicAssumption
<1>8. CaptureTypes'
  <2>1. pdm'.fifo \in Seq(Nat) BY <1>4
  <2>2. Len(pdm'.fifo) = 0 BY <1>4
  <2>3. Len(pdm'.fifo) <= PdmDepth BY <1>7, <2>2
  <2>4. pdm'.half \in BOOLEAN BY <1>4
  <2> QED BY <1>1, <1>2, <1>4, <1>5, <2>1, <2>3, <2>4 DEF CaptureTypes
<1>9. DmaInStep'
  <2>1. 0 \in 0..Len(pdm'.fifo) /\ 0 <= Threshold /\ dma'.beats = 2 * 0 + 0
    BY <1>2, <1>4, <1>6, <1>7
  <2>2. IsParked(pdm)' BY <1>4 DEF IsParked, WatermarkOf
  <2> QED BY <1>2, <1>4, <1>6, <1>7, <2>1, <2>2 DEF DmaInStep
<1>10. Accounted(<<>>, {}, caught')
  <2>1. caught'.lost = caught.lost \cup MicSeq!ToSet(pdm.fifo) \cup Held(dma)
    BY <1>5, <1>6
  <2> QED BY <1>1, <1>5, <2>1, ThrownAway
<1>11. Accounted(pdm.fifo, Held(dma), caught)'
  BY <1>2, <1>4, <1>6, <1>10 DEF Held
<1>12. FileOnTime' BY <1>1, <1>2, <1>5 DEF FileOnTime
<1> QED BY <1>8, <1>9, <1>11, <1>12 DEF CaptureInv

LEMMA CaptureKill == CaptureInv /\ MicKill => CaptureInv'
<1> SUFFICES ASSUME CaptureInv, MicKill PROVE CaptureInv'
  OBVIOUS
<1>1. /\ CaptureTypes /\ DmaInStep /\ Accounted(pdm.fifo, Held(dma), caught)
      /\ FileOnTime
  BY DEF CaptureInv
<1>2. /\ pdm' = pdm /\ mic = "stop" /\ mic' = "killed" /\ src' = src
      /\ dma' = DmaOff
      /\ caught' = [caught EXCEPT !.lost = @ \cup Held(dma)]
  BY DEF MicKill, MicDrives
<1>3. /\ DOMAIN caught' = DOMAIN caught /\ caught'.made = caught.made
      /\ caught'.words = caught.words /\ caught'.reads = caught.reads
      /\ caught'.lost = caught.lost \cup Held(dma)
  BY <1>1, <1>2 DEF CaptureTypes
<1>4. /\ DOMAIN dma' = {"on", "beats", "lo", "has"} /\ dma'.on = FALSE
      /\ dma'.beats = 0 /\ dma'.has = FALSE /\ Held(dma') = {}
  BY <1>2 DEF DmaOff, Held
<1>5. CaptureTypes' BY <1>1, <1>2, <1>3, <1>4 DEF CaptureTypes
<1>6. DmaInStep'
  <2>1. 0 \in 0..Len(pdm.fifo) /\ 0 <= Threshold /\ dma'.beats = 2 * 0 + 0
        /\ 0 <= 2 * Threshold
    BY <1>1, <1>4, MicAssumption DEF CaptureTypes
  <2>2. IsParked(pdm)' BY <1>1, <1>2 DEF DmaInStep, IsParked, WatermarkOf
  <2> QED BY <1>2, <1>4, <2>1, <2>2 DEF DmaInStep
<1>7. Accounted(pdm.fifo, {}, caught')
  <2>1. \A x \in Held(dma) : x \notin MicSeq!ToSet(pdm.fifo)
    <3>1. ASSUME NEW x \in Held(dma), x \in MicSeq!ToSet(pdm.fifo) PROVE FALSE
      <4>1. x < x /\ x \in 1..caught.made BY <1>1, <3>1 DEF Accounted
      <4> QED BY <1>1, <4>1 DEF CaptureTypes
    <3> QED BY <3>1
  <2> QED BY <1>1, <1>3, <2>1, HalfThrownAway
<1>8. Accounted(pdm.fifo, Held(dma), caught)' BY <1>2, <1>4, <1>7 DEF Held
<1>9. FileOnTime' BY <1>1, <1>2, <1>3 DEF FileOnTime
<1> QED BY <1>5, <1>6, <1>8, <1>9 DEF CaptureInv

LEMMA CaptureReset == CaptureInv /\ MicReset => CaptureInv'
<1> SUFFICES ASSUME CaptureInv, MicReset PROVE CaptureInv'
  OBVIOUS
<1>1. /\ CaptureTypes /\ Accounted(pdm.fifo, Held(dma), caught)
      /\ FileOnTime
  BY DEF CaptureInv
<1>2. /\ pdm' = PdmAtReset /\ mic' = "off" /\ src' = src /\ dma' = DmaOff
      /\ caught' = [caught EXCEPT !.lost = @ \cup MicSeq!ToSet(pdm.fifo)
                                             \cup Held(dma)]
  BY DEF MicReset
<1>3. /\ DOMAIN caught' = DOMAIN caught /\ caught'.made = caught.made
      /\ caught'.words = caught.words /\ caught'.reads = caught.reads
      /\ caught'.lost = caught.lost \cup MicSeq!ToSet(pdm.fifo) \cup Held(dma)
  BY <1>1, <1>2 DEF CaptureTypes
<1>4. /\ DOMAIN dma' = {"on", "beats", "lo", "has"} /\ dma'.on = FALSE
      /\ dma'.beats = 0 /\ dma'.has = FALSE /\ Held(dma') = {}
  BY <1>2 DEF DmaOff, Held
<1>5. /\ DOMAIN pdm' = PdmFields /\ pdm'.fifo = <<>> /\ pdm'.half = FALSE
      /\ pdm'.useDma = FALSE /\ pdm'.thr = 0 /\ pdm'.frac = 0
      /\ pdm'.stalled = TRUE
  BY <1>2 DEF PdmAtReset, PdmFields
<1>6. /\ <<>> \in Seq(Nat) /\ Len(<<>>) = 0 /\ PdmDepth \in Nat
      /\ Threshold \in Nat
  BY MicAssumption
<1>7. CaptureTypes'
  <2>1. pdm'.fifo \in Seq(Nat) BY <1>5
  <2>2. Len(pdm'.fifo) = 0 BY <1>5
  <2>3. Len(pdm'.fifo) <= PdmDepth BY <1>6, <2>2
  <2>4. pdm'.thr \in {0, Threshold} /\ pdm'.frac \in Nat BY <1>5
  <2>5. /\ pdm'.half \in BOOLEAN /\ pdm'.useDma \in BOOLEAN
        /\ dma'.on \in BOOLEAN /\ dma'.has \in BOOLEAN
    BY <1>4, <1>5
  <2> QED BY <1>1, <1>2, <1>3, <1>4, <1>5, <2>1, <2>3, <2>4, <2>5
      DEF CaptureTypes
<1>8. DmaInStep'
  <2>1. 0 \in 0..Len(pdm'.fifo) /\ 0 <= Threshold /\ dma'.beats = 2 * 0 + 0
        /\ 0 <= 2 * Threshold
    BY <1>4, <1>5, <1>6
  <2>2. IsParked(pdm)' BY <1>5 DEF IsParked
  <2> QED BY <1>2, <1>4, <2>1, <2>2 DEF DmaInStep
<1>9. Accounted(<<>>, {}, caught') BY <1>1, <1>3, ThrownAway
<1>10. Accounted(pdm.fifo, Held(dma), caught)'
  BY <1>4, <1>5, <1>9 DEF Held
<1>11. FileOnTime' BY <1>1, <1>2, <1>3 DEF FileOnTime
<1> QED BY <1>7, <1>8, <1>10, <1>11 DEF CaptureInv

LEMMA CaptureBurst == CaptureInv /\ Burst => CaptureInv'
<1> SUFFICES ASSUME CaptureInv, Burst PROVE CaptureInv'
  OBVIOUS
<1>1. /\ CaptureTypes /\ DmaInStep /\ Accounted(pdm.fifo, Held(dma), caught)
      /\ FileOnTime
  BY DEF CaptureInv
<1>2. /\ dma.on /\ dma.beats = 0 /\ ~pdm.stalled
      /\ dma' = [dma EXCEPT !.beats = 2 * Threshold]
      /\ pdm' = pdm /\ src' = src /\ mic' = mic /\ caught' = caught
  BY DEF Burst
<1>3. /\ DOMAIN dma' = DOMAIN dma /\ dma'.on = dma.on /\ dma'.lo = dma.lo
      /\ dma'.has = dma.has /\ dma'.beats = 2 * Threshold
  BY <1>1, <1>2 DEF CaptureTypes
<1>4. /\ PdmDepth \in Nat /\ Threshold \in 1..PdmDepth /\ Threshold \in Nat
      /\ pdm.fifo \in Seq(Nat) /\ Len(pdm.fifo) \in Nat
  BY <1>1, MicAssumption DEF CaptureTypes
<1>5. ~dma.has
  <2>1. PICK k \in 0..Len(pdm.fifo) :
          dma.beats = 2 * k + (IF dma.has THEN 1 ELSE 0)
    BY <1>1 DEF DmaInStep
  <2>2. k \in Nat BY <1>4
  <2>3. dma.has => 2 * k + 1 = 0 BY <1>2, <2>1
  <2>4. 2 * k + 1 # 0 BY <2>2
  <2> QED BY <2>3, <2>4
<1>6. Len(pdm.fifo) >= Threshold
  <2>1. pdm.thr = Threshold BY <1>1, <1>2 DEF DmaInStep
  <2>2. WatermarkOf(pdm) = Threshold BY <1>4, <2>1 DEF WatermarkOf
  <2> QED BY <1>1, <1>2, <2>2 DEF DmaInStep, IsParked
<1>7. CaptureTypes' BY <1>1, <1>2, <1>3 DEF CaptureTypes
<1>8. DmaInStep'
  <2>1. \E k \in 0..Len(pdm'.fifo) :
          k <= Threshold /\ dma'.beats = 2 * k + (IF dma'.has THEN 1 ELSE 0)
    <3>1. Threshold \in 0..Len(pdm'.fifo) BY <1>2, <1>4, <1>6
    <3>2. dma'.beats = 2 * Threshold + (IF dma'.has THEN 1 ELSE 0)
      BY <1>3, <1>4, <1>5
    <3> QED BY <1>4, <3>1, <3>2
  <2>2. IsParked(pdm)' BY <1>1, <1>2 DEF DmaInStep, IsParked, WatermarkOf
  <2>3. dma'.beats <= 2 * Threshold BY <1>3, <1>4
  <2> QED BY <1>1, <1>2, <1>3, <1>5, <2>1, <2>2, <2>3 DEF DmaInStep
<1>9. Accounted(pdm.fifo, Held(dma), caught)'
  <2>1. Held(dma') = Held(dma) BY <1>3 DEF Held
  <2> QED BY <1>1, <1>2, <2>1 DEF Held
<1>10. FileOnTime' BY <1>1, <1>2 DEF FileOnTime
<1> QED BY <1>7, <1>8, <1>9, <1>10 DEF CaptureInv

(* The first beat takes a set from the FIFO, and there is one.             *)
LEMMA CaptureFirstBeat == CaptureInv /\ Beat /\ ~dma.has => CaptureInv'
<1> SUFFICES ASSUME CaptureInv, Beat, ~dma.has PROVE CaptureInv'
  OBVIOUS
<1>1. /\ CaptureTypes /\ DmaInStep /\ Accounted(pdm.fifo, Held(dma), caught)
      /\ FileOnTime
  BY DEF CaptureInv
<1> DEFINE f == pdm.fifo
<1>2. /\ dma.on /\ dma.beats > 0 /\ pdm' = Parked(Port)
      /\ dma' = [dma EXCEPT !.beats = @ - 1, !.has = TRUE, !.lo = Port.last]
      /\ caught' = caught /\ src' = src /\ mic' = mic
  BY DEF Beat
<1>3. ~pdm.half BY <1>1, <1>2 DEF DmaInStep
<1>4. /\ f \in Seq(Nat) /\ Len(f) \in Nat /\ Threshold \in Nat /\ PdmDepth \in Nat
      /\ Len(f) <= PdmDepth
  BY <1>1, MicAssumption DEF CaptureTypes
<1>5. PICK k \in 0..Len(f) :
        k <= Threshold /\ dma.beats = 2 * k + (IF dma.has THEN 1 ELSE 0)
  BY <1>1 DEF DmaInStep
<1>6. dma.beats = 2 * k /\ k \in 1..Len(f) BY <1>2, <1>4, <1>5
<1>7. f # <<>> BY <1>4, <1>6, EmptySeq
<1>8. Climbs(f) BY <1>1 DEF Accounted
<1>9. /\ Tail(f) \in Seq(Nat) /\ Len(Tail(f)) = Len(f) - 1 /\ Head(f) \in Nat
  BY <1>4, <1>7, <1>8, FirstOut
<1>10. /\ DOMAIN Port = PdmFields /\ Port.fifo = Tail(f) /\ Port.last = Head(f)
       /\ Port.half = TRUE /\ Port.useDma = pdm.useDma /\ Port.thr = pdm.thr
       /\ Port.frac = pdm.frac
  <2>1. Port = [[pdm EXCEPT !.last = Head(pdm.fifo), !.fifo = Tail(pdm.fifo)]
                  EXCEPT !.half = TRUE]
    BY <1>3, <1>7 DEF Port, Popped
  <2>2. DOMAIN pdm = PdmFields BY <1>1 DEF CaptureTypes
  <2> QED BY <2>1, <2>2 DEF PdmFields
<1>11. /\ DOMAIN pdm' = PdmFields /\ IsParked(pdm') /\ pdm'.fifo = Tail(f)
       /\ pdm'.last = Head(f) /\ pdm'.half = TRUE /\ pdm'.useDma = pdm.useDma
       /\ pdm'.thr = pdm.thr /\ pdm'.frac = pdm.frac
  BY <1>2, <1>10, ParkedOnly
<1>12. /\ DOMAIN dma' = DOMAIN dma /\ dma'.on = dma.on
       /\ dma'.beats = dma.beats - 1 /\ dma'.has = TRUE /\ dma'.lo = Head(f)
  BY <1>1, <1>2, <1>10 DEF CaptureTypes
<1> HIDE DEF f
<1>13. CaptureTypes'
  <2>1. pdm'.fifo \in Seq(Nat) BY <1>9, <1>11
  <2>2. Len(pdm'.fifo) <= PdmDepth BY <1>4, <1>9, <1>11
  <2>3. pdm'.half \in BOOLEAN /\ dma'.has \in BOOLEAN BY <1>11, <1>12
  <2> QED BY <1>1, <1>2, <1>11, <1>12, <2>1, <2>2, <2>3 DEF CaptureTypes
<1>14. DmaInStep'
  <2>1. \E j \in 0..Len(pdm'.fifo) :
          j <= Threshold /\ dma'.beats = 2 * j + (IF dma'.has THEN 1 ELSE 0)
    <3>1. k - 1 \in 0..Len(pdm'.fifo) /\ k - 1 <= Threshold
      BY <1>4, <1>5, <1>6, <1>9, <1>11
    <3>2. dma'.beats = 2 * (k - 1) + (IF dma'.has THEN 1 ELSE 0)
      BY <1>4, <1>6, <1>12
    <3> QED BY <3>1, <3>2
  <2>2. dma'.beats <= 2 * Threshold BY <1>4, <1>5, <1>6, <1>12
  <2>3. IsParked(pdm)' BY <1>11 DEF IsParked, WatermarkOf
  <2>4. mic \notin {"clear", "set"} BY <1>1, <1>2 DEF DmaInStep
  <2> QED BY <1>1, <1>2, <1>11, <1>12, <2>1, <2>2, <2>3, <2>4 DEF DmaInStep
<1>15. Accounted(pdm.fifo, Held(dma), caught)'
  <2>1. Held(dma) = {} /\ Held(dma') = {Head(f)} BY <1>12 DEF Held
  <2>2. Accounted(f, {}, caught) BY <1>1, <2>1 DEF f
  <2>3. Accounted(Tail(f), {Head(f)}, caught) BY <1>4, <1>7, <2>2, TakenOut
  <2> QED BY <1>2, <1>11, <2>1, <2>3 DEF Held
<1>16. FileOnTime' BY <1>1, <1>2 DEF FileOnTime
<1> QED BY <1>13, <1>14, <1>15, <1>16 DEF CaptureInv

(* The second completes the word.                                          *)
LEMMA CaptureSecondBeat == CaptureInv /\ Beat /\ dma.has => CaptureInv'
<1> SUFFICES ASSUME CaptureInv, Beat, dma.has PROVE CaptureInv'
  OBVIOUS
<1>1. /\ CaptureTypes /\ DmaInStep /\ Accounted(pdm.fifo, Held(dma), caught)
      /\ FileOnTime
  BY DEF CaptureInv
<1> DEFINE f == pdm.fifo
           x == dma.lo
<1>2. /\ dma.on /\ dma.beats > 0 /\ pdm' = Parked(Port)
      /\ dma' = [dma EXCEPT !.beats = @ - 1, !.has = FALSE]
      /\ caught' = [caught EXCEPT !.words = Append(@, <<dma.lo, Port.last>>)]
      /\ src' = src /\ mic' = mic
  BY DEF Beat
<1>3. pdm.half /\ x = pdm.last BY <1>1, <1>2 DEF DmaInStep
<1>4. /\ f \in Seq(Nat) /\ Len(f) \in Nat /\ Threshold \in Nat
      /\ caught.made \in Nat /\ caught.words \in Seq(Nat \X Nat)
  BY <1>1, MicAssumption DEF CaptureTypes
<1>5. PICK k \in 0..Len(f) : k <= Threshold /\ dma.beats = 2 * k + 1
  BY <1>1 DEF DmaInStep
<1>6. /\ DOMAIN Port = PdmFields /\ Port.fifo = f /\ Port.last = pdm.last
      /\ Port.half = FALSE /\ Port.useDma = pdm.useDma /\ Port.thr = pdm.thr
      /\ Port.frac = pdm.frac
  <2>1. Port = [pdm EXCEPT !.half = FALSE] BY <1>3 DEF Port
  <2>2. DOMAIN pdm = PdmFields BY <1>1 DEF CaptureTypes
  <2> QED BY <2>1, <2>2 DEF PdmFields
<1>7. /\ DOMAIN pdm' = PdmFields /\ IsParked(pdm') /\ pdm'.fifo = f
      /\ pdm'.last = pdm.last /\ pdm'.half = FALSE
      /\ pdm'.useDma = pdm.useDma /\ pdm'.thr = pdm.thr
      /\ pdm'.frac = pdm.frac
  BY <1>2, <1>6, ParkedOnly
<1>8. /\ DOMAIN dma' = DOMAIN dma /\ dma'.on = dma.on
      /\ dma'.beats = dma.beats - 1 /\ dma'.has = FALSE /\ dma'.lo = dma.lo
  BY <1>1, <1>2 DEF CaptureTypes
<1>9. Held(dma) = {x} /\ Held(dma') = {} BY <1>8 DEF Held
<1>10. x \in Nat
  <2>1. x \in 1..caught.made BY <1>1, <1>9 DEF Accounted
  <2> QED BY <1>4, <2>1
<1>11. /\ DOMAIN caught' = DOMAIN caught /\ caught'.made = caught.made
       /\ caught'.lost = caught.lost /\ caught'.reads = caught.reads
       /\ caught'.words = Append(caught.words, <<x, x>>)
  BY <1>1, <1>2, <1>3, <1>6 DEF CaptureTypes
<1>12. Append(caught.words, <<x, x>>) \in Seq(Nat \X Nat)
  <2>1. <<x, x>> \in Nat \X Nat BY <1>10
  <2> QED BY <1>4, <2>1, AppendProperties
<1>13. CaptureTypes'
  <2>1. pdm'.half \in BOOLEAN /\ dma'.has \in BOOLEAN BY <1>7, <1>8
  <2> QED BY <1>1, <1>2, <1>7, <1>8, <1>11, <1>12, <2>1 DEF CaptureTypes
<1>14. DmaInStep'
  <2>1. \E j \in 0..Len(pdm'.fifo) :
          j <= Threshold /\ dma'.beats = 2 * j + (IF dma'.has THEN 1 ELSE 0)
    <3>1. dma'.beats = 2 * k + (IF dma'.has THEN 1 ELSE 0)
      BY <1>4, <1>5, <1>8
    <3> QED BY <1>5, <1>7, <3>1
  <2>2. dma'.beats <= 2 * Threshold BY <1>4, <1>5, <1>8
  <2>3. IsParked(pdm)' BY <1>7 DEF IsParked, WatermarkOf
  <2>4. mic \notin {"clear", "set"} BY <1>1, <1>2 DEF DmaInStep
  <2> QED BY <1>1, <1>2, <1>7, <1>8, <2>1, <2>2, <2>3, <2>4 DEF DmaInStep
<1>15. Accounted(f, {}, caught')
  <2>1. Accounted(f, {x}, caught) BY <1>1, <1>9
  <2> HIDE DEF f, x
  <2> QED BY <1>4, <1>10, <1>11, <2>1, WordDone
<1>16. Accounted(pdm.fifo, Held(dma), caught)' BY <1>7, <1>9, <1>15 DEF Held
<1>17. FileOnTime' BY <1>1, <1>2, <1>11 DEF FileOnTime
<1> QED BY <1>13, <1>14, <1>16, <1>17 DEF CaptureInv

LEMMA CaptureHost ==
  CaptureInv /\ ((\E rate \in FileRates \cup {0} : SetWav(rate))
                 \/ (\E on \in BOOLEAN : SetTone(on))) => CaptureInv'
<1>1. ASSUME CaptureInv, UNCHANGED <<pdm, mic, dma>>,
             DOMAIN caught' = DOMAIN caught, caught'.made = caught.made,
             caught'.lost = caught.lost, caught'.words = caught.words,
             FileOnTime'
      PROVE  CaptureInv'
  <2>1. CaptureTypes /\ DmaInStep /\ Accounted(pdm.fifo, Held(dma), caught)
    BY <1>1 DEF CaptureInv
  <2>2. CaptureTypes' BY <1>1, <2>1 DEF CaptureTypes
  <2>3. DmaInStep' BY <1>1, <2>1 DEF DmaInStep, IsParked, WatermarkOf
  <2>4. Accounted(pdm.fifo, Held(dma), caught)'
    BY <1>1, <2>1 DEF Accounted, Held, MicSeq!ToSet, Climbs
  <2> QED BY <1>1, <2>2, <2>3, <2>4 DEF CaptureInv
<1>2. ASSUME CaptureInv, NEW rate \in FileRates \cup {0}, SetWav(rate)
      PROVE  CaptureInv'
  <2>1. /\ FileOnTime /\ DOMAIN caught = {"made", "lost", "reads", "words"}
    BY <1>2 DEF CaptureInv, CaptureTypes
  <2>2. /\ UNCHANGED <<pdm, mic, dma>>
        /\ caught' = [caught EXCEPT !.reads = 0]
        /\ src' = [src EXCEPT !.file = IF rate = 0 THEN NoFile
                             ELSE [rate |-> rate, pos |-> 0, frac |-> 0]]
    BY <1>2 DEF SetWav
  <2>3. /\ DOMAIN caught' = DOMAIN caught /\ caught'.made = caught.made
        /\ caught'.lost = caught.lost /\ caught'.words = caught.words
        /\ caught'.reads = 0
    BY <2>1, <2>2
  <2>4. /\ DOMAIN src' = {"file", "tone"} /\ src'.tone = src.tone
        /\ src'.file = IF rate = 0 THEN NoFile
                       ELSE [rate |-> rate, pos |-> 0, frac |-> 0]
    BY <2>1, <2>2 DEF FileOnTime
  <2>5. /\ MicRate \in Nat \ {0} /\ FileLen \in Nat \ {0}
        /\ rate \in Nat
    BY MicAssumption
  <2>6. /\ 0 * rate = 0 /\ 0 % MicRate = 0 /\ 0 \div MicRate = 0
        /\ 0 % FileLen = 0 /\ 0 \in 0..FileLen - 1
    BY <2>5
  <2>7. FileOnTime'
    <3>1. src'.tone \in BOOLEAN BY <2>1, <2>4 DEF FileOnTime
    <3>2. CASE rate = 0
      <4>1. src'.file = NoFile BY <2>4, <3>2
      <4> QED BY <2>3, <2>4, <2>6, <3>1, <4>1 DEF FileOnTime, NoFile
    <3>3. CASE rate # 0
      <4>1. src'.file = [rate |-> rate, pos |-> 0, frac |-> 0]
        BY <2>4, <3>3
      <4>2. /\ DOMAIN src'.file = {"rate", "pos", "frac"}
            /\ src'.file.rate = rate /\ src'.file.pos = 0
            /\ src'.file.frac = 0
        BY <4>1
      <4>3. /\ src'.file.frac = (caught'.reads * src'.file.rate) % MicRate
            /\ src'.file.pos =
                 ((caught'.reads * src'.file.rate) \div MicRate) % FileLen
        BY <2>3, <2>6, <4>2
      <4> QED BY <2>3, <2>4, <2>5, <2>6, <3>1, <4>2, <4>3 DEF FileOnTime
    <3> QED BY <3>2, <3>3
  <2> QED BY <1>1, <1>2, <2>2, <2>3, <2>7
<1>3. ASSUME CaptureInv, NEW on \in BOOLEAN, SetTone(on) PROVE CaptureInv'
  <2>1. FileOnTime BY <1>3 DEF CaptureInv
  <2>2. /\ UNCHANGED <<pdm, mic, dma>> /\ caught' = caught
        /\ src' = [src EXCEPT !.tone = on]
    BY <1>3 DEF SetTone
  <2>3. DOMAIN src' = DOMAIN src /\ src'.file = src.file /\ src'.tone = on
    BY <2>1, <2>2 DEF FileOnTime
  <2>4. src'.tone \in BOOLEAN BY <2>3
  <2>5. FileOnTime' BY <2>1, <2>2, <2>3, <2>4 DEF FileOnTime
  <2> QED BY <1>1, <1>3, <2>2, <2>5
<1> QED BY <1>2, <1>3

(* The reader goes on where its position and fraction say it was.          *)
LEMMA ReadOn ==
  ASSUME NEW f, DOMAIN f = {"rate", "pos", "frac"}, f.rate \in Nat,
         NEW a \in Nat, NEW n \in Nat,
         f.frac = (a * f.rate) % MicRate,
         f.pos = ((a * f.rate) \div MicRate) % FileLen
  PROVE  LET g == Advanced(f, n) IN
         /\ DOMAIN g = {"rate", "pos", "frac"} /\ g.rate = f.rate
         /\ g.frac = ((a + n) * f.rate) % MicRate
         /\ g.pos = (((a + n) * f.rate) \div MicRate) % FileLen
         /\ g.pos \in 0..FileLen - 1
<1> DEFINE rate == f.rate
           all == f.frac + n * f.rate
           steps == all \div MicRate
           was == (a * rate) \div MicRate
           now == ((a + n) * rate) \div MicRate
<1>0. MicRate \in Nat \ {0} /\ FileLen \in Nat \ {0} BY MicAssumption
<1>1. all % MicRate = ((a + n) * rate) % MicRate /\ was + steps = now
  <2>1. f.frac = (a * rate) % MicRate OBVIOUS
  <2>2. rate \in Nat OBVIOUS
  <2> HIDE DEF rate
  <2>3. /\ (((a * rate) % MicRate) + n * rate) % MicRate
             = ((a + n) * rate) % MicRate
        /\ ((a * rate) \div MicRate)
             + ((((a * rate) % MicRate) + n * rate) \div MicRate)
             = ((a + n) * rate) \div MicRate
    <3>1. FractionGoes(MicRate, a, n, rate)
      BY <1>0, <2>2, FractionCarried, Zenon
    <3> QED BY <3>1, Zenon DEF FractionGoes
  <2>4. all = ((a * rate) % MicRate) + n * rate BY <2>1 DEF rate
  <2> HIDE DEF all
  <2> QED BY <2>3, <2>4
<1>2. /\ Advanced(f, n) = [f EXCEPT !.frac = all % MicRate,
                                    !.pos = (f.pos + steps) % FileLen]
  BY DEF Advanced
<1>3. was \in Int /\ steps \in Int /\ now \in Int
  <2>1. a * rate \in Int /\ (a + n) * rate \in Int
    <3> rate \in Int OBVIOUS
    <3> HIDE DEF rate
    <3> QED OBVIOUS
  <2>2. all \in Int
    <3>1. rate \in Int /\ n * rate \in Int
      <4> rate \in Int OBVIOUS
      <4> HIDE DEF rate
      <4> QED OBVIOUS
    <3>2. (a * rate) % MicRate \in Int
      <4> HIDE DEF rate
      <4> QED BY <1>0, <2>1, DivMod
    <3> QED BY <3>1, <3>2
  <2> HIDE DEF rate, all
  <2> QED BY <1>0, <2>1, <2>2, DivMod
<1>4. (f.pos + steps) % FileLen = now % FileLen
  <2>1. f.pos = was % FileLen OBVIOUS
  <2> HIDE DEF was, steps, now
  <2> DEFINE q == was \div FileLen
             r == was % FileLen
  <2>6. r \in 0..FileLen - 1 /\ q \in Int /\ was = q * FileLen + r
    BY <1>0, <1>3, DivMod, Zenon
  <2>7. r \in Int
    <3> HIDE DEF r
    <3> QED BY <1>0, <2>6
  <2>2. q \in Int /\ r \in Int /\ was = q * FileLen + r BY <2>6, <2>7
  <2>3. now = (r + steps) + q * FileLen
    <3> HIDE DEF q, r
    <3> DEFINE p == q * FileLen
    <3>1. p \in Int /\ was = p + r BY <1>0, <2>2
    <3> HIDE DEF p
    <3>2. now = (r + steps) + p BY <1>1, <1>3, <2>2, <3>1
    <3> QED BY <3>2 DEF p
  <2>4. r + steps \in Int BY <1>3, <2>2
  <2> HIDE DEF q, r
  <2>5. ((r + steps) + q * FileLen) % FileLen = (r + steps) % FileLen
    BY <1>0, <2>2, <2>4, ModShift
  <2> QED BY <2>1, <2>3, <2>5 DEF r
<1>5. now % FileLen \in 0..FileLen - 1
  <2> HIDE DEF now
  <2> QED BY <1>0, <1>3, DivMod
<1> HIDE DEF all, steps, was, now
<1> QED BY <1>1, <1>2, <1>4, <1>5 DEF now, rate

LEMMA CaptureTick == CaptureInv /\ Tick => CaptureInv'
<1> SUFFICES ASSUME CaptureInv, Tick PROVE CaptureInv'
  OBVIOUS
<1>1. /\ CaptureTypes /\ DmaInStep /\ Accounted(pdm.fifo, Held(dma), caught)
      /\ FileOnTime
  BY DEF CaptureInv
<1> DEFINE f == pdm.fifo
           m == caught.made
           owed == (pdm.frac + MicRate) \div TickHz
           n == IF owed < 4 * PdmDepth THEN owed ELSE 4 * PdmDepth
           fr == (pdm.frac + MicRate) % TickHz
           room == PdmDepth - Len(f)
           k == IF n < room THEN n ELSE room
           g == f \o [i \in 1..k |-> m + i]
           z == [Pushed(pdm, n) EXCEPT !.frac = fr]
           fromFile == SourceOf = "wav"
<1>2. /\ MicRate \in Nat \ {0} /\ TickHz \in Nat \ {0} /\ PdmDepth \in Nat
      /\ Threshold \in Nat /\ pdm.frac \in Nat /\ f \in Seq(Nat)
      /\ Len(f) \in Nat /\ Len(f) <= PdmDepth /\ m \in Nat
      /\ caught.reads \in Nat
  BY <1>1, MicAssumption DEF CaptureTypes, FileOnTime
<1>3. /\ pdm' = Parked(z) /\ mic' = mic /\ dma' = dma
      /\ src' = IF fromFile THEN [src EXCEPT !.file = Advanced(@, n)] ELSE src
      /\ caught' = [caught EXCEPT !.made = @ + n,
                                  !.lost = @ \cup LostIn(pdm, n),
                                  !.reads = IF fromFile THEN @ + n ELSE @]
  BY DEF Tick
<1>4. owed \in Nat /\ fr \in Nat
  <2> DEFINE b == pdm.frac + MicRate
  <2>1. b \in Nat BY <1>2
  <2> HIDE DEF b
  <2>2. b \div TickHz \in Nat /\ b % TickHz \in Nat BY <1>2, <2>1
  <2> QED BY <2>2 DEF b
<1>5. n \in Nat
  <2> HIDE DEF owed
  <2> QED BY <1>2, <1>4
<1>6. k \in Nat
  <2> HIDE DEF n
  <2> QED BY <1>2, <1>5
<1> HIDE DEF owed, n, fr
<1>7. /\ DOMAIN z = PdmFields /\ z.fifo = g /\ z.last = pdm.last
      /\ z.half = pdm.half /\ z.useDma = pdm.useDma /\ z.thr = pdm.thr
      /\ z.frac = fr
  <2> DEFINE y == [pdm EXCEPT !.fifo = g, !.over = @ \/ n > room]
  <2>1. Pushed(pdm, n) = y BY DEF Pushed
  <2>2. DOMAIN pdm = PdmFields BY <1>1 DEF CaptureTypes
  <2> HIDE DEF g, room
  <2>3. /\ DOMAIN y = PdmFields /\ y.fifo = g /\ y.last = pdm.last
        /\ y.half = pdm.half /\ y.useDma = pdm.useDma /\ y.thr = pdm.thr
    BY <2>2 DEF PdmFields
  <2> HIDE DEF y
  <2>4. z = [y EXCEPT !.frac = fr] BY <2>1
  <2> HIDE DEF z
  <2> QED BY <2>3, <2>4 DEF PdmFields
<1> HIDE DEF z
<1>8. /\ DOMAIN pdm' = PdmFields /\ IsParked(pdm') /\ pdm'.fifo = g
      /\ pdm'.last = pdm.last /\ pdm'.half = pdm.half
      /\ pdm'.useDma = pdm.useDma /\ pdm'.thr = pdm.thr /\ pdm'.frac = fr
  BY <1>3, <1>7, ParkedOnly
<1>9. /\ DOMAIN caught' = {"made", "lost", "reads", "words"}
      /\ caught'.made = m + n
      /\ caught'.lost = caught.lost \cup LostIn(pdm, n)
      /\ caught'.reads = (IF fromFile THEN caught.reads + n ELSE caught.reads)
      /\ caught'.words = caught.words
  <2>1. DOMAIN caught = {"made", "lost", "reads", "words"}
    BY <1>1 DEF CaptureTypes
  <2> HIDE DEF fromFile
  <2> QED BY <1>3, <2>1
<1>10. /\ Accounted(g, Held(dma), caught') /\ g \in Seq(Nat)
       /\ Len(g) = Len(f) + k
  <2>1. k = (IF n < PdmDepth - Len(f) THEN n ELSE PdmDepth - Len(f))
    OBVIOUS
  <2>2. caught'.lost = caught.lost \cup
          {caught.made + i : i \in {j \in 1..n : j > PdmDepth - Len(f)}}
    BY <1>9 DEF LostIn
  <2>3. Accounted(f, Held(dma), caught) BY <1>1
  <2>5. /\ f \in Seq(Nat) /\ Len(f) <= PdmDepth /\ caught.made \in Nat
        /\ caught'.made = caught.made + n /\ caught'.words = caught.words
    BY <1>2, <1>9
  <2> HIDE DEF f, k
  <2>4. MadeAfter(f, Held(dma), caught, k, caught')
    <3>1. MadeBefore(f, Held(dma), caught, n, k, caught')
      BY <1>5, <1>6, <2>1, <2>2, <2>3, <2>5, Zenon DEF MadeBefore
    <3> QED BY <3>1, MadeMore, Zenon
  <2> QED BY <2>4, Zenon DEF MadeAfter
<1>11. Len(g) <= PdmDepth /\ Len(g) >= Len(f) /\ Len(g) \in Nat
  <2> DEFINE l == Len(f)
             lg == Len(g)
  <2>1. lg = l + k BY <1>10
  <2>2. k <= PdmDepth - l
    <3>1. room \in Nat /\ room = PdmDepth - l BY <1>2
    <3> HIDE DEF room
    <3>2. k <= room BY <1>5, <3>1
    <3> QED BY <3>1, <3>2
  <2>3. l \in Nat /\ l <= PdmDepth BY <1>2
  <2> HIDE DEF l, lg, k
  <2>4. lg <= PdmDepth /\ lg >= l /\ lg \in Nat BY <1>2, <1>6, <2>1, <2>2, <2>3
  <2> QED BY <2>4 DEF l, lg
<1> HIDE DEF g, k, room, f
<1>12. CaptureTypes'
  <2>1. m + n \in Nat BY <1>2, <1>5
  <2> HIDE DEF m
  <2> QED BY <1>1, <1>3, <1>4, <1>8, <1>9, <1>10, <1>11, <2>1 DEF CaptureTypes
<1>13. DmaInStep'
  <2>1. \E j \in 0..Len(pdm'.fifo) :
          j <= Threshold /\ dma'.beats = 2 * j + (IF dma'.has THEN 1 ELSE 0)
    <3>1. PICK j \in 0..Len(f) :
            j <= Threshold /\ dma.beats = 2 * j + (IF dma.has THEN 1 ELSE 0)
      BY <1>1 DEF DmaInStep, f
    <3>2. j \in 0..Len(g) BY <1>2, <1>11, <3>1
    <3> QED BY <1>3, <1>8, <3>1, <3>2
  <2>2. IsParked(pdm)' BY <1>8 DEF IsParked, WatermarkOf
  <2> QED BY <1>1, <1>3, <1>8, <2>1, <2>2 DEF DmaInStep
<1>14. Accounted(pdm.fifo, Held(dma), caught)'
  BY <1>3, <1>8, <1>10 DEF Held
<1>15. FileOnTime'
  <2>1. CASE fromFile
    <3>1. src.file # NoFile
      BY <2>1 DEF SourceOf
    <3> DEFINE e == src.file
               a == caught.reads
    <3>2. /\ DOMAIN e = {"rate", "pos", "frac"} /\ e.rate \in Nat
          /\ e.frac = (a * e.rate) % MicRate
          /\ e.pos = ((a * e.rate) \div MicRate) % FileLen
      BY <1>1, <3>1 DEF FileOnTime
    <3>3. /\ DOMAIN src' = {"file", "tone"} /\ src'.tone = src.tone
          /\ src'.file = Advanced(e, n)
      <4>1. DOMAIN src = {"file", "tone"} BY <1>1 DEF FileOnTime
      <4> HIDE DEF fromFile
      <4> QED BY <1>3, <2>1, <4>1
    <3>4. caught'.reads = a + n BY <1>9, <2>1
    <3>5. a \in Nat BY <1>2
    <3> HIDE DEF e, a
    <3> DEFINE h == Advanced(e, n)
    <3>6. /\ DOMAIN h = {"rate", "pos", "frac"} /\ h.rate = e.rate
          /\ h.frac = ((a + n) * e.rate) % MicRate
          /\ h.pos = (((a + n) * e.rate) \div MicRate) % FileLen
          /\ h.pos \in 0..FileLen - 1
      BY <1>5, <3>2, <3>5, ReadOn
    <3>7. src'.file = h BY <3>3
    <3>8. src'.tone \in BOOLEAN BY <1>1, <3>3 DEF FileOnTime
    <3>9. a + n \in Nat BY <1>5, <3>5
    <3> HIDE DEF h
    <3>10. /\ src'.file.frac = (caught'.reads * src'.file.rate) % MicRate
           /\ src'.file.pos =
                ((caught'.reads * src'.file.rate) \div MicRate) % FileLen
      BY <3>4, <3>6, <3>7
    <3> QED BY <3>2, <3>3, <3>4, <3>6, <3>7, <3>8, <3>9, <3>10 DEF FileOnTime
  <2>2. CASE ~fromFile
    <3>1. src' = src /\ caught'.reads = caught.reads
      <4> HIDE DEF fromFile
      <4> QED BY <1>3, <1>9, <2>2
    <3> QED BY <1>1, <3>1 DEF FileOnTime
  <2> QED BY <2>1, <2>2
<1> QED BY <1>12, <1>13, <1>14, <1>15 DEF CaptureInv

LEMMA CaptureStep == CaptureInv /\ (MicNext \/ MicReset) => CaptureInv'
BY CaptureTick, CaptureBurst, CaptureFirstBeat, CaptureSecondBeat,
   CaptureClear, CaptureSetUp, CaptureKill, CaptureHost, CaptureReset
   DEF MicNext

LEMMA CaptureStutters == CaptureInv /\ UNCHANGED micVars => CaptureInv'
<1> SUFFICES ASSUME CaptureInv, UNCHANGED micVars PROVE CaptureInv'
  OBVIOUS
<1>1. /\ pdm' = pdm /\ src' = src /\ mic' = mic /\ dma' = dma
      /\ caught' = caught
  BY DEF micVars
<1>2. /\ CaptureTypes /\ DmaInStep /\ Accounted(pdm.fifo, Held(dma), caught)
      /\ FileOnTime
  BY DEF CaptureInv
<1>3. CaptureTypes' BY <1>1, <1>2 DEF CaptureTypes
<1>4. DmaInStep' BY <1>1, <1>2 DEF DmaInStep, IsParked, WatermarkOf
<1>5. Accounted(pdm.fifo, Held(dma), caught)' BY <1>1, <1>2 DEF Held
<1>6. FileOnTime' BY <1>1, <1>2 DEF FileOnTime
<1> QED BY <1>3, <1>4, <1>5, <1>6 DEF CaptureInv

LEMMA CaptureImplies == CaptureInv => CaptureIntact
<1> SUFFICES ASSUME CaptureInv PROVE CaptureIntact
  OBVIOUS
<1> DEFINE w == caught.words
<1>1. /\ Accounted(pdm.fifo, Held(dma), caught) /\ FileOnTime
      /\ w \in Seq(Nat \X Nat)
  BY DEF CaptureInv, CaptureTypes
<1>2. /\ \A i \in 1..Len(w) : w[i][1] = w[i][2]
      /\ {w[i][1] : i \in 1..Len(w)} =
           1..caught.made \ (caught.lost \cup MicSeq!ToSet(pdm.fifo)
                             \cup Held(dma))
      /\ \A i, j \in 1..Len(w) : i < j => w[i][1] < w[j][1]
  BY <1>1 DEF Accounted
<1>3. \A i \in 2..Len(w) : w[i - 1][1] < w[i][1]
  <2> TAKE i \in 2..Len(w)
  <2>1. Len(w) \in Nat BY <1>1
  <2>2. i - 1 \in 1..Len(w) /\ i \in 1..Len(w) /\ i - 1 < i BY <2>1
  <2> QED BY <1>2, <2>2
<1>4. src.file # NoFile =>
        src.file.pos = ((caught.reads * src.file.rate) \div MicRate) % FileLen
  BY <1>1 DEF FileOnTime
<1> QED BY <1>2, <1>3, <1>4 DEF CaptureIntact

LEMMA CaptureInvariant == Spec => []CaptureInv
<1>1. Init => CaptureInv BY CaptureInitial DEF Init
<1>2. CaptureInv /\ [Next]_boardVars => CaptureInv'
  BY CaptureStep, CaptureStutters
  DEF Next, boardVars, PowerMoves, BusMoves, MediaMove, OthersMove, HostAsks,
      MachineReset, MediaStay
<1> QED BY <1>1, <1>2, PTL DEF Spec

(* The words the DMA stores are the samples made, whole and in order, but  *)
(* those the FIFO had no room for or a stop threw away, and the file keeps *)
(* its time, for every depth, threshold, rate and length                   *)
(* (halo_pdm_read_port, halo_pdm_update, halo_wav_reader_read).            *)
THEOREM CaptureKept == Spec => []CaptureIntact
<1> QED BY CaptureInvariant, CaptureImplies, PTL

-----------------------------------------------------------------------------
(* The web bridge: whose the looped file is.                               *)
MicTypes ==
  /\ DOMAIN micLoop = {"at", "active", "idx", "buf", "missed"}
  /\ micLoop.at \in {"sleep", "ask", "set", "count", "hush"}
  /\ micLoop.active \in BOOLEAN /\ micLoop.idx \in {0, 1}
  /\ micLoop.missed \in BOOLEAN

LoopInv ==
  /\ MicTypes
  /\ LoopIsOwned
  /\ micLoop.at \in {"ask", "hush"} => micLoop.active
  /\ micLoop.at = "count" => looping = micLoop.idx

LEMMA LoopStep == LoopInv /\ AvPhoneNext => LoopInv'
<1> SUFFICES ASSUME LoopInv, AvPhoneNext PROVE LoopInv'
  OBVIOUS
<1> USE DEF LoopInv, MicTypes, LoopIsOwned
<1>1. CASE UNCHANGED <<micLoop, looping>> BY <1>1
<1>2. CASE \E p \in Phones : Connect(p) \/ Evicted(p) \/ Leave(p)
  BY <1>1, <1>2 DEF Connect, Evicted, Leave, soundVars
<1>3. CASE \E p \in Phones : Audio(p) BY <1>3 DEF Audio
<1>4. CASE Quiet BY <1>1, <1>4 DEF Quiet
<1>5. ASSUME micLoop' = Swapping(micLoop), looping' = looping PROVE LoopInv'
  <2>1. /\ DOMAIN micLoop' = {"at", "active", "idx", "buf", "missed"}
        /\ micLoop'.at = "set" /\ micLoop'.active = micLoop.active
        /\ micLoop'.idx = 1 - micLoop.idx /\ micLoop'.missed = micLoop.missed
    BY <1>5 DEF Swapping
  <2>2. micLoop'.idx \in {0, 1} BY <2>1
  <2> QED BY <1>5, <2>1, <2>2
<1>6. ASSUME NEW at \in {"sleep", "ask", "hush"},
             micLoop' = [micLoop EXCEPT !.at = at], looping' = looping,
             micLoop.at \in {"sleep", "ask"},
             at \in {"ask", "hush"} => micLoop.active
      PROVE  LoopInv'
  BY <1>6
<1>10. CASE MicWake
  <2>1. micLoop.at = "sleep" /\ looping' = looping
    BY <1>10 DEF MicWake, MicStep
  <2>2. \/ micLoop' = Swapping(micLoop)
        \/ micLoop.active /\ \E at \in {"ask", "hush"} :
              micLoop' = [micLoop EXCEPT !.at = at]
    BY <1>10 DEF MicWake, MicStep
  <2> QED BY <1>5, <1>6, <2>1, <2>2
<1>11. CASE MicAsked
  <2>1. micLoop.at = "ask" /\ looping' = looping
    BY <1>11 DEF MicAsked, MicStep
  <2>2. \/ micLoop' = Swapping(micLoop)
        \/ micLoop' = [micLoop EXCEPT !.at = "sleep"]
    BY <1>11 DEF MicAsked, MicStep
  <2> QED BY <1>5, <1>6, <2>1, <2>2
<1>7. CASE MicSet
  <2>1. CASE \E at \in {"set", "count"} :
               micLoop' = [micLoop EXCEPT !.at = at] /\ looping' = micLoop.idx
    BY <1>7, <2>1 DEF MicSet
  <2>2. CASE /\ micLoop' = [micLoop EXCEPT !.at = "sleep", !.missed = TRUE]
             /\ looping' = looping
    BY <2>2
  <2> QED BY <1>7, <2>1, <2>2 DEF MicSet, MicStep
<1>8. CASE MicCount BY <1>8 DEF MicCount, MicStep
<1>9. CASE MicHush BY <1>9 DEF MicHush, MicStep
<1> QED BY <1>2, <1>3, <1>4, <1>7, <1>8, <1>9, <1>10, <1>11 DEF AvPhoneNext

(* Whom the broadcast still owes a picture: who has joined or left since   *)
(* it began shows in the size of the set, or in display_dirty.             *)
PageTypes ==
  /\ DOMAIN page = {"at", "crc", "dirty", "todo", "size", "cut"}
  /\ page.at \in {"sleep", "send"}
  /\ panel \in Nat /\ page.crc \in Nat /\ page.size \in Nat
  /\ page.dirty \in BOOLEAN /\ page.cut \in BOOLEAN
  /\ clients \in SUBSET Viewers
  /\ DOMAIN shown = Viewers

Owed ==
  /\ page.crc <= panel
  /\ page.at = "send" =>
       /\ page.dirty \/ Cardinality(clients) <= page.size
       /\ \A v \in clients :
            v \in page.todo \/ shown[v] = page.crc \/ page.dirty
  /\ page.at = "sleep" => PanelIsShown

PageInv == PageTypes /\ Owed

LEMMA ClientCount ==
  ASSUME NEW C \in SUBSET Viewers
  PROVE  Cardinality(C) \in Nat
         /\ \A D \in SUBSET C : Cardinality(D) <= Cardinality(C)
<1>1. IsFiniteSet(Viewers) BY AvAssumption
<1>2. IsFiniteSet(C) BY <1>1, FS_Subset
<1> QED BY <1>2, FS_Subset, FS_CardinalityType

LEMMA PageStep1 == PageInv /\ AvPageNext => PageInv'
<1> SUFFICES ASSUME PageInv, AvPageNext PROVE PageInv'
  OBVIOUS
<1>0. Cardinality(clients) \in Nat BY ClientCount DEF PageInv, PageTypes
<1> USE DEF PageInv, PageTypes, Owed, PanelIsShown
<1>1. CASE PanelChanges BY <1>1 DEF PanelChanges
<1>2. CASE Dump BY <1>0, <1>2 DEF Dump, PageStep
<1>3. CASE Raise
  <2>1. /\ page.at = "send" /\ Cardinality(clients) # page.size
        /\ UNCHANGED <<panel, clients, shown>>
    BY <1>3 DEF Raise, PageStep
  <2> DEFINE less == Cardinality(clients) < page.size
  <2>2. page' = [page EXCEPT !.at = "sleep", !.todo = {}, !.cut = @ \/ less]
    BY <1>3 DEF Raise, PageStep
  <2>3. less \in BOOLEAN /\ (page.dirty \/ less) BY <1>0, <2>1
  <2> HIDE DEF less
  <2>4. /\ DOMAIN page' = {"at", "crc", "dirty", "todo", "size", "cut"}
        /\ page'.at = "sleep" /\ page'.crc = page.crc
        /\ page'.dirty = page.dirty /\ page'.size = page.size
        /\ page'.cut = (page.cut \/ less)
    BY <2>2
  <2> QED BY <2>1, <2>3, <2>4
<1>4. CASE Sent1 BY <1>4 DEF Sent1, PageStep
<1>5. CASE \E v \in Viewers : Join(v) BY <1>5 DEF Join
<1>6. CASE \E v \in Viewers : Part(v)
  <2>1. PICK v \in Viewers : Part(v) BY <1>6
  <2>2. clients' \in SUBSET clients /\ UNCHANGED <<panel, page, shown>>
    BY <2>1 DEF Part
  <2>3. Cardinality(clients') \in Nat
        /\ Cardinality(clients') <= Cardinality(clients)
    BY <2>2, ClientCount
  <2> QED BY <1>0, <2>2, <2>3
<1>7. CASE \E v \in Viewers : SendTo(v) BY <1>0, <1>7 DEF SendTo, PageStep
<1> QED BY <1>1, <1>2, <1>3, <1>4, <1>5, <1>6, <1>7 DEF AvPageNext

(* What the emulator loops is the bridge's to silence, and is not the file *)
(* it writes next, but after a QMP call that failed and until one that did *)
(* not; no page is left with a picture that is not the panel's but by a    *)
(* broadcast that was cut short; for any number of phones and pages        *)
(* (tools/av_bridge.py:mic_loop, display_loop).                            *)
THEOREM BridgeStaysCurrent == Spec => []BridgeIsCurrent
<1>1. Init => LoopInv /\ PageInv
  BY DEF Init, AvInit, LoopInv, MicTypes, LoopIsOwned, PageInv, PageTypes, Owed,
     PanelIsShown
<1>2. LoopInv /\ UNCHANGED soundVars => LoopInv'
  BY DEF soundVars, LoopInv, MicTypes, LoopIsOwned
<1>3. PageInv /\ UNCHANGED viewVars => PageInv'
  BY DEF viewVars, PageInv, PageTypes, Owed, PanelIsShown
<1>4. AvPhoneNext => UNCHANGED viewVars
  BY DEF AvPhoneNext, Connect, Evicted, Audio, Leave, Quiet, MicWake, MicAsked,
     MicSet, MicCount, MicHush, MicStep
<1>5. [Next]_boardVars =>
        \/ AvPhoneNext
        \/ AvPageNext /\ UNCHANGED soundVars
        \/ UNCHANGED soundVars /\ UNCHANGED viewVars
  BY DEF Next, boardVars, PowerMoves, BusMoves, MediaMove, OthersMove, HostAsks,
     MachineReset, OthersStay, avVars, soundVars, viewVars
<1>6. LoopInv /\ PageInv /\ [Next]_boardVars => LoopInv' /\ PageInv'
  BY <1>2, <1>3, <1>4, <1>5, LoopStep, PageStep1
<1>7. LoopInv /\ PageInv => BridgeIsCurrent
  BY DEF LoopInv, PageInv, PageTypes, Owed, PanelIsShown, BridgeIsCurrent
<1> QED BY <1>1, <1>6, <1>7, PTL DEF Spec

-----------------------------------------------------------------------------
(* The bus: between its commands the driver finds the controller, the      *)
(* target that it reaches and what the read is due in step.  A FIFO is     *)
(* followed by its shape, as what the registers hold is of no kind.        *)
ShortFifo(f) ==
  \/ f = <<>>
  \/ \E x : f = <<x>>
  \/ \E x, y : f = <<x, y>>

ControllerOf(c) ==
  /\ DOMAIN c = {"en", "status", "fifo", "tl", "full", "over", "abrt", "stop"}
  /\ c.en \in BOOLEAN /\ c.full \in BOOLEAN /\ c.abrt \in BOOLEAN
  /\ c.tl \in Nat /\ ShortFifo(c.fifo)

Transfer == {"address"} \cup Sending

DrvShape ==
  drv.at \in Transfer => /\ DOMAIN drv = {"at", "op", "t", "a", "v", "goes"}
                         /\ drv.op \in {"write", "read"}

Whole(d) == \A u \in DOMAIN d : DOMAIN d[u] = {"ptr", "got", "mem"}

(* Of the targets of d, t alone is another in e.                           *)
Changed(d, e, t) ==
  /\ DOMAIN e = DOMAIN d /\ Whole(e)
  /\ \A u \in DOMAIN d \ {t} : e[u] = d[u]

Targets ==
  /\ Whole(dev) /\ Absent \notin DOMAIN dev /\ Nobody \notin DOMAIN dev
  /\ bus \in DOMAIN dev \cup {Nobody}
  /\ DOMAIN want = DOMAIN dev /\ \A u \in DOMAIN dev : dev[u].mem = want[u]

FifoIsDue ==
  /\ dw.abrt => dw.status = "idle"
  /\ dw.status \in {"idle", "address", "sending"} => dw.fifo = <<>>
  /\ dw.status = "receiving" => dw.fifo = due
  /\ dw.full <=> dw.en /\ Len(dw.fifo) > dw.tl

DriverIsAt ==
  /\ drv.at \in Transfer \cup {"idle", "end", "off"}
  /\ drv.at = "idle" => dw.status = "idle"
  /\ drv.at \in {"idle", "off"} => dw.fifo = <<>> /\ ~dw.abrt
  /\ drv.at \in Transfer => dw.en /\ ~dw.abrt
  /\ drv.at = "address" =>
       /\ dw.status = "address" /\ due = <<>>
       /\ drv.t \in DOMAIN dev \cup {Absent}
       /\ drv.goes = IF bus = Nobody THEN drv.t ELSE bus
  /\ drv.at \in Sending =>
       bus \in DOMAIN dev /\ drv.goes = bus /\ dev[bus].got = TRUE
  /\ drv.at \in {"write", "read"} =>
       dw.status = "sending" /\ dev[bus].ptr = drv.a /\ due = <<>>
  /\ drv.at = "read2" =>
       /\ dw.status = "receiving" /\ dev[bus].ptr = Next1(drv.a)
       /\ dw.fifo = <<>> \/ \E x : dw.fifo = <<x>>

(* The bus is held by the transfer, or by one that was broken off.         *)
BusHeld ==
  /\ hung \in BOOLEAN
  /\ bus # Nobody => hung \/ drv.at \in Sending
  /\ drv.at \in Transfer => drv.goes = drv.t \/ hung

BusInv ==
  /\ ControllerOf(dw) /\ DrvShape /\ Targets /\ FifoIsDue /\ DriverIsAt /\ BusHeld

LEMMA SmallSequences ==
  ASSUME NEW x, NEW y
  PROVE  /\ Append(<<>>, x) = <<x>> /\ Append(<<x>>, y) = <<x, y>>
         /\ Tail(<<x>>) = <<>> /\ Tail(<<x, y>>) = <<y>>
         /\ Len(<<>>) = 0 /\ Len(<<x>>) = 1 /\ Len(<<x, y>>) = 2
         /\ Head(<<x>>) = x /\ Head(<<x, y>>) = x
         /\ <<x>> # <<>> /\ <<x, y>> # <<>>
<1> DEFINE S == {x, y}
<1>1. <<>> \in Seq(S) /\ <<x>> \in Seq(S) /\ <<x, y>> \in Seq(S) OBVIOUS
<1>2. /\ Len(<<>>) = 0 /\ Len(<<x>>) = 1 /\ Len(<<x, y>>) = 2
      /\ Head(<<x>>) = x /\ Head(<<x, y>>) = x
      /\ <<x>> # <<>> /\ <<x, y>> # <<>>
  OBVIOUS
<1>3. Append(<<>>, x) = <<x>> OBVIOUS
<1>4. Append(<<x>>, y) = <<x, y>>
  <2>1. /\ Append(<<x>>, y) \in Seq(S) /\ Len(Append(<<x>>, y)) = 2
        /\ Append(<<x>>, y)[1] = x /\ Append(<<x>>, y)[2] = y
    BY <1>1, AppendProperties
  <2> DEFINE f == Append(<<x>>, y)
             g == <<x, y>>
  <2>2. /\ f \in Seq(S) /\ g \in Seq(S) /\ Len(f) = 2 /\ Len(g) = 2
        /\ f[1] = g[1] /\ f[2] = g[2]
    BY <1>1, <1>2, <2>1
  <2> HIDE DEF f, g
  <2>3. \A i \in 1..Len(f) : f[i] = g[i] BY <2>2
  <2>4. f = g BY <2>2, <2>3, SeqEqual
  <2> QED BY <2>4 DEF f, g
<1>5. Tail(<<x>>) = <<>> OBVIOUS
<1>6. Tail(<<x, y>>) = <<y>> OBVIOUS
<1> QED BY <1>2, <1>3, <1>4, <1>5, <1>6

(* What Apply leaves of a command's outcome.                               *)
LEMMA Applied ==
  ASSUME NEW s, Apply(s)
  PROVE  dw' = s.dw /\ bus' = s.bus /\ dev' = s.dev
BY DEF Apply

(* The bus as the commands take it, and the commands.                      *)
BusParts == [dw |-> dw, bus |-> bus, dev |-> dev]
AddressCmd == [recv |-> FALSE, restart |-> TRUE, stop |-> FALSE,
               byte |-> drv.a]
ValueCmd == [recv |-> FALSE, restart |-> FALSE, stop |-> TRUE,
             byte |-> drv.v]

(* What the address leaves of r: it has reached t, or nobody was there.    *)
Reached(r, t) ==
  /\ t \in DOMAIN dev
  /\ r.dw = [dw EXCEPT !.status = "sending"] /\ r.bus = t
  /\ Changed(dev, r.dev, t)
  /\ r.dev[t].ptr = drv.a /\ r.dev[t].got = TRUE
  /\ r.dev[t].mem = dev[t].mem

NobodyThere(r) ==
  /\ bus = Nobody /\ drv.goes = drv.t
  /\ r.dw = [ResetToIdle(dw) EXCEPT !.abrt = TRUE]
  /\ r.bus = bus /\ r.dev = dev

LEMMA AddressCommand ==
  ASSUME BusInv, drv.at = "address",
         NEW r, r = Command(BusParts, drv.t, AddressCmd)
  PROVE  Reached(r, drv.goes) \/ NobodyThere(r)
<1> DEFINE s == BusParts
           cmd == AddressCmd
           t == drv.goes
<1> USE DEF BusParts, AddressCmd
<1>0. /\ dw.en /\ ~dw.abrt /\ dw.status = "address"
      /\ drv.t \in DOMAIN dev \cup {Absent}
      /\ t = IF bus = Nobody THEN drv.t ELSE bus
      /\ ControllerOf(dw) /\ Targets
  BY DEF BusInv, DriverIsAt, Transfer
<1>3. t \in DOMAIN dev \/ (drv.t = Absent /\ bus = Nobody)
  BY <1>0 DEF Targets
<1> HIDE DEF t
<1>1. CASE t \in DOMAIN dev
  <2> DEFINE s1 == [dw |-> [dw EXCEPT !.status = "sending"], bus |-> t,
                    dev |-> [dev EXCEPT ![t].got = FALSE]]
             d1 == s1.dev[t]
             r2 == [s1 EXCEPT !.dev[t] = Taken(t, @, drv.a)]
  <2>0. t # Nobody /\ (bus = Nobody => drv.t = t) /\ (bus # Nobody => bus = t)
    BY <1>0, <1>1 DEF Targets
  <2>1. Started(s, drv.t, FALSE) = s1
    BY <1>1, <2>0 DEF Started
  <2>2. s1.dw.status = "sending" /\ ~s1.dw.abrt /\ s1.bus = t
    BY <1>0 DEF ControllerOf
  <2>3. Addressed(s1, drv.t, FALSE) = s1
    BY <2>2 DEF Addressed
  <2>4. Sent(s1, drv.a) = r2
    BY <2>0, <2>2 DEF Sent
  <2>5. /\ Changed(dev, s1.dev, t) /\ d1.got = FALSE /\ d1.mem = dev[t].mem
        /\ DOMAIN d1 = {"ptr", "got", "mem"}
    BY <1>0, <1>1 DEF Targets, Whole, Changed
  <2>6. Taken(t, d1, drv.a) = [d1 EXCEPT !.ptr = drv.a, !.got = TRUE]
    BY <2>5 DEF Taken
  <2>7. r2.dw = s1.dw /\ r2.bus = t
        /\ r2.dev = [s1.dev EXCEPT ![t] = Taken(t, d1, drv.a)]
    OBVIOUS
  <2>8. Moved(s1, cmd) = r2
    BY <2>2, <2>4 DEF Moved
  <2>9. Command(s, drv.t, cmd) = r2
    BY <2>1, <2>3, <2>8 DEF Command, Stopped
  <2>10. /\ Changed(dev, r2.dev, t)
         /\ r2.dev[t].ptr = drv.a /\ r2.dev[t].got = TRUE
         /\ r2.dev[t].mem = dev[t].mem
    BY <1>1, <2>5, <2>6, <2>7 DEF Changed, Whole
  <2>11. r2.dw = [dw EXCEPT !.status = "sending"] BY <2>7
  <2> HIDE DEF r2
  <2> QED BY <1>1, <2>7, <2>9, <2>10, <2>11 DEF Reached, t
<1>2. CASE drv.t = Absent /\ bus = Nobody
  <2> DEFINE s1 == [s EXCEPT !.dw = [ResetToIdle(dw) EXCEPT !.abrt = TRUE]]
  <2>1. Started(s, Absent, FALSE) = s1
    BY <1>0, <1>2 DEF Started, Aborted, Targets
  <2>2. s1.dw.abrt BY <1>0 DEF ControllerOf, ResetToIdle
  <2>3. Command(s, Absent, cmd) = s1
    BY <2>1, <2>2 DEF Command, Stopped, Moved, Addressed
  <2> QED BY <1>0, <1>2, <2>3 DEF NobodyThere, t
<1> QED BY <1>1, <1>2, <1>3

LEMMA AddressStep ==
  ASSUME BusInv, SendAddress
  PROVE  BusInv'
<1> DEFINE r == Command(BusParts, drv.t, AddressCmd)
           t == drv.goes
<1>1. /\ drv.at = "address" /\ dw.en /\ ~dw.abrt /\ dw.status = "address"
      /\ due = <<>> /\ dw.fifo = <<>>
      /\ DOMAIN drv = {"at", "op", "t", "a", "v", "goes"}
      /\ drv.op \in {"write", "read"}
      /\ ControllerOf(dw) /\ Targets /\ FifoIsDue /\ BusHeld
  BY DEF SendAddress, BusInv, DriverIsAt, FifoIsDue, DrvShape, Transfer
<1>2. /\ Apply(r)
      /\ drv' = IF dw'.abrt THEN [at |-> "end"]
                ELSE [drv EXCEPT !.at = drv.op]
      /\ UNCHANGED <<want, due, hung>>
  BY <1>1 DEF SendAddress, DataCmd, BusParts, AddressCmd
<1>3. dw' = r.dw /\ bus' = r.bus /\ dev' = r.dev BY <1>2, Applied
<1>4. Reached(r, t) \/ NobodyThere(r) BY <1>1, AddressCommand
<1> HIDE DEF r, t
<1>5. CASE Reached(r, t)
  <2>1. /\ dw'.en = dw.en /\ dw'.status = "sending" /\ dw'.fifo = dw.fifo
        /\ dw'.tl = dw.tl /\ dw'.full = dw.full /\ ~dw'.abrt
        /\ ControllerOf(dw')
    BY <1>1, <1>3, <1>5 DEF ControllerOf, Reached
  <2>2. /\ DOMAIN drv' = DOMAIN drv /\ drv'.at = drv.op /\ drv'.op = drv.op
        /\ drv'.t = drv.t /\ drv'.a = drv.a /\ drv'.goes = t
        /\ drv'.at \in {"write", "read"}
    BY <1>1, <1>2, <2>1 DEF t
  <2>3. FifoIsDue' BY <1>1, <1>2, <2>1 DEF FifoIsDue
  <2>4. /\ t \in DOMAIN dev' /\ bus' = t /\ DOMAIN dev' = DOMAIN dev
        /\ dev'[t].ptr = drv.a /\ dev'[t].got = TRUE
        /\ Whole(dev') /\ \A u \in DOMAIN dev : dev'[u].mem = dev[u].mem
    BY <1>3, <1>5 DEF Reached, Changed
  <2>5. Targets' BY <1>1, <1>2, <2>4 DEF Targets
  <2>6. DrvShape' BY <1>1, <2>2 DEF DrvShape
  <2>7. DriverIsAt'
    BY <1>1, <1>2, <2>1, <2>2, <2>4 DEF DriverIsAt, Transfer, Sending
  <2>8. BusHeld' BY <1>1, <1>2, <2>2 DEF BusHeld, Transfer, Sending, t
  <2> QED BY <2>1, <2>3, <2>5, <2>6, <2>7, <2>8 DEF BusInv
<1>6. CASE NobodyThere(r)
  <2>1. /\ dw'.status = "idle" /\ dw'.fifo = <<>>
        /\ dw'.tl = dw.tl /\ dw'.full = FALSE /\ dw'.abrt = TRUE
        /\ ControllerOf(dw')
    BY <1>1, <1>3, <1>6 DEF ControllerOf, ResetToIdle, ShortFifo, NobodyThere
  <2>2. drv' = [at |-> "end"] /\ drv'.at = "end" BY <1>2, <2>1
  <2>3. FifoIsDue' BY <2>1, SmallSequences DEF FifoIsDue, ControllerOf
  <2>4. bus' = bus /\ dev' = dev /\ bus = Nobody
    BY <1>3, <1>6 DEF NobodyThere
  <2>5. Targets' BY <1>1, <1>2, <2>4 DEF Targets
  <2>6. DrvShape' /\ DriverIsAt' /\ BusHeld'
    BY <1>1, <1>2, <2>2, <2>4
    DEF DrvShape, DriverIsAt, BusHeld, Transfer, Sending
  <2> QED BY <2>1, <2>3, <2>5, <2>6 DEF BusInv
<1> QED BY <1>4, <1>5, <1>6

(* What the driver is sure of in the midst of a transfer.                  *)
LEMMA Midway ==
  ASSUME BusInv, drv.at \in Sending
  PROVE  /\ dw.en = TRUE /\ dw.abrt = FALSE
         /\ bus \in DOMAIN dev /\ bus # Nobody /\ drv.goes = bus
         /\ dev[bus].got = TRUE /\ DOMAIN dev[bus] = {"ptr", "got", "mem"}
         /\ dev[bus].mem = want[bus]
         /\ DOMAIN drv = {"at", "op", "t", "a", "v", "goes"}
         /\ ControllerOf(dw) /\ Whole(dev)
         /\ DrvShape /\ Targets /\ FifoIsDue /\ BusHeld
<1>1. /\ ControllerOf(dw) /\ DrvShape /\ Targets /\ FifoIsDue /\ BusHeld
      /\ DriverIsAt
  BY DEF BusInv
<1>2. dw.en /\ ~dw.abrt /\ bus \in DOMAIN dev /\ drv.goes = bus
      /\ dev[bus].got = TRUE
  BY <1>1 DEF DriverIsAt, Transfer
<1>3. dw.en = TRUE /\ dw.abrt = FALSE BY <1>1, <1>2 DEF ControllerOf
<1>4. /\ bus # Nobody /\ Whole(dev) /\ DOMAIN dev[bus] = {"ptr", "got", "mem"}
      /\ dev[bus].mem = want[bus]
  BY <1>1, <1>2 DEF Targets, Whole
<1>5. DOMAIN drv = {"at", "op", "t", "a", "v", "goes"}
  BY <1>1 DEF DrvShape, Transfer
<1> QED BY <1>1, <1>2, <1>3, <1>4, <1>5

(* A write's byte goes to the register that was named.                     *)
LEMMA WriteCommand ==
  ASSUME BusInv, drv.at = "write",
         NEW tar, NEW r, r = Command(BusParts, tar, ValueCmd)
  PROVE  /\ r.dw = [dw EXCEPT !.stop = TRUE] /\ r.bus = Nobody
         /\ Changed(dev, r.dev, bus)
         /\ r.dev[bus].mem = Write(bus, dev[bus].mem, drv.a, drv.v)
<1> DEFINE s == BusParts
           cmd == ValueCmd
           t == bus
<1> USE DEF BusParts, ValueCmd
<1>0. /\ ~dw.abrt /\ dw.status = "sending" /\ bus = t /\ t \in DOMAIN dev
      /\ dev[t].got = TRUE /\ dev[t].ptr = drv.a /\ t # Nobody
      /\ ControllerOf(dw) /\ Whole(dev)
  BY Midway DEF BusInv, DriverIsAt, Sending
<1> HIDE DEF t
<1> DEFINE d1 == dev[t]
           m2 == Write(t, d1.mem, drv.a, drv.v)
           r1 == [s EXCEPT !.dev[t] = Taken(t, @, drv.v)]
           r2 == [r1 EXCEPT !.dw.stop = TRUE, !.bus = Nobody]
<1>1. Addressed(s, tar, FALSE) = s BY <1>0 DEF Addressed
<1>2. Sent(s, drv.v) = r1 BY <1>0 DEF Sent
<1>3. Moved(s, cmd) = r1 BY <1>0, <1>2 DEF Moved
<1>4. ~r1.dw.abrt BY <1>0
<1>5. Command(s, tar, cmd) = r2 BY <1>1, <1>3, <1>4 DEF Command, Stopped
<1>6. Taken(t, d1, drv.v) = [d1 EXCEPT !.mem = m2, !.ptr = Next1(drv.a)]
  BY <1>0 DEF Taken
<1>7. /\ r2.dw = [dw EXCEPT !.stop = TRUE] /\ r2.bus = Nobody
      /\ r2.dev = [dev EXCEPT ![t] = Taken(t, d1, drv.v)]
  OBVIOUS
<1> HIDE DEF r2, m2
<1>8. Changed(dev, r2.dev, t) /\ r2.dev[t].mem = m2
  <2> DEFINE D == Taken(t, d1, drv.v)
             e == r2.dev
  <2>1. DOMAIN d1 = {"ptr", "got", "mem"} BY <1>0 DEF Whole
  <2>2. DOMAIN D = {"ptr", "got", "mem"} /\ D.mem = m2 BY <1>6, <2>1
  <2>3. e = [dev EXCEPT ![t] = D] BY <1>7
  <2> HIDE DEF D, e, d1
  <2>4. /\ DOMAIN e = DOMAIN dev /\ e[t] = D
        /\ \A u \in DOMAIN dev \ {t} : e[u] = dev[u]
    BY <1>0, <2>3
  <2>5. Changed(dev, e, t) /\ e[t].mem = m2
    BY <1>0, <2>2, <2>4 DEF Changed, Whole
  <2> QED BY <2>5 DEF e
<1> QED BY <1>0, <1>5, <1>7, <1>8 DEF m2

(* A command that has changed what bus holds to what is wanted of it.      *)
LEMMA StillTargets ==
  ASSUME Targets, bus \in DOMAIN dev, Changed(dev, dev', bus),
         bus' \in {bus, Nobody}, DOMAIN want' = DOMAIN want,
         dev'[bus].mem = want'[bus],
         \A u \in DOMAIN dev \ {bus} : want'[u] = want[u]
  PROVE  Targets'
<1>1. \A u \in DOMAIN dev : dev'[u].mem = want'[u] BY DEF Targets, Changed
<1> QED BY <1>1 DEF Targets, Changed

LEMMA WriteStep ==
  ASSUME BusInv, SendValue
  PROVE  BusInv'
<1> DEFINE r == Command(BusParts, drv.t, ValueCmd)
<1>1. /\ drv.at = "write" /\ dw.en /\ ~dw.abrt /\ dw.status = "sending"
      /\ drv.goes = bus /\ bus \in DOMAIN dev /\ dev[bus].mem = want[bus]
      /\ ControllerOf(dw) /\ Targets /\ FifoIsDue
  BY Midway DEF SendValue, BusInv, DriverIsAt, Sending
<1>2. /\ Apply(r)
      /\ drv' = [at |-> "end"] /\ UNCHANGED due /\ hung' = FALSE
      /\ want' = IF dw'.abrt THEN want
                 ELSE [want EXCEPT ![bus] = Write(bus, @, drv.a, drv.v)]
  BY <1>1 DEF SendValue, DataCmd, BusParts, ValueCmd
<1>3. dw' = r.dw /\ bus' = r.bus /\ dev' = r.dev BY <1>2, Applied
<1>4. /\ r.dw = [dw EXCEPT !.stop = TRUE] /\ r.bus = Nobody
      /\ Changed(dev, r.dev, bus)
      /\ r.dev[bus].mem = Write(bus, dev[bus].mem, drv.a, drv.v)
  BY <1>1, WriteCommand
<1> HIDE DEF r
<1>5. /\ dw'.en = dw.en /\ dw'.status = "sending" /\ dw'.fifo = dw.fifo
      /\ dw'.tl = dw.tl /\ dw'.full = dw.full /\ ~dw'.abrt
      /\ ControllerOf(dw')
  BY <1>1, <1>3, <1>4 DEF ControllerOf
<1>6. drv'.at = "end" BY <1>2
<1>7. want' = [want EXCEPT ![bus] = Write(bus, @, drv.a, drv.v)]
  BY <1>2, <1>5
<1>8. Targets'
  <2>1. /\ DOMAIN want' = DOMAIN want /\ bus \in DOMAIN want
        /\ \A u \in DOMAIN dev \ {bus} : want'[u] = want[u]
        /\ want'[bus] = Write(bus, want[bus], drv.a, drv.v)
    BY <1>1, <1>7 DEF Targets
  <2> QED BY <1>1, <1>3, <1>4, <2>1, StillTargets
<1>9. FifoIsDue' BY <1>1, <1>2, <1>5 DEF FifoIsDue
<1>10. DrvShape' /\ DriverIsAt' /\ BusHeld'
  BY <1>2, <1>3, <1>4, <1>5, <1>6
  DEF DrvShape, DriverIsAt, BusHeld, Transfer, Sending
<1> QED BY <1>5, <1>8, <1>9, <1>10 DEF BusInv

(* A byte read goes behind those that are in the FIFO.                     *)
LEMMA ReceivedByte ==
  ASSUME NEW t, NEW s, DOMAIN s = {"dw", "bus", "dev"}, s.bus = t,
         ControllerOf(s.dw), Whole(s.dev), t \in DOMAIN s.dev,
         s.dw.fifo = <<>> \/ \E x : s.dw.fifo = <<x>>,
         NEW r, r = Received(s)
  PROVE  LET d == s.dev[t] IN
         /\ DOMAIN r = {"dw", "bus", "dev"} /\ r.bus = t
         /\ ControllerOf(r.dw) /\ Changed(s.dev, r.dev, t)
         /\ r.dw.fifo = Append(s.dw.fifo, Read(t, d.mem, d.ptr))
         /\ r.dw.en = s.dw.en /\ r.dw.status = s.dw.status
         /\ r.dw.abrt = s.dw.abrt /\ r.dw.tl = s.dw.tl
         /\ r.dw.full = (s.dw.full \/ Len(r.dw.fifo) > s.dw.tl)
         /\ r.dev[t].ptr = Next1(d.ptr) /\ r.dev[t].got = d.got
         /\ r.dev[t].mem = d.mem
<1> DEFINE d == s.dev[t]
           b == Read(t, d.mem, d.ptr)
           fifo == Append(s.dw.fifo, b)
           more == s.dw.full \/ Len(fifo) > s.dw.tl
           r2 == [s EXCEPT !.dw.fifo = fifo, !.dw.full = more,
                           !.dev[t].ptr = Next1(@)]
<1>1. Len(s.dw.fifo) < 2
  <2>1. CASE s.dw.fifo = <<>> BY <2>1
  <2>2. CASE \E x : s.dw.fifo = <<x>> BY <2>2
  <2> QED BY <2>1, <2>2
<1>2. Len(s.dw.fifo) # FifoSize BY <1>1, BusAssumption
<1>3. r = r2 BY <1>2 DEF Received
<1>4. ShortFifo(fifo)
  <2> HIDE DEF b
  <2>1. CASE s.dw.fifo = <<>>
    <3>1. fifo = <<b>> BY <2>1, SmallSequences
    <3> HIDE DEF fifo
    <3> QED BY <3>1 DEF ShortFifo
  <2>2. CASE \E x : s.dw.fifo = <<x>>
    <3>1. PICK x : s.dw.fifo = <<x>> BY <2>2
    <3>2. Append(<<x>>, b) = <<x, b>> BY SmallSequences, ZenonT(60)
    <3>3. fifo = <<x, b>> BY <3>1, <3>2
    <3> HIDE DEF fifo
    <3> QED BY <3>3 DEF ShortFifo
  <2> QED BY <2>1, <2>2
<1>5. more \in BOOLEAN BY DEF ControllerOf
<1> HIDE DEF fifo, more
<1>6. /\ DOMAIN r2 = {"dw", "bus", "dev"} /\ r2.bus = t
      /\ r2.dw = [s.dw EXCEPT !.fifo = fifo, !.full = more]
      /\ r2.dev = [s.dev EXCEPT ![t].ptr = Next1(@)]
  OBVIOUS
<1>7. /\ ControllerOf(r2.dw) /\ r2.dw.fifo = fifo /\ r2.dw.full = more
      /\ r2.dw.en = s.dw.en /\ r2.dw.status = s.dw.status
      /\ r2.dw.abrt = s.dw.abrt /\ r2.dw.tl = s.dw.tl
  BY <1>4, <1>5, <1>6 DEF ControllerOf
<1>8. /\ Changed(s.dev, r2.dev, t)
      /\ r2.dev[t].ptr = Next1(d.ptr) /\ r2.dev[t].got = d.got
      /\ r2.dev[t].mem = d.mem
  BY <1>6 DEF Whole, Changed
<1> HIDE DEF r2
<1> QED BY <1>3, <1>6, <1>7, <1>8 DEF fifo, more

FirstReadCmd == [recv |-> TRUE, restart |-> TRUE, stop |-> FALSE, byte |-> 0]
LastReadCmd == [recv |-> TRUE, restart |-> FALSE, stop |-> TRUE, byte |-> 0]

LEMMA FirstRead ==
  ASSUME BusInv, drv.at = "read",
         NEW tar, NEW r, r = Command(BusParts, tar, FirstReadCmd)
  PROVE  /\ r.bus = bus
         /\ ControllerOf(r.dw) /\ Changed(dev, r.dev, bus)
         /\ r.dw.fifo = <<Read(bus, dev[bus].mem, drv.a)>>
         /\ r.dw.en = dw.en /\ r.dw.status = "receiving"
         /\ r.dw.abrt = FALSE
         /\ r.dw.full = (Len(r.dw.fifo) > r.dw.tl)
         /\ r.dev[bus].ptr = Next1(drv.a) /\ r.dev[bus].got = TRUE
         /\ r.dev[bus].mem = dev[bus].mem
<1> DEFINE t == bus
           s1 == [dw |-> [dw EXCEPT !.status = "receiving"], bus |-> t,
                  dev |-> [dev EXCEPT ![t].got = TRUE /\ @]]
           r1 == Received(s1)
<1>0. /\ ~dw.abrt /\ dw.status = "sending" /\ bus = t /\ t # Nobody
      /\ t \in DOMAIN dev
      /\ dev[t].got = TRUE /\ dev[t].ptr = drv.a /\ dw.fifo = <<>>
      /\ dw.full = FALSE
      /\ ControllerOf(dw) /\ Whole(dev)
  <2>1. /\ dw.status = "sending" /\ dev[bus].ptr = drv.a
        /\ drv.at \in Sending
    BY DEF BusInv, DriverIsAt, Sending
  <2>2. /\ dw.abrt = FALSE /\ bus \in DOMAIN dev /\ bus # Nobody
        /\ dev[bus].got = TRUE /\ ControllerOf(dw) /\ Whole(dev) /\ FifoIsDue
    BY <2>1, Midway
  <2>3. dw.fifo = <<>> /\ dw.full = FALSE
    BY <2>1, <2>2, SmallSequences DEF FifoIsDue, ControllerOf
  <2> QED BY <2>1, <2>2, <2>3
<1> HIDE DEF t
<1>1. Started(BusParts, tar, TRUE) = s1
  BY <1>0 DEF Started, BusParts
<1>2. /\ DOMAIN s1 = {"dw", "bus", "dev"} /\ s1.bus = t
      /\ s1.dw.status = "receiving" /\ s1.dw.abrt = FALSE
      /\ s1.dw.fifo = <<>> /\ s1.dw.full = FALSE /\ s1.dw.en = dw.en
      /\ ControllerOf(s1.dw)
  BY <1>0 DEF ControllerOf
<1>3. /\ Changed(dev, s1.dev, t) /\ s1.dev[t].got = TRUE
      /\ s1.dev[t].ptr = drv.a /\ s1.dev[t].mem = dev[t].mem
      /\ Whole(s1.dev) /\ t \in DOMAIN s1.dev
  BY <1>0 DEF Changed, Whole
<1> HIDE DEF s1
<1>4. Addressed(s1, tar, TRUE) = s1 BY <1>2 DEF Addressed
<1>5. Moved(s1, FirstReadCmd) = r1 BY <1>2 DEF Moved, FirstReadCmd
<1>6. Command(BusParts, tar, FirstReadCmd) = r1
  BY <1>1, <1>4, <1>5 DEF Command, Stopped, FirstReadCmd
<1>7. /\ r1.bus = t /\ ControllerOf(r1.dw) /\ Changed(s1.dev, r1.dev, t)
      /\ r1.dw.fifo = Append(s1.dw.fifo, Read(t, s1.dev[t].mem, s1.dev[t].ptr))
      /\ r1.dw.en = s1.dw.en /\ r1.dw.status = s1.dw.status
      /\ r1.dw.abrt = s1.dw.abrt /\ r1.dw.tl = s1.dw.tl
      /\ r1.dw.full = (s1.dw.full \/ Len(r1.dw.fifo) > s1.dw.tl)
      /\ r1.dev[t].ptr = Next1(s1.dev[t].ptr)
      /\ r1.dev[t].got = s1.dev[t].got /\ r1.dev[t].mem = s1.dev[t].mem
  BY <1>2, <1>3, ReceivedByte
<1> HIDE DEF r1
<1>8. r1.dw.fifo = <<Read(t, dev[t].mem, drv.a)>>
  BY <1>2, <1>3, <1>7, SmallSequences
<1>9. r1.dw.full = (Len(r1.dw.fifo) > r1.dw.tl) BY <1>2, <1>7
<1>10. Changed(dev, r1.dev, t) BY <1>3, <1>7 DEF Changed
<1> QED BY <1>0, <1>2, <1>3, <1>6, <1>7, <1>8, <1>9, <1>10

LEMMA LastRead ==
  ASSUME BusInv, drv.at = "read2",
         NEW tar, NEW r, r = Command(BusParts, tar, LastReadCmd)
  PROVE  /\ r.bus = Nobody
         /\ ControllerOf(r.dw) /\ Changed(dev, r.dev, bus)
         /\ r.dw.fifo = Append(dw.fifo, Read(bus, dev[bus].mem, Next1(drv.a)))
         /\ r.dw.en = dw.en /\ r.dw.status = "receiving"
         /\ r.dw.abrt = FALSE /\ r.dw.tl = dw.tl
         /\ r.dw.full = (dw.full \/ Len(r.dw.fifo) > dw.tl)
         /\ r.dev[bus].mem = dev[bus].mem
<1> DEFINE t == bus
           s == BusParts
           r1 == Received(s)
           r2 == [r1 EXCEPT !.dw.stop = TRUE, !.bus = Nobody]
<1>0. /\ dw.abrt = FALSE /\ dw.status = "receiving" /\ bus = t
      /\ t \in DOMAIN dev /\ dev[t].ptr = Next1(drv.a)
      /\ dw.fifo = <<>> \/ \E x : dw.fifo = <<x>>
      /\ ControllerOf(dw) /\ Whole(dev)
  BY Midway DEF BusInv, DriverIsAt, Sending
<1>1. /\ DOMAIN s = {"dw", "bus", "dev"}
      /\ s.dw = dw /\ s.bus = bus /\ s.dev = dev
  BY DEF BusParts
<1> HIDE DEF s, t
<1>2. Addressed(s, tar, TRUE) = s BY <1>0, <1>1 DEF Addressed
<1>3. Moved(s, LastReadCmd) = r1 BY <1>0, <1>1 DEF Moved, LastReadCmd
<1>4. /\ DOMAIN r1 = {"dw", "bus", "dev"}
      /\ ControllerOf(r1.dw) /\ Changed(dev, r1.dev, t)
      /\ r1.dw.fifo = Append(dw.fifo, Read(t, dev[t].mem, dev[t].ptr))
      /\ r1.dw.en = dw.en /\ r1.dw.status = dw.status
      /\ r1.dw.abrt = dw.abrt /\ r1.dw.tl = dw.tl
      /\ r1.dw.full = (dw.full \/ Len(r1.dw.fifo) > dw.tl)
      /\ r1.dev[t].mem = dev[t].mem
  BY <1>0, <1>1, ReceivedByte
<1> HIDE DEF r1
<1>5. Command(s, tar, LastReadCmd) = r2
  BY <1>0, <1>2, <1>3, <1>4 DEF Command, Stopped, LastReadCmd
<1>6. /\ r2.bus = Nobody /\ r2.dev = r1.dev
      /\ r2.dw = [r1.dw EXCEPT !.stop = TRUE]
  BY <1>4
<1> HIDE DEF r2
<1>7. /\ ControllerOf(r2.dw) /\ r2.dw.fifo = r1.dw.fifo
      /\ r2.dw.en = r1.dw.en /\ r2.dw.status = r1.dw.status
      /\ r2.dw.abrt = r1.dw.abrt /\ r2.dw.tl = r1.dw.tl
      /\ r2.dw.full = r1.dw.full
  BY <1>4, <1>6 DEF ControllerOf
<1> QED BY <1>0, <1>4, <1>5, <1>6, <1>7 DEF s

LEMMA ReadStep ==
  ASSUME BusInv, SendRead
  PROVE  BusInv'
<1>1. /\ drv.at \in {"read", "read2"} /\ drv.goes = bus /\ dw.en /\ ~dw.abrt
      /\ dw.status \in {"sending", "receiving"} /\ bus \in DOMAIN dev
      /\ dev[bus].mem = want[bus] /\ bus # Nobody
      /\ DOMAIN drv = {"at", "op", "t", "a", "v", "goes"}
      /\ ControllerOf(dw) /\ Targets /\ DrvShape /\ FifoIsDue /\ BusHeld
  BY Midway DEF SendRead, BusInv, DriverIsAt, Sending
<1>2. CASE drv.at = "read"
  <2> DEFINE r == Command(BusParts, drv.t, FirstReadCmd)
             b == Read(bus, want[bus], drv.a)
  <2>1. /\ Apply(r) /\ UNCHANGED <<want, hung>>
        /\ drv' = IF ~dw'.abrt THEN [drv EXCEPT !.at = "read2"]
                  ELSE [at |-> "end"]
        /\ due' = IF dw'.abrt THEN due ELSE Append(due, b)
    <3>1. hung' = hung BY <1>1, <1>2 DEF SendRead, BusHeld
    <3> QED BY <1>1, <1>2, <3>1 DEF SendRead, DataCmd, BusParts, FirstReadCmd
  <2>2. /\ dw' = r.dw /\ bus' = r.bus /\ dev' = r.dev
    BY <2>1, Applied
  <2>3. due = <<>>
    BY <1>2 DEF BusInv, DriverIsAt
  <2>4. /\ r.bus = bus
        /\ ControllerOf(r.dw) /\ Changed(dev, r.dev, bus)
        /\ r.dw.fifo = <<Read(bus, dev[bus].mem, drv.a)>>
        /\ r.dw.en = dw.en /\ r.dw.status = "receiving"
        /\ r.dw.abrt = FALSE
        /\ r.dw.full = (Len(r.dw.fifo) > r.dw.tl)
        /\ r.dev[bus].ptr = Next1(drv.a) /\ r.dev[bus].got = TRUE
        /\ r.dev[bus].mem = dev[bus].mem
    BY <1>2, FirstRead
  <2>12. r.dw.fifo = <<b>> BY <1>1, <2>4
  <2> HIDE DEF r, b
  <2>5. /\ DOMAIN drv' = DOMAIN drv /\ drv'.at = "read2"
        /\ drv'.op = drv.op /\ drv'.t = drv.t /\ drv'.a = drv.a
        /\ drv'.goes = drv.goes
    BY <1>1, <2>1, <2>2, <2>4
  <2>6. due' = <<b>>
    BY <2>1, <2>2, <2>3, <2>4, SmallSequences
  <2>7. FifoIsDue' BY <1>1, <2>2, <2>4, <2>6, <2>12 DEF FifoIsDue
  <2>8. Targets' BY <1>1, <2>1, <2>2, <2>4, StillTargets
  <2>9. DrvShape' BY <1>1, <1>2, <2>5 DEF DrvShape, Transfer, Sending
  <2>10. DriverIsAt'
    <3>1. /\ bus' = bus /\ bus \in DOMAIN dev' /\ dev'[bus].got = TRUE
          /\ dev'[bus].ptr = Next1(drv.a)
      BY <1>1, <2>2, <2>4 DEF Changed
    <3> QED BY <1>1, <2>2, <2>4, <2>5, <2>12, <3>1
            DEF DriverIsAt, Transfer, Sending
  <2>13. BusHeld' BY <1>1, <1>2, <2>1, <2>5 DEF BusHeld, Transfer, Sending
  <2>11. ControllerOf(dw') BY <2>2, <2>4
  <2> QED BY <2>7, <2>8, <2>9, <2>10, <2>11, <2>13 DEF BusInv
<1>3. CASE drv.at = "read2"
  <2> DEFINE r == Command(BusParts, drv.t, LastReadCmd)
             b == Read(bus, want[bus], Next1(drv.a))
  <2>1. /\ Apply(r) /\ UNCHANGED want /\ hung' = FALSE
        /\ drv' = [at |-> "end"]
        /\ due' = IF dw'.abrt THEN due ELSE Append(due, b)
    BY <1>1, <1>3 DEF SendRead, DataCmd, BusParts, LastReadCmd
  <2>2. /\ dw' = r.dw /\ bus' = r.bus /\ dev' = r.dev
    BY <2>1, Applied
  <2>3. /\ dw.status = "receiving" /\ dw.fifo = due
        /\ dw.fifo = <<>> \/ \E x : dw.fifo = <<x>>
    BY <1>1, <1>3 DEF BusInv, DriverIsAt, FifoIsDue
  <2>14. /\ r.bus = Nobody
        /\ ControllerOf(r.dw) /\ Changed(dev, r.dev, bus)
        /\ r.dw.fifo = Append(dw.fifo, Read(bus, dev[bus].mem, Next1(drv.a)))
        /\ r.dw.en = dw.en /\ r.dw.status = "receiving"
        /\ r.dw.abrt = FALSE /\ r.dw.tl = dw.tl
        /\ r.dw.full = (dw.full \/ Len(r.dw.fifo) > dw.tl)
        /\ r.dev[bus].mem = dev[bus].mem
    BY <1>3, LastRead
  <2>4. r.dw.fifo = Append(dw.fifo, b) BY <1>1, <2>14
  <2> HIDE DEF r, b
  <2>5. drv'.at = "end" BY <2>1
  <2>6. due' = r.dw.fifo BY <2>1, <2>2, <2>3, <2>4, <2>14
  <2>7. /\ Len(r.dw.fifo) = Len(dw.fifo) + 1 /\ Len(dw.fifo) \in Nat
    <3>1. CASE dw.fifo = <<>>
      <4>1. r.dw.fifo = <<b>> BY <2>4, <3>1, SmallSequences
      <4> QED BY <3>1, <4>1
    <3>2. CASE \E x : dw.fifo = <<x>>
      <4>1. PICK x : dw.fifo = <<x>> BY <3>2
      <4>2. Append(<<x>>, b) = <<x, b>> BY SmallSequences, ZenonT(60)
      <4>3. r.dw.fifo = <<x, b>> BY <2>4, <4>1, <4>2
      <4> QED BY <4>1, <4>3
    <3> QED BY <2>3, <3>1, <3>2
  <2>8. FifoIsDue'
    <3>1. r.dw.full <=> r.dw.en /\ Len(r.dw.fifo) > r.dw.tl
      <4>1. /\ dw.full <=> Len(dw.fifo) > dw.tl
            /\ dw.tl \in Nat /\ dw.full \in BOOLEAN
        BY <1>1 DEF FifoIsDue, ControllerOf
      <4>2. r.dw.full \in BOOLEAN BY <2>14 DEF ControllerOf
      <4>3. r.dw.full <=> Len(r.dw.fifo) > dw.tl
        <5>1. dw.full => Len(r.dw.fifo) > dw.tl BY <2>7, <4>1
        <5>2. r.dw.full <=> dw.full \/ Len(r.dw.fifo) > dw.tl
          BY <2>14, <4>2
        <5> QED BY <5>1, <5>2
      <4> QED BY <1>1, <2>14, <4>3
    <3> QED BY <2>2, <2>6, <2>14, <3>1 DEF FifoIsDue
  <2>9. Targets' BY <1>1, <2>1, <2>2, <2>14, StillTargets
  <2>10. DrvShape' /\ DriverIsAt' /\ BusHeld'
    BY <2>1, <2>2, <2>5, <2>14
    DEF DrvShape, DriverIsAt, BusHeld, Transfer, Sending
  <2>12. ControllerOf(dw') BY <2>2, <2>14
  <2> QED BY <2>8, <2>9, <2>10, <2>12 DEF BusInv
<1> QED BY <1>1, <1>2, <1>3

LEMMA DrainRxStep ==
  ASSUME BusInv, DrainRx
  PROVE  BusInv'
<1>1. /\ dw.fifo # <<>> /\ dw.status = "receiving" /\ dw.fifo = due
      /\ ControllerOf(dw) /\ Targets /\ DrvShape /\ FifoIsDue
      /\ DriverIsAt /\ BusHeld
  BY DEF DrainRx, BusInv, FifoIsDue
<1>2. /\ dw' = [dw EXCEPT !.fifo = Tail(@),
                          !.full = @ /\ Len(dw.fifo) - 1 > dw.tl]
      /\ due' = Tail(due) /\ UNCHANGED <<bus, dev, drv, want, hung>>
  BY <1>1 DEF DrainRx
<1>3. \/ \E x : dw.fifo = <<x>> /\ Tail(dw.fifo) = <<>>
      \/ \E x, y : dw.fifo = <<x, y>> /\ Tail(dw.fifo) = <<y>>
  <2>1. CASE \E x : dw.fifo = <<x>> BY <2>1
  <2>2. CASE \E x, y : dw.fifo = <<x, y>> BY <2>2
  <2> QED BY <1>1, <2>1, <2>2 DEF ControllerOf, ShortFifo
<1>4. /\ ShortFifo(Tail(dw.fifo)) /\ Len(dw.fifo) \in Nat
      /\ Len(Tail(dw.fifo)) = Len(dw.fifo) - 1
  <2> DEFINE f == dw.fifo
  <2> HIDE DEF f
  <2>1. CASE \E x : f = <<x>> /\ Tail(f) = <<>>
    <3>1. PICK x : f = <<x>> /\ Tail(f) = <<>> BY <2>1
    <3>2. Len(<<x>>) = 1 /\ Len(<<>>) = 0 BY SmallSequences
    <3> QED BY <3>1, <3>2 DEF ShortFifo, f
  <2>2. CASE \E x, y : f = <<x, y>> /\ Tail(f) = <<y>>
    <3>1. PICK x, y : f = <<x, y>> /\ Tail(f) = <<y>> BY <2>2
    <3>2. Len(<<x, y>>) = 2 /\ Len(<<y>>) = 1 BY SmallSequences
    <3>3. Len(f) = 2 /\ Len(Tail(f)) = 1 BY <3>1, <3>2
    <3>4. ShortFifo(Tail(f)) BY <3>1 DEF ShortFifo
    <3> QED BY <3>3, <3>4 DEF f
  <2> QED BY <1>3, <2>1, <2>2 DEF f
<1>5. /\ dw'.fifo = Tail(dw.fifo) /\ dw'.status = dw.status
      /\ dw'.tl = dw.tl /\ dw'.en = dw.en /\ dw'.abrt = dw.abrt
      /\ dw'.full = (dw.full /\ Len(dw.fifo) - 1 > dw.tl)
      /\ ControllerOf(dw')
  BY <1>1, <1>2, <1>4 DEF ControllerOf
<1>6. FifoIsDue' BY <1>1, <1>2, <1>4, <1>5 DEF FifoIsDue, ControllerOf
<1>7. Targets' BY <1>1, <1>2 DEF Targets
<1>8. DrvShape' /\ BusHeld' BY <1>1, <1>2 DEF DrvShape, BusHeld
<1>9. DriverIsAt'
  <2>1. drv.at \in {"read2", "end"}
    BY <1>1 DEF DriverIsAt, Transfer, Sending
  <2>2. drv.at = "read2" => Tail(dw.fifo) = <<>>
    BY <1>1, SmallSequences DEF DriverIsAt
  <2> QED BY <1>1, <1>2, <1>5, <2>1, <2>2 DEF DriverIsAt, Transfer, Sending
<1> QED BY <1>5, <1>6, <1>7, <1>8, <1>9 DEF BusInv

LEMMA BeginStep ==
  ASSUME BusInv, NEW op \in {"write", "read"},
         NEW u \in DOMAIN dev \cup {Absent}, NEW a, NEW v, Begin(op, u, a, v)
  PROVE  BusInv'
<1>1. /\ drv.at = "idle" /\ ControllerOf(dw) /\ Targets /\ FifoIsDue
      /\ dw.fifo = <<>> /\ ~dw.abrt /\ BusHeld
  BY DEF Begin, BusInv, DriverIsAt
<1>2. /\ dw' = [dw EXCEPT !.en = TRUE, !.status = "address"]
      /\ UNCHANGED <<bus, dev, want, hung>> /\ due' = <<>>
      /\ drv' = [at |-> "address", op |-> op, t |-> u, a |-> a, v |-> v,
                 goes |-> IF bus = Nobody THEN u ELSE bus]
  BY DEF Begin, Enable
<1>3. /\ dw'.en /\ dw'.status = "address" /\ dw'.fifo = <<>>
      /\ dw'.tl = dw.tl /\ dw'.full = dw.full /\ ~dw'.abrt
      /\ ControllerOf(dw')
  BY <1>1, <1>2 DEF ControllerOf
<1>4. FifoIsDue' BY <1>1, <1>2, <1>3, SmallSequences DEF FifoIsDue, ControllerOf
<1>5. Targets' BY <1>1, <1>2 DEF Targets
<1>6. /\ drv'.at = "address" /\ drv'.t = u /\ drv'.op = op
      /\ drv'.goes = (IF bus = Nobody THEN u ELSE bus)
      /\ DOMAIN drv' = {"at", "op", "t", "a", "v", "goes"}
  BY <1>2
<1>7. DrvShape' BY <1>6 DEF DrvShape
<1>8. DriverIsAt' BY <1>2, <1>3, <1>6 DEF DriverIsAt, Transfer, Sending
<1>9. BusHeld' BY <1>1, <1>2, <1>6 DEF BusHeld, Transfer, Sending
<1> QED BY <1>3, <1>4, <1>5, <1>7, <1>8, <1>9 DEF BusInv

LEMMA FinishStep ==
  ASSUME BusInv, Finish
  PROVE  BusInv'
<1>1. /\ drv.at = "end" /\ ControllerOf(dw) /\ Targets /\ FifoIsDue
      /\ dw.fifo = <<>> /\ BusHeld
  BY DEF Finish, BusInv, FifoIsDue
<1>2. /\ dw' = ClrIntr /\ drv' = [at |-> "off"]
      /\ UNCHANGED <<bus, dev, want, due, hung>>
  BY DEF Finish
<1>3. /\ dw'.en = dw.en /\ dw'.status = dw.status /\ dw'.fifo = <<>>
      /\ dw'.tl = dw.tl /\ dw'.full = dw.full /\ ~dw'.abrt
      /\ ControllerOf(dw')
  BY <1>1, <1>2 DEF ControllerOf, ClrIntr
<1>4. FifoIsDue' BY <1>1, <1>2, <1>3 DEF FifoIsDue
<1>5. Targets' BY <1>1, <1>2 DEF Targets
<1>6. drv'.at = "off" BY <1>2
<1>7. DrvShape' /\ DriverIsAt' /\ BusHeld'
  BY <1>1, <1>2, <1>3, <1>6
  DEF DrvShape, DriverIsAt, BusHeld, Transfer, Sending
<1> QED BY <1>3, <1>4, <1>5, <1>7 DEF BusInv

LEMMA DisableStep ==
  ASSUME BusInv, Disable
  PROVE  BusInv'
<1>1. /\ drv.at = "off" /\ ControllerOf(dw) /\ Targets /\ ~dw.abrt /\ BusHeld
  BY DEF Disable, BusInv, DriverIsAt
<1>2. /\ dw' = [ResetToIdle(dw) EXCEPT !.en = FALSE]
      /\ drv' = [at |-> "idle"] /\ UNCHANGED <<bus, dev, want, due, hung>>
  BY DEF Disable, Enable
<1>3. /\ dw'.en = FALSE /\ dw'.status = "idle" /\ dw'.fifo = <<>>
      /\ dw'.tl = dw.tl /\ dw'.full = FALSE /\ ~dw'.abrt
      /\ ControllerOf(dw')
  BY <1>1, <1>2 DEF ControllerOf, ResetToIdle, ShortFifo
<1>4. FifoIsDue' BY <1>3 DEF FifoIsDue
<1>5. Targets' BY <1>1, <1>2 DEF Targets
<1>6. drv'.at = "idle" BY <1>2
<1>7. DrvShape' /\ DriverIsAt' /\ BusHeld'
  BY <1>1, <1>2, <1>3, <1>6
  DEF DrvShape, DriverIsAt, BusHeld, Transfer, Sending
<1> QED BY <1>3, <1>4, <1>5, <1>7 DEF BusInv

LEMMA GiveUpStep ==
  ASSUME BusInv, GiveUp
  PROVE  BusInv'
<1>1. /\ ControllerOf(dw) /\ Targets /\ BusHeld
  BY DEF BusInv
<1>2. /\ dw' = [ResetToIdle(dw) EXCEPT !.abrt = TRUE] /\ due' = <<>>
      /\ drv' = [at |-> "end"] /\ UNCHANGED <<bus, dev, want>>
      /\ hung' = (hung \/ drv.at \in Sending)
  BY DEF GiveUp, Abort, BrokenOff
<1>3. /\ dw'.status = "idle" /\ dw'.fifo = <<>>
      /\ dw'.tl = dw.tl /\ dw'.full = FALSE /\ dw'.abrt
      /\ ControllerOf(dw')
  BY <1>1, <1>2 DEF ControllerOf, ResetToIdle, ShortFifo
<1>4. FifoIsDue' BY <1>3, SmallSequences DEF FifoIsDue, ControllerOf
<1>5. Targets' BY <1>1, <1>2 DEF Targets
<1>6. drv'.at = "end" BY <1>2
<1>7. DrvShape' /\ DriverIsAt' /\ BusHeld'
  BY <1>1, <1>2, <1>3, <1>6
  DEF DrvShape, DriverIsAt, BusHeld, Transfer, Sending
<1> QED BY <1>3, <1>4, <1>5, <1>7 DEF BusInv

LEMMA ThresholdStep ==
  ASSUME BusInv, NEW n \in RxTls, SetThreshold(n)
  PROVE  BusInv'
<1> DEFINE tl == IF n > FifoSize - 1 THEN FifoSize - 1 ELSE n
<1>1. /\ drv.at \in {"idle", "end"} /\ ControllerOf(dw) /\ Targets
      /\ DrvShape /\ FifoIsDue /\ DriverIsAt /\ BusHeld
  BY DEF SetThreshold, BusInv
<1>2. /\ dw' = [dw EXCEPT !.tl = tl, !.full = dw.en /\ Len(dw.fifo) > tl]
      /\ UNCHANGED <<bus, dev, want, due, drv, hung>>
  BY DEF SetThreshold, WriteRxTl
<1>3. tl \in Nat BY BusAssumption
<1> HIDE DEF tl
<1>4. /\ dw'.en = dw.en /\ dw'.status = dw.status /\ dw'.fifo = dw.fifo
      /\ dw'.tl = tl /\ dw'.abrt = dw.abrt
      /\ dw'.full = (dw.en /\ Len(dw.fifo) > tl)
      /\ ControllerOf(dw')
  BY <1>1, <1>2, <1>3 DEF ControllerOf
<1>5. FifoIsDue' BY <1>1, <1>2, <1>4 DEF FifoIsDue
<1>6. Targets' BY <1>1, <1>2 DEF Targets
<1>7. DrvShape' /\ DriverIsAt' /\ BusHeld'
  BY <1>1, <1>2, <1>4 DEF DrvShape, DriverIsAt, BusHeld, Transfer, Sending
<1> QED BY <1>4, <1>5, <1>6, <1>7 DEF BusInv

(* The host writes a target's contents, and the history with them.         *)
LEMMA HostStep ==
  ASSUME BusInv, NEW u \in DOMAIN dev, NEW m, OnMem(u, m)
  PROVE  BusInv'
<1>1. Targets /\ DriverIsAt BY DEF BusInv
<1>2. /\ dev' = [dev EXCEPT ![u].mem = m] /\ want' = [want EXCEPT ![u] = m]
      /\ UNCHANGED <<dw, bus, drv, due, hung>>
  BY DEF OnMem
<1>3. /\ DOMAIN dev' = DOMAIN dev /\ Whole(dev')
      /\ \A t \in DOMAIN dev : /\ dev'[t].ptr = dev[t].ptr
                               /\ dev'[t].got = dev[t].got
                               /\ dev'[t].mem = IF t = u THEN m ELSE dev[t].mem
  BY <1>1, <1>2 DEF Targets, Whole
<1>4. Targets' BY <1>1, <1>2, <1>3 DEF Targets
<1>5. ControllerOf(dw') /\ DrvShape' /\ FifoIsDue' /\ BusHeld'
  BY <1>2 DEF BusInv, DrvShape, FifoIsDue, BusHeld
<1>6. DriverIsAt' BY <1>1, <1>2, <1>3 DEF DriverIsAt, Sending
<1> QED BY <1>4, <1>5, <1>6 DEF BusInv

LEMMA BusResetStep ==
  ASSUME BusInv, I2cReset
  PROVE  BusInv'
<1>1. Targets /\ BusHeld BY DEF BusInv
<1>2. /\ dw' = DwAtReset /\ bus' = bus /\ drv' = [at |-> "idle"]
      /\ dev' = [u \in DOMAIN dev |-> DevAtReset(u, dev[u].mem.sample)]
      /\ want' = [u \in DOMAIN dev |-> Contents(u, dev[u].mem.sample)]
      /\ hung' = (hung \/ drv.at \in Sending)
  BY DEF I2cReset, BrokenOff
<1>3. /\ ControllerOf(dw)' /\ FifoIsDue'
      /\ dw'.status = "idle" /\ dw'.fifo = <<>> /\ ~dw'.abrt
  BY <1>2 DEF DwAtReset, ControllerOf, ShortFifo, FifoIsDue
<1>4. Targets'
  <2>1. ASSUME NEW u \in DOMAIN dev
        PROVE  DOMAIN dev'[u] = {"ptr", "got", "mem"} /\ dev'[u].mem = want'[u]
    <3> DEFINE c == Contents(u, dev[u].mem.sample)
    <3>1. want'[u] = c /\ dev'[u] = DevAtReset(u, dev[u].mem.sample)
      BY <1>2
    <3>2. dev'[u] = [ptr |-> 0, got |-> FALSE, mem |-> c]
      BY <3>1 DEF DevAtReset
    <3> HIDE DEF c
    <3> QED BY <3>1, <3>2
  <2>2. DOMAIN dev' = DOMAIN dev /\ DOMAIN want' = DOMAIN dev BY <1>2
  <2> QED BY <1>1, <1>2, <2>1, <2>2 DEF Targets, Whole
<1>5. drv'.at = "idle" BY <1>2
<1>6. DrvShape' /\ DriverIsAt' /\ BusHeld'
  BY <1>1, <1>2, <1>3, <1>5
  DEF DrvShape, DriverIsAt, BusHeld, Transfer, Sending
<1> QED BY <1>3, <1>4, <1>6 DEF BusInv

LEMMA BusInitial == I2cInit => BusInv
<1> SUFFICES ASSUME I2cInit PROVE BusInv
  OBVIOUS
<1>1. PICK T \in Buses : dev = [u \in T |-> DevAtReset(u, 0)]
  BY DEF I2cInit
<1>2. Absent \notin T /\ Nobody \notin T
  BY BusAssumption
<1>3. /\ dw = DwAtReset /\ bus = Nobody /\ drv = [at |-> "idle"]
      /\ want = [u \in DOMAIN dev |-> Contents(u, 0)] /\ hung = FALSE
  BY DEF I2cInit
<1>4. Targets
  <2>1. ASSUME NEW u \in T
        PROVE  DOMAIN dev[u] = {"ptr", "got", "mem"} /\ dev[u].mem = want[u]
    <3> DEFINE c == Contents(u, 0)
    <3>1. want[u] = c /\ dev[u] = DevAtReset(u, 0) BY <1>1, <1>3
    <3>2. dev[u] = [ptr |-> 0, got |-> FALSE, mem |-> c]
      BY <3>1 DEF DevAtReset
    <3> HIDE DEF c
    <3> QED BY <3>1, <3>2
  <2>2. DOMAIN dev = T /\ DOMAIN want = T BY <1>1, <1>3
  <2> QED BY <1>2, <1>3, <2>1, <2>2 DEF Targets, Whole
<1>5. /\ ControllerOf(dw) /\ FifoIsDue
      /\ dw.status = "idle" /\ dw.fifo = <<>> /\ ~dw.abrt
  BY <1>3 DEF DwAtReset, ControllerOf, ShortFifo, FifoIsDue
<1>6. DrvShape /\ DriverIsAt /\ BusHeld
  BY <1>3, <1>5 DEF DrvShape, DriverIsAt, BusHeld, Transfer, Sending
<1> QED BY <1>4, <1>5, <1>6 DEF BusInv

LEMMA BusStep == BusInv /\ (I2cNext \/ I2cReset) => BusInv'
<1> SUFFICES ASSUME BusInv, I2cNext \/ I2cReset PROVE BusInv'
  OBVIOUS
<1>2. CASE I2cReset BY <1>2, BusResetStep
<1>3. CASE DriverNext
  <2>1. CASE \E u \in DOMAIN dev \cup {Absent} :
               \/ \E w \in FwWrites : Begin("write", u, w[1], w[2])
               \/ \E a \in FwReads : Begin("read", u, a, 0)
    BY <2>1, BeginStep
  <2>2. CASE \E n \in RxTls : SetThreshold(n) BY <2>2, ThresholdStep
  <2>3. CASE SendAddress BY <2>3, AddressStep
  <2>4. CASE SendValue BY <2>4, WriteStep
  <2>5. CASE SendRead BY <2>5, ReadStep
  <2>6. CASE DrainRx BY <2>6, DrainRxStep
  <2>7. CASE Finish BY <2>7, FinishStep
  <2>8. CASE Disable BY <2>8, DisableStep
  <2>9. CASE GiveUp BY <2>9, GiveUpStep
  <2> QED
    BY <1>3, <2>1, <2>2, <2>3, <2>4, <2>5, <2>6, <2>7, <2>8, <2>9
       DEF DriverNext
<1>4. CASE "imu" \in DOMAIN dev /\ (Tap \/ \E on \in BOOLEAN : SetDrdy(on))
  <2>1. \E m : OnMem("imu", m) BY <1>4 DEF Tap, SetDrdy, Latch
  <2> QED BY <1>4, <2>1, HostStep
<1>5. CASE \E u \in {"imu", "magn"} \cap DOMAIN dev, v \in {0, 1} : Inject(u, v)
  <2>1. \E u \in DOMAIN dev : \E m : OnMem(u, m) BY <1>5 DEF Inject
  <2> QED BY <2>1, HostStep
<1> QED BY <1>2, <1>3, <1>4, <1>5 DEF I2cNext

LEMMA BusInvariant == Spec => []BusInv
<1>1. Init => BusInv BY BusInitial DEF Init
<1>2. BusInv /\ UNCHANGED <<dw, bus, dev, drv, want, due, hung>> => BusInv'
  BY DEF BusInv, Targets, DrvShape, FifoIsDue, DriverIsAt, BusHeld
<1>3. [Next]_boardVars =>
        I2cNext \/ I2cReset \/ UNCHANGED <<dw, bus, dev, drv, want, due, hung>>
  BY DEF Next, boardVars, i2cVars, PowerMoves, BusMoves, MediaMove, OthersMove,
     HostAsks, MachineReset, BusStays
<1>4. BusInv /\ [Next]_boardVars => BusInv' BY <1>2, <1>3, BusStep
<1> QED BY <1>1, <1>4, PTL DEF Spec

(* On a bus of any targets, with a FIFO of any depth from two on and any   *)
(* contents of the registers, every transfer is what the driver meant, and *)
(* with the target it meant unless no STOP has come since a transfer that  *)
(* was given up or reset in its middle                                     *)
(* (designware_i2c.c:dw_ic_data_cmd_reg_post_write, dw_ic_tx_abort).       *)
THEOREM TransfersStayIntact == Spec => []TransfersIntact
<1>1. BusInv => TransfersIntact
  BY DEF BusInv, Targets, FifoIsDue, BusHeld, Transfer, TransfersIntact
<1> QED BY <1>1, BusInvariant, PTL

-----------------------------------------------------------------------------
(* The board's drivers together.                                           *)
THEOREM NoDriverWaitsInVain == Spec => []DriversAreAnswered
<1>1. /\ RequestIsAnswered /\ ConversionComes /\ FrameComes /\ CommitComes
      /\ SpeakerServed
      => DriversAreAnswered
  BY DEF DriversAreAnswered
<1> QED BY <1>1, EnclaveAnswers, BatteryAnswers, CameraDelivers,
        CommitsCarriedOut, SpeakerKeptFed, PTL

-----------------------------------------------------------------------------
(* The types that no invariant above has.                                  *)
ClockBounded == nanos \in 0..MaxNanos

LEMMA ClockInvariant == Spec => []ClockBounded
<1>1. Init => ClockBounded
  BY RtcAssumption DEF Init, RtcInit, ClockBounded
<1>2. ClockBounded /\ (RtcNext \/ RtcReset) => ClockBounded'
  <2> SUFFICES ASSUME ClockBounded, RtcNext \/ RtcReset PROVE ClockBounded'
    OBVIOUS
  <2>1. nanos' \in {0, nanos} \/ \E d \in Waits : Pass(d)
    BY DEF RtcNext, RtcReset, WriteCmr, WriteClr, WriteCcr, ReadEoi, Match,
       Programmed
  <2>2. CASE \E d \in Waits : Pass(d)
    <3>1. PICK d \in Waits : Pass(d) BY <2>2
    <3> QED BY <3>1, RtcAssumption DEF Pass, ClockBounded
  <2>3. CASE nanos' \in {0, nanos} BY <2>3, RtcAssumption DEF ClockBounded
  <2> QED BY <2>1, <2>2, <2>3
<1>3. ClockBounded /\ UNCHANGED rtcVars => ClockBounded'
  BY DEF rtcVars, ClockBounded
<1>4. [Next]_boardVars => RtcNext \/ RtcReset \/ UNCHANGED rtcVars
  BY DEF Next, boardVars, PowerMoves, BusMoves, MediaMove, OthersMove, HostAsks,
     MachineReset, OthersStay
<1>5. ClockBounded /\ [Next]_boardVars => ClockBounded'
  BY <1>2, <1>3, <1>4
<1> QED BY <1>1, <1>5, PTL DEF Spec

(* The controller's status and its threshold.                              *)
DwTypes(c) ==
  /\ DOMAIN c = {"en", "status", "fifo", "tl", "full", "over", "abrt", "stop"}
  /\ c.status \in {"idle", "address", "sending", "receiving"}
  /\ c.tl \in 0..FifoSize - 1

PartTypes(s) == DOMAIN s = {"dw", "bus", "dev"} /\ DwTypes(s.dw)

LEMMA AbortedTypes ==
  /\ \A c : DwTypes(c) => DwTypes(ResetToIdle(c))
  /\ \A s : PartTypes(s) => PartTypes(Aborted(s))
<1>1. ASSUME NEW c, DwTypes(c) PROVE DwTypes(ResetToIdle(c))
  BY <1>1 DEF DwTypes, ResetToIdle
<1>2. ASSUME NEW s, PartTypes(s) PROVE PartTypes(Aborted(s))
  <2> DEFINE r == ResetToIdle(s.dw)
             c == [r EXCEPT !.abrt = TRUE]
  <2>1. DwTypes(r) BY <1>1, <1>2 DEF PartTypes
  <2>2. Aborted(s) = [s EXCEPT !.dw = c] BY DEF Aborted
  <2> HIDE DEF r
  <2>3. DwTypes(c) BY <2>1 DEF DwTypes
  <2> HIDE DEF c
  <2> QED BY <1>2, <2>2, <2>3 DEF PartTypes
<1> QED BY <1>1, <1>2

LEMMA StartedTypes ==
  ASSUME NEW s, PartTypes(s), NEW tar, NEW recv
  PROVE  PartTypes(Started(s, tar, recv)) /\ PartTypes(Addressed(s, tar, recv))
<1> DEFINE t == IF s.bus # Nobody THEN s.bus
                ELSE IF tar \in DOMAIN s.dev THEN tar ELSE Nobody
           st == IF recv THEN "receiving" ELSE "sending"
           c == [s.dw EXCEPT !.status = st]
           d == [s.dev EXCEPT ![t].got = recv /\ @]
<1>1. Started(s, tar, recv) =
        IF t = Nobody THEN Aborted(s) ELSE [dw |-> c, bus |-> t, dev |-> d]
  BY DEF Started
<1>2. DwTypes(c)
  <2> HIDE DEF st
  <2>1. st \in {"sending", "receiving"} BY DEF st
  <2> QED BY <2>1 DEF DwTypes, PartTypes
<1> HIDE DEF t, c, d
<1>3. PartTypes(Started(s, tar, recv))
  BY <1>1, <1>2, AbortedTypes DEF PartTypes
<1> QED BY <1>3 DEF Addressed

LEMMA MovedTypes ==
  ASSUME NEW s, PartTypes(s), NEW cmd
  PROVE  PartTypes(Moved(s, cmd)) /\ PartTypes(Stopped(s, cmd))
<1>1. DOMAIN s = {"dw", "bus", "dev"} /\ DwTypes(s.dw) BY DEF PartTypes
<1>2. ASSUME NEW x PROVE PartTypes([s EXCEPT !.dev = x])
  BY <1>1 DEF PartTypes
<1>3. PartTypes(Sent(s, cmd.byte))
  <2> DEFINE x == [s.dev EXCEPT ![s.bus] = Taken(s.bus, @, cmd.byte)]
  <2>1. Sent(s, cmd.byte) = IF s.bus = Nobody THEN Aborted(s)
                            ELSE [s EXCEPT !.dev = x]
    BY <1>1 DEF Sent
  <2> HIDE DEF x
  <2> QED BY <1>2, <2>1, AbortedTypes
<1>4. PartTypes(Received(s))
  <2> DEFINE d == s.dev[s.bus]
             f == Append(s.dw.fifo, Read(s.bus, d.mem, d.ptr))
             over == [s.dw EXCEPT !.over = TRUE]
             full == s.dw.full \/ Len(f) > s.dw.tl
             c == [s.dw EXCEPT !.fifo = f, !.full = full]
             x == [s.dev EXCEPT ![s.bus].ptr = Next1(@)]
  <2>1. Received(s) = IF Len(s.dw.fifo) = FifoSize THEN [s EXCEPT !.dw = over]
                      ELSE [s EXCEPT !.dw = c, !.dev = x]
    BY <1>1 DEF Received, DwTypes
  <2>2. DwTypes(over) BY <1>1 DEF DwTypes
  <2>3. DwTypes(c)
    <3> HIDE DEF f, full
    <3> QED BY <1>1 DEF DwTypes
  <2> HIDE DEF x, c, over
  <2> QED BY <1>1, <2>1, <2>2, <2>3 DEF PartTypes
<1>5. PartTypes(Stopped(s, cmd))
  <2> DEFINE c == [s.dw EXCEPT !.stop = TRUE]
  <2>1. DwTypes(c) BY <1>1 DEF DwTypes
  <2>2. Stopped(s, cmd) = IF s.dw.abrt \/ ~cmd.stop THEN s
                          ELSE [s EXCEPT !.dw = c, !.bus = Nobody]
    BY <1>1 DEF Stopped, DwTypes
  <2> HIDE DEF c
  <2> QED BY <1>1, <2>1, <2>2 DEF PartTypes
<1> QED BY <1>3, <1>4, <1>5 DEF Moved

LEMMA DataCmdTypes ==
  ASSUME DwTypes(dw), NEW tar, NEW cmd, DataCmd(tar, cmd)
  PROVE  DwTypes(dw')
<1> DEFINE s == [dw |-> dw, bus |-> bus, dev |-> dev]
           a == IF cmd.restart THEN Started(s, tar, cmd.recv) ELSE s
           z == IF ~dw.en \/ dw.status = "idle" \/ dw.abrt THEN s
                ELSE Command(s, tar, cmd)
<1>1. dw' = z.dw BY DEF DataCmd, Apply
<1>2. PartTypes(s) BY DEF PartTypes
<1> HIDE DEF s
<1>3. PartTypes(a) BY <1>2, StartedTypes
<1>4. Command(s, tar, cmd) =
        Stopped(Moved(Addressed(a, tar, cmd.recv), cmd), cmd)
  BY DEF Command
<1> HIDE DEF a
<1>5. PartTypes(Command(s, tar, cmd))
  BY <1>3, <1>4, StartedTypes, MovedTypes
<1>6. PartTypes(z) BY <1>2, <1>5
<1> HIDE DEF z
<1> QED BY <1>1, <1>6 DEF PartTypes

LEMMA DwStep == DwTypes(dw) /\ (I2cNext \/ I2cReset) => DwTypes(dw')
<1> SUFFICES ASSUME DwTypes(dw), I2cNext \/ I2cReset PROVE DwTypes(dw')
  OBVIOUS
<1>1. /\ DOMAIN dw = {"en", "status", "fifo", "tl", "full", "over", "abrt",
                      "stop"}
      /\ dw.status \in {"idle", "address", "sending", "receiving"}
      /\ dw.tl \in 0..FifoSize - 1 /\ FifoSize \in Nat /\ FifoSize >= 2
  BY BusAssumption DEF DwTypes
<1>2. CASE I2cReset
  <2>1. 0 \in 0..FifoSize - 1 BY <1>1
  <2> QED BY <1>2, <2>1 DEF I2cReset, DwAtReset, DwTypes
<1>3. ASSUME NEW on \in BOOLEAN, Enable(on) PROVE DwTypes(dw')
  BY <1>1, <1>3, AbortedTypes DEF Enable, DwTypes
<1>4. ASSUME Abort PROVE DwTypes(dw')
  <2>1. DwTypes(ResetToIdle(dw)) BY AbortedTypes
  <2> DEFINE r == ResetToIdle(dw)
  <2>2. dw' = [r EXCEPT !.abrt = TRUE] BY <1>4 DEF Abort
  <2>3. DwTypes(r) BY <2>1
  <2> HIDE DEF r
  <2> QED BY <2>2, <2>3 DEF DwTypes
<1>5. ASSUME NEW n \in RxTls, WriteRxTl(n) PROVE DwTypes(dw')
  <2> DEFINE tl == IF n > FifoSize - 1 THEN FifoSize - 1 ELSE n
             full == dw.en /\ Len(dw.fifo) > tl
  <2>1. n \in Nat BY BusAssumption
  <2>2. tl \in 0..FifoSize - 1 BY <1>1, <2>1
  <2>3. dw' = [dw EXCEPT !.tl = tl, !.full = full] BY <1>5 DEF WriteRxTl
  <2> HIDE DEF tl, full
  <2> QED BY <1>1, <2>2, <2>3 DEF DwTypes
<1>6. CASE DriverNext
  <2>1. CASE \E u \in DOMAIN dev \cup {Absent} :
               \/ \E w \in FwWrites : Begin("write", u, w[1], w[2])
               \/ \E a \in FwReads : Begin("read", u, a, 0)
    <3>1. Enable(TRUE) BY <2>1 DEF Begin
    <3> QED BY <1>3, <3>1
  <2>2. CASE \E n \in RxTls : SetThreshold(n)
    BY <1>5, <2>2 DEF SetThreshold
  <2>3. CASE SendAddress \/ SendValue \/ SendRead
    <3>1. \E tar, cmd : DataCmd(tar, cmd)
      BY <2>3 DEF SendAddress, SendValue, SendRead
    <3> QED BY <3>1, DataCmdTypes
  <2>4. CASE DrainRx
    <3> DEFINE full == dw.full /\ Len(dw.fifo) - 1 > dw.tl
    <3>1. dw' = [dw EXCEPT !.fifo = Tail(@), !.full = full]
      BY <1>1, <2>4 DEF DrainRx
    <3> HIDE DEF full
    <3> QED BY <1>1, <3>1 DEF DwTypes
  <2>5. CASE Finish BY <1>1, <2>5 DEF Finish, ClrIntr, DwTypes
  <2>6. CASE Disable BY <1>3, <2>6 DEF Disable
  <2>7. CASE GiveUp BY <1>4, <2>7 DEF GiveUp
  <2> QED BY <1>6, <2>1, <2>2, <2>3, <2>4, <2>5, <2>6, <2>7 DEF DriverNext
<1>7. CASE "imu" \in DOMAIN dev /\ (Tap \/ \E on \in BOOLEAN : SetDrdy(on))
  <2>1. dw' = dw BY <1>7 DEF Tap, SetDrdy, Latch, OnMem
  <2> QED BY <2>1
<1>8. CASE \E u \in {"imu", "magn"} \cap DOMAIN dev, v \in {0, 1} : Inject(u, v)
  <2>1. dw' = dw BY <1>8 DEF Inject, OnMem
  <2> QED BY <2>1
<1> QED BY <1>2, <1>6, <1>7, <1>8 DEF I2cNext

LEMMA BusTypesInvariant == Spec => []I2cTypeOK
<1>1. Init => DwTypes(dw)
  <2>1. FifoSize \in Nat /\ FifoSize >= 2 BY BusAssumption
  <2>2. 0 \in 0..FifoSize - 1 BY <2>1
  <2> QED BY <2>2 DEF Init, I2cInit, DwAtReset, DwTypes
<1>2. [Next]_boardVars => I2cNext \/ I2cReset \/ dw' = dw
  BY DEF Next, boardVars, i2cVars, PowerMoves, BusMoves, MediaMove, OthersMove,
     HostAsks, MachineReset, BusStays
<1>3. DwTypes(dw) /\ [Next]_boardVars => DwTypes(dw)'
  BY <1>2, DwStep DEF DwTypes
<1>4. BusInv /\ DwTypes(dw) => I2cTypeOK
  <2> SUFFICES ASSUME BusInv, DwTypes(dw) PROVE I2cTypeOK
    OBVIOUS
  <2>1. ControllerOf(dw) /\ Targets BY DEF BusInv
  <2>2. bus \in DOMAIN dev \cup {Nobody} BY <2>1 DEF Targets
  <2>3. ShortFifo(dw.fifo) BY <2>1 DEF ControllerOf
  <2>4. Len(dw.fifo) \in {0, 1, 2}
    <3>1. CASE dw.fifo = <<>> BY <3>1, SmallSequences
    <3>2. CASE \E x : dw.fifo = <<x>> BY <3>2, SmallSequences
    <3>3. CASE \E x, y : dw.fifo = <<x, y>> BY <3>3, SmallSequences
    <3> QED BY <2>3, <3>1, <3>2, <3>3 DEF ShortFifo
  <2>5. Len(dw.fifo) <= FifoSize
    <3> DEFINE n == Len(dw.fifo)
    <3>1. n \in {0, 1, 2} BY <2>4
    <3>2. FifoSize \in Nat /\ FifoSize >= 2 BY BusAssumption
    <3> HIDE DEF n
    <3>3. n <= FifoSize BY <3>1, <3>2
    <3> QED BY <3>3 DEF n
  <2> QED BY <2>2, <2>5 DEF I2cTypeOK, DwTypes
<1> QED BY <1>1, <1>3, <1>4, BusInvariant, PTL DEF Spec

(* The camera's source is one of the files, at a frame that it has.        *)
SourceTypes ==
  /\ DOMAIN source = {"file", "frames", "idx"}
  /\ source.file \in DOMAIN CamFiles \cup {Gradient}
  /\ source.frames \in Nat
  /\ source.frames = 0 \/ source.idx \in 0..source.frames - 1

LEMMA SourceStep == SourceTypes /\ (CamNext \/ CamReset) => SourceTypes'
<1> SUFFICES ASSUME SourceTypes, CamNext \/ CamReset PROVE SourceTypes'
  OBVIOUS
<1>1. SourceTypes' \/ source' # source BY DEF SourceTypes
<1>2. CASE \E file \in DOMAIN CamFiles : LoadSource(file)
  <2>1. PICK file \in DOMAIN CamFiles : LoadSource(file) BY <1>2
  <2>2. source' = IF CamFiles[file] = 0 THEN source
                  ELSE [file |-> file, frames |-> CamFiles[file], idx |-> 0]
    BY <2>1 DEF LoadSource
  <2>3. CamFiles[file] \in Nat BY CamAssumption
  <2> QED BY <1>1, <2>2, <2>3 DEF SourceTypes
<1>3. CASE DropSource
  BY <1>3 DEF DropSource, NoSource, SourceTypes
<1>4. CASE FrameTick
  <2>1. \/ source' = source
        \/ /\ source.frames # 0
           /\ source' = [source EXCEPT !.idx = (@ + 1) % source.frames]
    BY <1>4 DEF FrameTick, Deliver
  <2>2. ASSUME source.frames # 0,
               source' = [source EXCEPT !.idx = (@ + 1) % source.frames]
        PROVE  SourceTypes'
    <3> DEFINE i == (source.idx + 1) % source.frames
    <3>1. source.frames \in Nat \ {0} /\ source.idx \in Nat
      BY <2>2 DEF SourceTypes
    <3>2. i \in 0..source.frames - 1 BY <3>1
    <3>3. source' = [source EXCEPT !.idx = i] BY <2>2 DEF SourceTypes
    <3> HIDE DEF i
    <3> QED BY <3>2, <3>3 DEF SourceTypes
  <2> QED BY <1>1, <2>1, <2>2
<1>5. CASE CamSetFormat \/ CamEnable \/ CamStart \/ CamIsr \/ CamHalt
           \/ CamFlush \/ \E b \in Buffers : CamAddr(b)
  BY <1>1, <1>5 DEF CamSetFormat, CamEnable, CamStart, CamIsr, CamHalt,
     CamFlush, CamAddr, Shoots
<1>6. CASE CamReset BY <1>6 DEF CamReset, SourceTypes
<1> QED BY <1>2, <1>3, <1>4, <1>5, <1>6 DEF CamNext

LEMMA SourceInvariant == Spec => []SourceTypes
<1>1. Init => SourceTypes BY DEF Init, CamInit, NoSource, SourceTypes
<1>2. SourceTypes /\ UNCHANGED camVars => SourceTypes'
  BY DEF camVars, SourceTypes
<1>3. SourceTypes /\ [Next]_boardVars => SourceTypes'
  BY <1>2, SourceStep DEF Next, boardVars, PowerMoves, BusMoves, MediaMove,
     OthersMove, HostAsks, MachineReset, MediaStay
<1> QED BY <1>1, <1>3, PTL DEF Spec

DrawBounded == DOMAIN draw = {"at", "back", "frame", "y"}
               /\ draw.frame \in 0..MaxDrawn

LEMMA DrawStep == DrawBounded /\ (DispNext \/ DispReset) => DrawBounded'
<1> SUFFICES ASSUME DrawBounded, DispNext \/ DispReset PROVE DrawBounded'
  OBVIOUS
<1> USE DEF DrawBounded
<1>1. CASE DrawFrame BY <1>1, DispAssumption DEF DrawFrame
<1>2. CASE UNCHANGED draw BY <1>2
<1>3. CASE \E at, y, back : draw' = [draw EXCEPT !.at = at, !.y = y,
                                                 !.back = back]
  BY <1>3
<1>4. CASE DrawLine
  <2>1. draw' = [draw EXCEPT !.y = @ + 1,
                             !.at = IF draw.y = PanelLines THEN "commit"
                                                           ELSE "draw"]
    BY <1>4 DEF DrawLine
  <2> QED BY <2>1
<1>5. CASE SwapFb BY <1>5 DEF SwapFb
<1>6. CASE CdcSetUp \/ CdcUnmask \/ CdcOn \/ CdcOff \/ SwapDone
  BY <1>6 DEF CdcSetUp, CdcUnmask, CdcOn, CdcOff, SwapDone, Draws
<1>7. CASE ScanStart \/ ScanLine \/ ScanEnd \/ LineTick \/ LineIsr
  BY <1>2, <1>7 DEF ScanStart, ScanLine, ScanEnd, LineTick, LineIsr
<1>8. CASE DispReset BY <1>8 DEF DispReset
<1> QED BY <1>1, <1>4, <1>5, <1>6, <1>7, <1>8 DEF DispNext

LEMMA DrawInvariant == Spec => []DrawBounded
<1>1. Init => DrawBounded
  BY DispAssumption DEF Init, DispInit, DrawBounded
<1>2. DrawBounded /\ UNCHANGED dispVars => DrawBounded'
  BY DEF dispVars, DrawBounded
<1>3. DrawBounded /\ [Next]_boardVars => DrawBounded'
  BY <1>2, DrawStep DEF Next, boardVars, PowerMoves, BusMoves, MediaMove,
     OthersMove, HostAsks, MachineReset, MediaStay
<1> QED BY <1>1, <1>3, PTL DEF Spec

AnaTypes ==
  /\ AnaTypeOK /\ DOMAIN pwm = {"duty", "on", "running"}
  /\ DOMAIN adc = {"start", "done", "masked", "ch", "sel"}

LEMMA AnaStep == AnaTypes /\ (AnaNext \/ AnaReset) => AnaTypes'
<1> SUFFICES ASSUME AnaTypes, AnaNext \/ AnaReset PROVE AnaTypes'
  OBVIOUS
<1> USE DEF AnaTypes, AnaTypeOK
<1>1. CASE AdcSetUp BY <1>1 DEF AdcSetUp, WriteAdc
<1>2. CASE AdcStart BY <1>2 DEF AdcStart, WriteControl
<1>3. CASE AdcIsr BY <1>3 DEF AdcIsr, WriteAdc
<1>4. CASE LedSet BY <1>4 DEF LedSet, WritePwm
<1>5. CASE \E raw \in Batteries : SetBattery(raw) BY <1>5 DEF SetBattery
<1>6. CASE AnaReset
  BY <1>6, AnaAssumption DEF AnaReset, AdcAtReset, PwmAtReset
<1> QED BY <1>1, <1>2, <1>3, <1>4, <1>5, <1>6 DEF AnaNext

LEMMA AnaInvariant == Spec => []AnaTypes
<1>1. Init => AnaTypes
  BY AnaAssumption DEF Init, AnaInit, AdcAtReset, PwmAtReset, AnaTypes,
     AnaTypeOK
<1>2. AnaTypes /\ UNCHANGED anaVars => AnaTypes'
  BY DEF anaVars, AnaTypes, AnaTypeOK
<1>3. AnaTypes /\ [Next]_boardVars => AnaTypes'
  BY <1>2, AnaStep DEF Next, boardVars, PowerMoves, BusMoves, MediaMove,
     OthersMove, HostAsks, MachineReset, OthersStay
<1> QED BY <1>1, <1>3, PTL DEF Spec

(* The bridge's loop asks only with a chunk to give.                       *)
AvTypes ==
  /\ AvTypeOK /\ DOMAIN micLoop = {"at", "active", "idx", "buf", "missed"}
  /\ micLoop.idx \in {0, 1} /\ (micLoop.at = "ask" => micLoop.buf > 0)

LEMMA AvStep == AvTypes /\ (AvPhoneNext \/ AvPageNext) => AvTypes'
<1> SUFFICES ASSUME AvTypes, AvPhoneNext \/ AvPageNext PROVE AvTypes'
  OBVIOUS
<1> USE AvAssumption DEF AvTypes, AvTypeOK
<1>1. ASSUME UNCHANGED <<micLoop, looping, clients>>,
             phone' \in [Phones -> {"none", "evict", "loop"}],
             phoneWs' \in Phones \cup {None}, closed' \subseteq Phones
      PROVE  AvTypes'
  BY <1>1
<1>2. CASE \E p \in Phones : Connect(p) \/ Evicted(p) \/ Leave(p)
  <2>1. PICK p \in Phones : Connect(p) \/ Evicted(p) \/ Leave(p) BY <1>2
  <2>2. UNCHANGED <<micLoop, looping, clients>>
    BY <2>1 DEF Connect, Evicted, Leave, soundVars, viewVars
  <2>3. \E at \in {"none", "evict", "loop"} : phone' = [phone EXCEPT ![p] = at]
    BY <2>1 DEF Connect, Evicted, Leave
  <2>4. phoneWs' \in Phones \cup {None} /\ closed' \subseteq Phones
    BY <2>1 DEF Connect, Evicted, Leave
  <2>5. phone' \in [Phones -> {"none", "evict", "loop"}] BY <2>3
  <2> QED BY <1>1, <2>2, <2>4, <2>5
<1>3. ASSUME UNCHANGED <<phoneVars, viewVars>>,
             DOMAIN micLoop' = {"at", "active", "idx", "buf", "missed"},
             micLoop'.at \in {"sleep", "ask", "set", "count", "hush"},
             micLoop'.buf \in 0..BufChunks, micLoop'.idx \in {0, 1},
             micLoop'.at = "ask" => micLoop'.buf > 0,
             looping' \in {None, 0, 1}
      PROVE  AvTypes'
  BY <1>3 DEF phoneVars, viewVars
<1>4. CASE \E p \in Phones : Audio(p)
  <2> DEFINE n == IF micLoop.buf < BufChunks THEN micLoop.buf + 1
                  ELSE micLoop.buf
  <2>1. n \in 0..BufChunks /\ (micLoop.buf > 0 => n > 0) OBVIOUS
  <2>2. /\ micLoop' = [micLoop EXCEPT !.buf = n] /\ looping' = looping
        /\ UNCHANGED <<phoneVars, viewVars>>
    BY <1>4 DEF Audio
  <2> HIDE DEF n
  <2>3. /\ DOMAIN micLoop' = DOMAIN micLoop /\ micLoop'.buf = n
        /\ micLoop'.at = micLoop.at /\ micLoop'.idx = micLoop.idx
    BY <2>2
  <2> QED BY <1>3, <2>1, <2>2, <2>3
<1>5. CASE Quiet BY <1>3, <1>5 DEF Quiet
<1>6. ASSUME UNCHANGED <<phoneVars, viewVars>>, looping' = looping,
             micLoop.buf > 0, micLoop' = Swapping(micLoop)
      PROVE  AvTypes'
  <2>1. /\ DOMAIN micLoop' = DOMAIN micLoop /\ micLoop'.at = "set"
        /\ micLoop'.idx = 1 - micLoop.idx /\ micLoop'.buf = micLoop.buf - 1
    BY <1>6 DEF Swapping
  <2>2. micLoop'.idx \in {0, 1} /\ micLoop'.buf \in 0..BufChunks
    BY <1>6, <2>1
  <2> QED BY <1>3, <1>6, <2>1, <2>2
<1>7. CASE MicWake
  <2>1. UNCHANGED <<phoneVars, viewVars>> /\ looping' = looping
    BY <1>7 DEF MicWake, MicStep
  <2>2. \/ micLoop.buf > 0 /\ micLoop' = [micLoop EXCEPT !.at = "ask"]
        \/ micLoop.buf > 0 /\ micLoop' = Swapping(micLoop)
        \/ micLoop' = [micLoop EXCEPT !.at = "hush"]
    BY <1>7 DEF MicWake, MicStep
  <2> QED BY <1>3, <1>6, <2>1, <2>2
<1>8. CASE MicAsked
  <2>1. UNCHANGED <<phoneVars, viewVars>> /\ looping' = looping
    BY <1>8 DEF MicAsked, MicStep
  <2>2. \/ micLoop.buf > 0 /\ micLoop' = Swapping(micLoop)
        \/ micLoop' = [micLoop EXCEPT !.at = "sleep"]
    BY <1>8 DEF MicAsked, MicStep
  <2> QED BY <1>3, <1>6, <2>1, <2>2
<1>9. CASE MicSet BY <1>3, <1>9 DEF MicSet, MicStep
<1>10. CASE MicCount BY <1>3, <1>10 DEF MicCount, MicStep
<1>11. CASE MicHush BY <1>3, <1>11 DEF MicHush, MicStep
<1>12. CASE AvPageNext
  <2>1. UNCHANGED <<phoneVars, soundVars>>
    BY <1>12 DEF AvPageNext, PanelChanges, Dump, Raise, Sent1, Join, Part,
       SendTo, PageStep
  <2>2. clients' = clients \/ \E v \in Viewers : Join(v) \/ Part(v)
    BY <1>12 DEF AvPageNext, PanelChanges, Dump, Raise, Sent1, SendTo, PageStep
  <2>3. clients' \subseteq Viewers BY <2>2 DEF Join, Part
  <2> QED BY <2>1, <2>3 DEF phoneVars, soundVars
<1> QED BY <1>2, <1>4, <1>5, <1>7, <1>8, <1>9, <1>10, <1>11, <1>12
        DEF AvPhoneNext

LEMMA AvInvariant == Spec => []AvTypes
<1>1. Init => AvTypes
  BY AvAssumption DEF Init, AvInit, AvTypes, AvTypeOK
<1>2. AvTypes /\ UNCHANGED avVars => AvTypes'
  BY DEF avVars, AvTypes, AvTypeOK
<1>3. [Next]_boardVars => AvPhoneNext \/ AvPageNext \/ UNCHANGED avVars
  BY DEF Next, boardVars, PowerMoves, BusMoves, MediaMove, OthersMove, HostAsks,
     MachineReset, OthersStay
<1>4. AvTypes /\ [Next]_boardVars => AvTypes' BY <1>2, <1>3, AvStep
<1> QED BY <1>1, <1>4, PTL DEF Spec

-----------------------------------------------------------------------------
(* The types of the whole board, each part's from its own invariant.       *)
THEOREM BoardTypesOK == Spec => []TypeOK
<1>1. Spec => [](part \in Parts)
  <2>1. Init => part \in Parts BY DEF Init
  <2>2. part \in Parts /\ [Next]_boardVars => (part \in Parts)'
    BY DEF Next, boardVars
  <2> QED BY <2>1, <2>2, PTL DEF Spec
<1>2. PowerInv => PowerTypeOK
  BY DEF PowerInv, PowerTypes, PowerTypeOK, SeTypeOK
<1>3. RtcInv /\ ClockBounded => RtcTypeOK
  BY DEF RtcInv, RtcType, ClockBounded, RtcTypeOK
<1>4. GpioInv => GpioTypeOK BY DEF GpioInv
<1>5. PlayInv => SpkTypeOK
  BY DEF PlayInv, SpkInv, SpkTypes, SinkTypes, SpkTypeOK
<1>6. CaptureInv => MicTypeOK
  <2> SUFFICES ASSUME CaptureInv PROVE MicTypeOK
    OBVIOUS
  <2>1. CaptureTypes /\ DmaInStep /\ FileOnTime BY DEF CaptureInv
  <2>2. PICK k \in 0..Len(pdm.fifo) :
          dma.beats = 2 * k + (IF dma.has THEN 1 ELSE 0)
    BY <2>1 DEF DmaInStep
  <2>3. k \in Nat BY <2>1 DEF CaptureTypes
  <2>4. dma.beats \in Nat BY <2>2, <2>3
  <2>5. Threshold \in Nat /\ FileLen \in Nat \ {0} BY MicAssumption
  <2>6. dma.beats \in 0..2 * Threshold BY <2>1, <2>4, <2>5 DEF DmaInStep
  <2>7. src.file.pos \in 0..FileLen BY <2>1, <2>5 DEF FileOnTime
  <2>8. src.tone \in BOOLEAN BY <2>1 DEF FileOnTime
  <2> QED BY <2>1, <2>6, <2>7, <2>8 DEF CaptureTypes, MicTypeOK
<1>7. CamInv /\ SourceTypes => CamTypeOK
  BY DEF CamInv, CamTypes, SourceTypes, CamTypeOK
<1>8. DispInv /\ DrawBounded => DispTypeOK
  BY DEF DispInv, DispTypes, DrawTypes, DrawBounded, DispTypeOK
<1>9. AnaTypes => AnaTypeOK BY DEF AnaTypes
<1>10. AvTypes => AvTypeOK BY DEF AvTypes
<1>11. Spec => [](PowerTypeOK /\ RtcTypeOK /\ GpioTypeOK /\ SpkTypeOK)
  BY <1>2, <1>3, <1>4, <1>5, PowerInvariant, RtcInvariant, ClockInvariant,
     GpioInvariant, PlayInvariant, PTL
<1>12. Spec => [](MicTypeOK /\ CamTypeOK /\ DispTypeOK /\ AnaTypeOK
                  /\ AvTypeOK)
  BY <1>6, <1>7, <1>8, <1>9, <1>10, CaptureInvariant, CamInvariant,
     SourceInvariant, DispInvariant, DrawInvariant, AnaInvariant, AvInvariant,
     PTL
<1>13. (part \in Parts) /\ (PowerTypeOK /\ RtcTypeOK /\ GpioTypeOK /\ SpkTypeOK)
       /\ (MicTypeOK /\ CamTypeOK /\ DispTypeOK /\ AnaTypeOK /\ AvTypeOK)
       /\ I2cTypeOK => TypeOK
  BY DEF TypeOK
<1> QED BY <1>1, <1>11, <1>12, <1>13, BusTypesInvariant, PTL
=============================================================================
