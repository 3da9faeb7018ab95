------------------------------ MODULE MCBoard ------------------------------
(***************************************************************************)
(* Board on small instances of its parts.  The RTC counts modulo 8 and     *)
(* waits by less than a tick or more, the FIFOs are as short as their      *)
(* triggers allow, and the rates are no multiples of one another.  "bad"   *)
(* is a file that is not a camera frame file.  The camera's sensor and     *)
(* the TPS65132 share a bus, as on I2C1; the sensors of I2C0 have one each *)
(* as all that their samples and INT1 can be makes too many states.        *)
(***************************************************************************)
EXTENDS Board

MCInDefault == [p \in Pins |-> FALSE]

MCFwRegs == [button |-> {"inten", "bothedge", "intmask"},
             int1 |-> {"inten"}]

MCBuses == {{"imu"}, {"magn"}, {"cam", "pmic"}}

MCFwWrites == {<<1, 3>>, <<3, 1>>}

MCCamFiles == [a |-> 2, b |-> 3, bad |-> 0]
=============================================================================
