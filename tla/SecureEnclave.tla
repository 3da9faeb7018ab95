--------------------------- MODULE SecureEnclave ---------------------------
(***************************************************************************)
(* The Secure Enclave behind its MHUv2 mailbox pair (halo_se.c).  A write  *)
(* of CH_SET is served before it returns: the sender's channel interrupt   *)
(* says that the message is consumed, the receiver's that the answer is in *)
(* the request.  An identifier the fake does not serve is acknowledged,    *)
(* and the zeroed request reads as success; two of them reset the machine. *)
(***************************************************************************)
EXTENDS Naturals

CONSTANTS
  Services,     (* service identifiers a request may carry                 *)
  ResetServices (* SE_SVC_BOOT_RESET_CPU, SE_SVC_BOOT_RESET_SOC            *)

VARIABLES
  mhu,      (* the registers of struct HaloSEState that hold something     *)
  resetReq, (* qemu_system_reset_request: the main loop will reset         *)
  asked     (* the driver (external): it waits for the answer              *)

seVars == <<mhu, resetReq, asked>>

MhuBits == {"sendIntEn", "chIntEn", "chIntSt", "recvIntEn", "chSt",
            "sendIrq", "recvIrq"}

SeReset == mhu' = [b \in MhuBits |-> FALSE]

SeInit ==
  /\ mhu = [b \in MhuBits |-> FALSE]
  /\ resetReq = FALSE
  /\ asked = FALSE

(* halo_se_update_irqs.                                                    *)
Lines(m) == [m EXCEPT !.sendIrq = m.sendIntEn /\ m.chIntSt,
                      !.recvIrq = m.recvIntEn /\ m.chSt]

(* Service, and its answer: the request is asked of a mailbox that has     *)
(* answered the one before, or not.                                        *)
ChSet(svc) ==
  /\ resetReq' = (resetReq \/ svc \in ResetServices)
  /\ mhu' = Lines([mhu EXCEPT !.chIntSt = @ \/ mhu.chIntEn, !.chSt = TRUE])

(* Mutant: an interrupt enabled after the answer has come is not raised.   *)
SeWriteQuiet(reg, on) ==
  mhu' = CASE reg = "SEND_INT_EN" -> [mhu EXCEPT !.sendIntEn = on]
           [] reg = "RECV_INT_EN" -> [mhu EXCEPT !.recvIntEn = on]
           [] reg = "CH_INT_EN"   -> [mhu EXCEPT !.chIntEn = on]
           [] reg = "CH_INT_CLR"  -> Lines([mhu EXCEPT !.chIntSt = @ /\ ~on])
           [] reg = "CH_CLR"      -> Lines([mhu EXCEPT !.chSt = @ /\ ~on])

SeWrite(reg, on) ==
  mhu' = CASE reg = "SEND_INT_EN" -> Lines([mhu EXCEPT !.sendIntEn = on])
           [] reg = "RECV_INT_EN" -> Lines([mhu EXCEPT !.recvIntEn = on])
           [] reg = "CH_INT_EN"   -> [mhu EXCEPT !.chIntEn = on]
           [] reg = "CH_INT_CLR"  -> Lines([mhu EXCEPT !.chIntSt = @ /\ ~on])
           [] reg = "CH_CLR"      -> Lines([mhu EXCEPT !.chSt = @ /\ ~on])

-----------------------------------------------------------------------------
(* The driver (external) sets its interrupts up at any time, and makes one *)
(* request at a time; the receiver's interrupt is the end of it.           *)
SeSetUp == \E reg \in {"SEND_INT_EN", "RECV_INT_EN", "CH_INT_EN"} :
  SeWrite(reg, TRUE) /\ UNCHANGED <<resetReq, asked>>

SeAsk(svc) == ~asked /\ asked' = TRUE /\ ChSet(svc)

SeSent == mhu.sendIrq /\ SeWrite("CH_INT_CLR", TRUE)
          /\ UNCHANGED <<resetReq, asked>>

SeAnswered == mhu.recvIrq /\ SeWrite("CH_CLR", TRUE) /\ asked' = FALSE
              /\ UNCHANGED resetReq

SeNext ==
  \/ SeSetUp
  \/ \E svc \in Services : SeAsk(svc)
  \/ SeSent
  \/ SeAnswered

SeTypeOK ==
  /\ mhu \in [MhuBits -> BOOLEAN]
  /\ resetReq \in BOOLEAN /\ asked \in BOOLEAN

(* No request is left unanswered: while the driver waits the answer is in  *)
(* the channel, and the line is up from the moment its interrupt is        *)
(* enabled, whichever came first.                                          *)
RequestIsAnswered == asked => mhu.chSt /\ (mhu.recvIntEn => mhu.recvIrq)
=============================================================================
