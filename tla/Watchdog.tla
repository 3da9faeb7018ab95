------------------------------ MODULE Watchdog -----------------------------
(***************************************************************************)
(* What restarts the firmware and what survives it: the watchdog           *)
(* (halo_wdog.c), whose expiry the host injects, the Secure Enclave's      *)
(* resets, the host's own, and the tightly coupled memories, which         *)
(* halo.c zeroes on every reset but the one that follows an expiry.  The   *)
(* firmware (external) is its boot: it asks for a cold reboot when it      *)
(* finds the magic of its NMI handler, arms the watchdog, registers its    *)
(* GATT services with the ROM stub unless a magic says it has, and feeds.  *)
(***************************************************************************)
EXTENDS SecureEnclave

VARIABLES
  wdog,     (* struct HaloWdogState; timer: reset_timer is pending         *)
  nmi,      (* the CPU's NMI is pending                                    *)
  preserve, (* sram_preserve                                               *)
  magics,   (* the __noinit magics in the TCMs: "fired" and "ble_lua"      *)
  fw,       (* where the firmware is                                       *)
  served    (* the ROM stub has the firmware's GATT services               *)

wdVars == <<wdog, nmi, preserve, magics, fw, served>>
powerVars == <<seVars, wdVars>>

WdogBits == {"locked", "inten", "raw", "timer"}
WdogAtReset == [b \in WdogBits |-> b = "locked"]

WdInit ==
  /\ wdog = WdogAtReset
  /\ nmi = FALSE /\ preserve = FALSE
  /\ magics = {} /\ served = FALSE
  /\ fw = "boot"

(* halo_wdog_update_nmi: a raised line pends the NMI.                      *)
NmiLine(w) == nmi' = (nmi \/ (w.raw /\ w.inten))

(* halo_wdog_set_fire, halo_wdog_fire: the host's wdt-fire.                *)
Fire ==
  /\ wdog' = [wdog EXCEPT !.raw = TRUE, !.timer = TRUE]
  /\ NmiLine(wdog')
  /\ UNCHANGED <<seVars, preserve, magics, fw, served>>

(* halo_wdog_reset_expired: WDOG_RESET_DELAY_MS later, which is "long      *)
(* enough for the guest's NMI handler to store its magic".                 *)
Expired ==
  /\ wdog.timer /\ ~nmi
  /\ wdog' = [wdog EXCEPT !.timer = FALSE]
  /\ preserve' = TRUE
  /\ resetReq' = TRUE
  /\ UNCHANGED <<mhu, asked, nmi, magics, fw, served>>

(* halo_wdog_write: a locked watchdog takes nothing but its key.           *)
WdogWrite(reg, on) ==
  /\ wdog' = CASE reg = "LOCK" -> [wdog EXCEPT !.locked = ~on]
               [] reg # "LOCK" /\ wdog.locked -> wdog
               [] reg = "CTRL" /\ ~wdog.locked -> [wdog EXCEPT !.inten = on]
               [] reg = "INTCLR" /\ ~wdog.locked -> [wdog EXCEPT !.raw = FALSE]
  /\ IF reg # "LOCK" /\ ~wdog.locked THEN NmiLine(wdog') ELSE UNCHANGED nmi

-----------------------------------------------------------------------------
(* The firmware.  The NMI comes before its next instruction.               *)
NmiHandler ==
  /\ nmi
  /\ nmi' = FALSE
  /\ magics' = IF wdog.raw /\ wdog.inten THEN magics \cup {"fired"}
                                         ELSE magics
  /\ UNCHANGED <<seVars, wdog, preserve, fw, served>>

At(pc, next) == ~nmi /\ fw = pc /\ fw' = next

BootFlagged ==
  /\ At("boot", "stop") /\ "fired" \in magics
  /\ \E svc \in ResetServices : ChSet(svc)
  /\ UNCHANGED <<asked, wdog, nmi, preserve, magics, served>>

BootClean ==
  /\ At("boot", "unlock") /\ "fired" \notin magics
  /\ UNCHANGED <<seVars, wdog, nmi, preserve, magics, served>>

Unlock ==
  /\ \/ At("unlock", "arm")
     \/ At("up", "feed")
  /\ WdogWrite("LOCK", TRUE)
  /\ UNCHANGED <<seVars, preserve, magics, served>>

Arm ==
  /\ At("arm", "register") /\ WdogWrite("CTRL", TRUE)
  /\ UNCHANGED <<seVars, preserve, magics, served>>

Feed ==
  /\ At("feed", "lock") /\ WdogWrite("INTCLR", TRUE)
  /\ UNCHANGED <<seVars, preserve, magics, served>>

Lock ==
  /\ At("lock", "up") /\ WdogWrite("LOCK", FALSE)
  /\ UNCHANGED <<seVars, preserve, magics, served>>

Register ==
  /\ At("register", "lock")
  /\ served' = (served \/ "ble_lua" \notin magics)
  /\ magics' = magics \cup {"ble_lua"}
  /\ UNCHANGED <<seVars, wdog, nmi, preserve>>

(* The firmware uses the Enclave once it is up; "reboot" is one service.   *)
UseEnclave ==
  /\ ~nmi /\ fw = "up"
  /\ SeNext
  /\ UNCHANGED wdVars

-----------------------------------------------------------------------------
(* QMP system_reset, the control socket's reboot.                          *)
HostReset ==
  /\ resetReq' = TRUE
  /\ UNCHANGED <<mhu, asked, wdVars>>

(* Mutant: the reset leaves a pending expiry pending.                      *)
WdogResetTimerRuns == wdog' = [WdogAtReset EXCEPT !.timer = wdog.timer]

WdogReset == wdog' = WdogAtReset

(* halo_sram_reset.                                                        *)
SramReset ==
  /\ preserve' = FALSE
  /\ magics' = IF preserve THEN magics ELSE {}

(* The machine's reset, of these parts: the devices, the memories and the  *)
(* CPU; the ROM stub starts over with the CPU.                             *)
PowerReset ==
  /\ resetReq
  /\ SeReset /\ WdogReset /\ SramReset
  /\ nmi' = FALSE /\ resetReq' = FALSE /\ asked' = FALSE
  /\ fw' = "boot" /\ served' = FALSE

PowerInit == SeInit /\ WdInit

PowerNext ==
  \/ Fire \/ Expired \/ HostReset
  \/ NmiHandler
  \/ BootFlagged \/ BootClean \/ Unlock \/ Arm \/ Register \/ Feed \/ Lock
  \/ UseEnclave

PowerTypeOK ==
  /\ SeTypeOK
  /\ wdog \in [WdogBits -> BOOLEAN]
  /\ nmi \in BOOLEAN /\ preserve \in BOOLEAN /\ served \in BOOLEAN
  /\ magics \subseteq {"fired", "ble_lua"}
  /\ fw \in {"boot", "stop", "unlock", "arm", "register", "feed", "lock",
             "up"}

(* The firmware that has come up is one the ROM stub can serve: whatever   *)
(* resets meet (an expiry injected twice or before the watchdog is armed,  *)
(* the host's reset or the Enclave's within the 200 ms), it never skips    *)
(* its registration on a magic that has outlived the stub's database.      *)
NeverUnserved == fw \in {"up", "feed"} => served
=============================================================================
