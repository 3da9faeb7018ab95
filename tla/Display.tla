------------------------------ MODULE Display ------------------------------
(***************************************************************************)
(* The display: the CDC200 controller (halo_cdc200.c), and the DSI host    *)
(* (halo_dsi.c), a fake that always says its link is up.  The UI thread    *)
(* scans the framebuffer out line by line under QEMU's lock; the firmware  *)
(* draws without it, into the buffer that is not shown, and swaps the two  *)
(* in the LINE interrupt.  Writes of registers take the lock, and take     *)
(* effect at once.                                                         *)
(***************************************************************************)
EXTENDS Naturals, Sequences

CONSTANTS
  PanelLines,  (* lines of the panel                                       *)
  MaxDrawn     (* bound: frames drawn                                      *)

ASSUME DispAssumption == PanelLines \in Nat \ {0} /\ MaxDrawn \in Nat

Fbs == {0, 1}  (* the two framebuffers                                     *)
Blank == 0     (* what they hold at first, and a panel that is off         *)

VARIABLES
  cdc,    (* CDC_EN, LINE status and mask, layer enable, CFB_ADDR, timer   *)
  fb,     (* the framebuffers: of each line, the frame it belongs to       *)
  scan,   (* the UI: the lines read so far, or idle; what it shows         *)
  draw    (* the driver: where it is, the back buffer, the frame, the line *)

dispVars == <<cdc, fb, scan, draw>>

CdcAtReset == [en |-> FALSE, line |-> FALSE, mask |-> FALSE, layer |-> FALSE,
               cfb |-> 0, timer |-> FALSE]

DispInit ==
  /\ cdc = CdcAtReset
  /\ fb = [b \in Fbs |-> [y \in 1..PanelLines |-> Blank]]
  /\ scan = [busy |-> FALSE, lines |-> <<>>, shown |-> <<>>]
  /\ draw = [at |-> "off", back |-> 1, frame |-> 0, y |-> 0]

LineIrq == cdc.line /\ cdc.mask

(* halo_cdc_gfx_update and halo_cdc_draw_layer, a line at a time.          *)
ScanStart ==
  /\ ~scan.busy
  /\ scan' = IF cdc.en /\ cdc.layer
             THEN [scan EXCEPT !.busy = TRUE, !.lines = <<>>]
             ELSE [scan EXCEPT !.shown = [y \in 1..PanelLines |-> Blank]]
  /\ UNCHANGED <<cdc, fb, draw>>

ScanLine ==
  /\ scan.busy /\ Len(scan.lines) < PanelLines
  /\ scan' = [scan EXCEPT
                !.lines = Append(@, fb[cdc.cfb][Len(scan.lines) + 1])]
  /\ UNCHANGED <<cdc, fb, draw>>

ScanEnd ==
  /\ scan.busy /\ Len(scan.lines) = PanelLines
  /\ scan' = [busy |-> FALSE, lines |-> <<>>, shown |-> scan.lines]
  /\ UNCHANGED <<cdc, fb, draw>>

(* halo_cdc_frame_tick.                                                    *)
LineTick ==
  /\ ~scan.busy /\ cdc.timer
  /\ cdc' = IF cdc.en THEN [cdc EXCEPT !.line = TRUE]
            ELSE [cdc EXCEPT !.timer = FALSE]
  /\ UNCHANGED <<fb, scan, draw>>

(* halo_cdc_write.                                                         *)
CdcWrite(c) == ~scan.busy /\ cdc' = c /\ UNCHANGED scan

WriteGlbCtrl(on) == CdcWrite([cdc EXCEPT !.en = on, !.timer = on])
WriteLayer == CdcWrite([cdc EXCEPT !.layer = TRUE])
WriteIrqMask(on) == CdcWrite([cdc EXCEPT !.mask = on])
WriteIrqClear == CdcWrite([cdc EXCEPT !.line = FALSE])

(* Mutant: the address is not written, only taken note of.                 *)
WriteCfbLost(b) == CdcWrite(cdc)

WriteCfb(b) == CdcWrite([cdc EXCEPT !.cfb = b])

-----------------------------------------------------------------------------
(* The driver (external).                                                  *)
Draws(from, to) == draw.at = from /\ draw' = [draw EXCEPT !.at = to]
                   /\ UNCHANGED fb

CdcSetUp == Draws("off", "layer") /\ WriteLayer
CdcUnmask == Draws("layer", "mask") /\ WriteIrqMask(TRUE)
CdcOn == Draws("mask", "idle") /\ WriteGlbCtrl(TRUE)
CdcOff == Draws("idle", "mask") /\ WriteGlbCtrl(FALSE)

(* A frame is drawn into the back buffer, with no lock.                    *)
DrawFrame ==
  /\ draw.at = "idle" /\ draw.frame < MaxDrawn
  /\ draw' = [draw EXCEPT !.at = "draw", !.frame = @ + 1, !.y = 1]
  /\ UNCHANGED <<cdc, fb, scan>>

DrawLine ==
  /\ draw.at = "draw"
  /\ fb' = [fb EXCEPT ![draw.back][draw.y] = draw.frame]
  /\ draw' = [draw EXCEPT !.y = @ + 1,
                          !.at = IF draw.y = PanelLines THEN "commit"
                                                        ELSE "draw"]
  /\ UNCHANGED <<cdc, scan>>

(* cdc200_swap_fb, in the ISR, that then acknowledges.                     *)
SwapFb ==
  /\ LineIrq /\ draw.at = "commit"
  /\ WriteCfb(draw.back)
  /\ draw' = [draw EXCEPT !.at = "swapped", !.back = 1 - @]
  /\ UNCHANGED fb

SwapDone == Draws("swapped", "idle") /\ WriteIrqClear
LineIsr == LineIrq /\ draw.at \in {"idle", "draw"} /\ WriteIrqClear
           /\ UNCHANGED <<fb, draw>>

DispNext ==
  \/ ScanStart \/ ScanLine \/ ScanEnd \/ LineTick
  \/ CdcSetUp \/ CdcUnmask \/ CdcOn \/ CdcOff
  \/ DrawFrame \/ DrawLine \/ SwapFb \/ SwapDone \/ LineIsr

(* halo_cdc_reset; the firmware clears its buffers.                        *)
DispReset ==
  /\ ~scan.busy
  /\ cdc' = CdcAtReset
  /\ fb' = [b \in Fbs |-> [y \in 1..PanelLines |-> Blank]]
  /\ draw' = [at |-> "off", back |-> 1, frame |-> draw.frame, y |-> 0]
  /\ UNCHANGED scan

DispTypeOK ==
  /\ cdc.cfb \in Fbs /\ draw.back \in Fbs
  /\ draw.at \in {"off", "layer", "mask", "idle", "draw", "commit",
                  "swapped"}
  /\ draw.frame \in 0..MaxDrawn

(* What the screen shows is a frame, whole: the firmware's drawing, which  *)
(* takes no lock, never meets the scanout, wherever in it a swap or a tick *)
(* falls; and a frame that has been committed is the one scanned from then *)
(* on, unless the machine was reset since.                                 *)
ScanIntact ==
  /\ draw.at \in {"idle", "swapped"} =>
       fb[cdc.cfb][1] \in {draw.frame, Blank}
  /\ \A i, j \in DOMAIN scan.shown : scan.shown[i] = scan.shown[j]
  /\ \A i, j \in DOMAIN scan.lines : scan.lines[i] = scan.lines[j]

(* A commit is carried out: while the driver has a frame to show the tick  *)
(* that raises LINE is pending.                                            *)
CommitComes == draw.at = "commit" => cdc.timer /\ cdc.mask
=============================================================================
