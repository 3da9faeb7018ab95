------------------------------- MODULE Camera -------------------------------
(***************************************************************************)
(* The camera controller (halo_lpcam.c): one frame for each START, written *)
(* to the driver's buffer by the controller itself and handed over with    *)
(* VSYNC | STOP.  The frames come from a file that the host replaces at    *)
(* any time, or from a built-in picture; the driver (external) puts a      *)
(* buffer in place, starts, and takes it at STOP, or stops and resets the  *)
(* controller.  Pixels and their layout are left out: a frame is its file  *)
(* and its number.                                                         *)
(***************************************************************************)
EXTENDS Naturals

CONSTANTS
  Buffers,   (* the driver's frame buffers                                 *)
  CamFiles   (* the files the host may name, with their number of frames;  *)
             (* 0: not a camera frame file, or one that cannot be read     *)

ASSUME CamAssumption == \A file \in DOMAIN CamFiles : CamFiles[file] \in Nat

VARIABLES
  cam,     (* CTRL.START, busy, frame_timer, INTR, INTR_ENA, format, FADDR *)
  source,  (* the loaded file, its frames, frame_idx                       *)
  frameAt, (* what each buffer holds                                       *)
  shoot    (* the driver: where it is, its buffer                          *)

camVars == <<cam, source, frameAt, shoot>>

Stale == {}            (* nothing was written since the driver gave it     *)
Gradient == "gradient" (* the built-in picture                             *)
NoSource == [file |-> Gradient, frames |-> 0, idx |-> 0]

CamAtReset == [start |-> FALSE, busy |-> FALSE, timer |-> FALSE,
               intr |-> FALSE, ena |-> FALSE, format |-> FALSE,
               addr |-> {}]

CamInit ==
  /\ cam = CamAtReset
  /\ source = NoSource
  /\ frameAt = [b \in Buffers |-> Stale]
  /\ shoot = [at |-> "off", buf |-> {}]

CamIrq == cam.intr /\ cam.ena

(* halo_lpcam_load_source: a file is validated before it replaces another. *)
LoadSource(file) ==
  /\ source' = IF CamFiles[file] = 0 THEN source
               ELSE [file |-> file, frames |-> CamFiles[file], idx |-> 0]
  /\ UNCHANGED <<cam, frameAt, shoot>>

DropSource == source' = NoSource /\ UNCHANGED <<cam, frameAt, shoot>>

(* halo_lpcam_deliver: nothing without a format and a buffer.              *)
Deliver ==
  IF ~cam.format \/ cam.addr = {} THEN UNCHANGED <<frameAt, source>>
  ELSE /\ frameAt' = [b \in Buffers |-> IF b \in cam.addr
                        THEN {<<source.file, source.idx>>} ELSE frameAt[b]]
       /\ source' = IF source.frames = 0 THEN source
                    ELSE [source EXCEPT !.idx = (@ + 1) % source.frames]

(* halo_lpcam_frame_tick.                                                  *)
FrameTick ==
  /\ cam.timer
  /\ IF ~cam.busy THEN cam' = [cam EXCEPT !.timer = FALSE]
                       /\ UNCHANGED <<frameAt, source>>
     ELSE /\ Deliver
          /\ cam' = [cam EXCEPT !.timer = FALSE, !.busy = FALSE,
                                !.start = FALSE, !.intr = TRUE]
  /\ UNCHANGED shoot

(* halo_lpcam_stop.                                                        *)
CamStopped(c) == [c EXCEPT !.timer = FALSE, !.busy = FALSE]

(* Mutant: SW_RESET leaves a completed frame's status.                     *)
SwResetKeepsIntr == cam' = [CamStopped(cam) EXCEPT !.start = FALSE]

SwReset == cam' = [CamStopped(cam) EXCEPT !.start = FALSE, !.intr = FALSE]

(* CAM_CTRL, without SW_RESET.                                             *)
WriteCtrl(start) ==
  LET c == [cam EXCEPT !.start = start] IN
  cam' = IF ~start THEN CamStopped(c)
         ELSE IF c.busy THEN c
         ELSE [c EXCEPT !.busy = TRUE, !.timer = TRUE]

WriteIntr == cam' = [cam EXCEPT !.intr = FALSE]
WriteEna(on) == cam' = [cam EXCEPT !.ena = on]
WriteFormat == cam' = [cam EXCEPT !.format = TRUE]
WriteFrameAddr(b) == cam' = [cam EXCEPT !.addr = {b}]

-----------------------------------------------------------------------------
(* The driver (external).                                                  *)
Shoots(from, to) == shoot.at = from /\ shoot' = [shoot EXCEPT !.at = to]
                    /\ UNCHANGED source

CamSetFormat == Shoots("off", "ready") /\ WriteFormat /\ UNCHANGED frameAt
CamEnable == Shoots("ready", "armed") /\ WriteEna(TRUE) /\ UNCHANGED frameAt

CamAddr(b) ==
  /\ shoot.at = "armed" /\ WriteFrameAddr(b)
  /\ shoot' = [at |-> "loaded", buf |-> {b}]
  /\ frameAt' = [frameAt EXCEPT ![b] = Stale]
  /\ UNCHANGED source

(* cam_stream_start refuses on BUSY.                                       *)
CamStart == ~cam.busy /\ Shoots("loaded", "wait") /\ WriteCtrl(TRUE)
            /\ UNCHANGED frameAt

(* The ISR: it acknowledges, and hands the buffer to the work queue.       *)
CamIsr == CamIrq /\ Shoots("wait", "armed") /\ WriteIntr
          /\ UNCHANGED frameAt

CamHalt == Shoots("wait", "halt") /\ WriteCtrl(FALSE) /\ UNCHANGED frameAt
CamFlush == Shoots("halt", "armed") /\ SwReset /\ UNCHANGED frameAt

CamNext ==
  \/ \E file \in DOMAIN CamFiles : LoadSource(file)
  \/ DropSource
  \/ FrameTick
  \/ CamSetFormat \/ CamEnable \/ CamStart \/ CamIsr \/ CamHalt \/ CamFlush
  \/ \E b \in Buffers : CamAddr(b)

(* halo_lpcam_reset: "the loaded frame source survives".                   *)
CamReset ==
  /\ cam' = CamAtReset
  /\ source' = [source EXCEPT !.idx = 0]
  /\ shoot' = [at |-> "off", buf |-> {}]
  /\ UNCHANGED frameAt

CamTypeOK ==
  /\ shoot.at \in {"off", "ready", "armed", "loaded", "wait", "halt"}
  /\ source.file \in DOMAIN CamFiles \cup {Gradient}
  /\ source.frames = 0 \/ source.idx \in 0..source.frames - 1

(* While the driver waits a frame is on its way, or it is there: the       *)
(* interrupt is up and this buffer has been written, after any stop, reset *)
(* or change of the file; an earlier frame's STOP never hands over a       *)
(* buffer with nothing in it.                                              *)
FrameComes ==
  shoot.at = "wait" =>
    IF cam.intr THEN CamIrq /\ \A b \in shoot.buf : frameAt[b] # Stale
    ELSE cam.busy /\ cam.timer
=============================================================================
