---------------------------- MODULE Microphone ----------------------------
(***************************************************************************)
(* The microphone: the LPPDM (halo_pdm.c), whose samples come from a WAV   *)
(* file (the reader of halo_wav.c), a tone or the host, and the DMA that   *)
(* takes them (external: QEMU's PL330).  The DMA reads a FIFO entry, a     *)
(* set, in two 16-bit beats at one address: the first pops it, the second  *)
(* must get the other half of the same.  It looks at the stall line        *)
(* before a burst and never in it.  A sample is its number.                *)
(***************************************************************************)
EXTENDS Naturals, Sequences
MicSeq == INSTANCE SequencesExt

CONSTANTS
  PdmDepth,    (* PDM_FIFO_DEPTH                                           *)
  Threshold,   (* THRESHOLD, and the sets in a burst                       *)
  MicRate,     (* the sample rate of CONFIG's mode                         *)
  TickHz,      (* PDM_TICK_HZ                                              *)
  FileRates,   (* the rates of the files the host injects                  *)
  FileLen,     (* samples in a file, at least one                          *)
  MaxCaptured  (* bound: samples produced                                  *)

ASSUME MicAssumption ==
  /\ PdmDepth \in Nat /\ Threshold \in 1..PdmDepth
  /\ {MicRate, TickHz, FileLen} \cup FileRates \subseteq Nat \ {0}

VARIABLES
  pdm,    (* registers, FIFO, last_set, half_pending, dma_stalled, tick    *)
  src,    (* the source: the file's reader, tone_hz, audio_be              *)
  mic,    (* the driver                                                    *)
  dma,    (* the channel: beats left of the burst, the half it holds       *)
  caught  (* history: samples produced, lost to the FIFO; read from the    *)
          (* file since it was opened; the words assembled                 *)

micVars == <<pdm, src, mic, dma, caught>>

NoSample == 0
NoFile == [rate |-> 0, pos |-> 0, frac |-> 0]
Held(d) == IF d.has THEN {d.lo} ELSE {}
DmaOff == [on |-> FALSE, beats |-> 0, lo |-> NoSample, has |-> FALSE]

PdmAtReset == [chan |-> FALSE, useDma |-> FALSE, thr |-> 0, fifo |-> <<>>,
               last |-> NoSample, half |-> FALSE, over |-> FALSE,
               stalled |-> TRUE, tick |-> FALSE, frac |-> 0]

MicInit ==
  /\ pdm = PdmAtReset
  /\ src = [file |-> NoFile, tone |-> FALSE]
  /\ mic = "off" /\ dma = DmaOff
  /\ caught = [made |-> 0, lost |-> {}, reads |-> 0, words |-> <<>>]

(* halo_pdm_watermark.                                                     *)
WatermarkOf(s) == IF s.thr \in 1..PdmDepth THEN s.thr ELSE PdmDepth \div 2

(* halo_pdm_update: the line holds the DMA off until there is a burst.     *)
Parked(s) ==
  [s EXCEPT !.stalled = ~(s.useDma /\ Len(s.fifo) >= WatermarkOf(s))]

(* halo_wav_reader_read, of n samples: the nearest neighbour, in a loop.   *)
Advanced(f, n) ==
  LET steps == (f.frac + n * f.rate) \div MicRate IN
  [f EXCEPT !.frac = (@ + n * f.rate) % MicRate,
            !.pos = (@ + steps) % FileLen]

(* halo_pdm_push, n times.                                                 *)
Pushed(s, n) ==
  LET room == PdmDepth - Len(s.fifo)
      k == IF n < room THEN n ELSE room
  IN [s EXCEPT !.fifo = @ \o [i \in 1..k |-> caught.made + i],
               !.over = @ \/ n > room]

LostIn(s, n) ==
  {caught.made + i : i \in {j \in 1..n : j > PdmDepth - Len(s.fifo)}}

(* halo_pdm_source, halo_pdm_fill: a file before a tone before the host;  *)
(* only a file remembers where it was.                                     *)
SourceOf == IF src.file # NoFile THEN "wav"
            ELSE IF src.tone THEN "tone" ELSE "host"

(* halo_pdm_tick, of no more samples than its array holds.                 *)
Tick ==
  LET owed == (pdm.frac + MicRate) \div TickHz
      n == IF owed < 4 * PdmDepth THEN owed ELSE 4 * PdmDepth
      fromFile == SourceOf = "wav"
  IN
  /\ pdm.tick /\ caught.made + n <= MaxCaptured
  /\ pdm' = Parked([Pushed(pdm, n) EXCEPT
                      !.frac = (pdm.frac + MicRate) % TickHz])
  /\ src' = IF fromFile THEN [src EXCEPT !.file = Advanced(@, n)] ELSE src
  /\ caught' = [caught EXCEPT !.made = @ + n,
                               !.lost = @ \cup LostIn(pdm, n),
                               !.reads = IF fromFile THEN @ + n ELSE @]
  /\ UNCHANGED <<mic, dma>>

(* halo_pdm_set_running, and the write of CONFIG.                          *)
WriteConfig(run) ==
  /\ pdm' = Parked([pdm EXCEPT !.chan = run, !.tick = run,
                               !.frac = IF run /\ ~pdm.tick THEN 0 ELSE @])
  /\ UNCHANGED caught

(* Mutant: the clear forgets the half that is owed.                        *)
FifoClearKeepsHalf ==
  /\ pdm' = Parked([pdm EXCEPT !.fifo = <<>>])
  /\ caught' = [caught EXCEPT !.lost = @ \cup MicSeq!ToSet(pdm.fifo)]

FifoClear ==
  /\ pdm' = Parked([pdm EXCEPT !.fifo = <<>>, !.half = FALSE])
  /\ caught' = [caught EXCEPT !.lost = @ \cup MicSeq!ToSet(pdm.fifo)]

WriteCtl(on) == pdm' = Parked([pdm EXCEPT !.useDma = on]) /\ UNCHANGED caught
WriteThr(n) == pdm' = Parked([pdm EXCEPT !.thr = n]) /\ UNCHANGED caught

(* ERROR_IRQ.                                                              *)
ReadError == pdm' = Parked([pdm EXCEPT !.over = FALSE]) /\ UNCHANGED caught

(* halo_pdm_pop and halo_pdm_read_port, of a 16-bit beat.                  *)
Popped(s) == IF s.fifo = <<>> THEN s
             ELSE [s EXCEPT !.last = Head(s.fifo), !.fifo = Tail(s.fifo)]

Port == IF pdm.half THEN [pdm EXCEPT !.half = FALSE]
        ELSE [Popped(pdm) EXCEPT !.half = TRUE]

-----------------------------------------------------------------------------
(* The DMA (external).                                                     *)
Burst ==
  /\ dma.on /\ dma.beats = 0 /\ ~pdm.stalled
  /\ dma' = [dma EXCEPT !.beats = 2 * Threshold]
  /\ UNCHANGED <<pdm, src, mic, caught>>

Beat ==
  /\ dma.on /\ dma.beats > 0
  /\ pdm' = Parked(Port)
  /\ IF dma.has
     THEN /\ dma' = [dma EXCEPT !.beats = @ - 1, !.has = FALSE]
          /\ caught' = [caught EXCEPT !.words = Append(@, <<dma.lo,
                                                           Port.last>>)]
     ELSE /\ dma' = [dma EXCEPT !.beats = @ - 1, !.has = TRUE,
                                !.lo = Port.last]
          /\ UNCHANGED caught
  /\ UNCHANGED <<src, mic>>

(* The driver (external).  It stops the channels, then the DMA, wherever   *)
(* that is in its burst.                                                   *)
MicDrives(from, to) == mic = from /\ mic' = to /\ UNCHANGED src

MicClear == MicDrives("off", "clear") /\ FifoClear /\ UNCHANGED dma
MicThreshold == MicDrives("clear", "set") /\ WriteThr(Threshold)
                /\ UNCHANGED dma
MicUseDma == MicDrives("set", "armed") /\ WriteCtl(TRUE)
             /\ dma' = [dma EXCEPT !.on = TRUE]
MicStart == MicDrives("armed", "on") /\ WriteConfig(TRUE) /\ UNCHANGED dma
MicStop == MicDrives("on", "stop") /\ WriteConfig(FALSE) /\ UNCHANGED dma
MicKill == MicDrives("stop", "killed") /\ dma' = DmaOff
           /\ caught' = [caught EXCEPT !.lost = @ \cup Held(dma)]
           /\ UNCHANGED pdm
MicEnd == MicDrives("killed", "off") /\ WriteCtl(FALSE) /\ UNCHANGED dma
MicIsr == pdm.over /\ ReadError /\ UNCHANGED <<src, mic, dma>>

(* The host: halo_pdm_open_wav, whose failure leaves the file as it is.    *)
SetWav(rate) ==
  /\ src' = [src EXCEPT !.file = IF rate = 0 THEN NoFile
                                 ELSE [rate |-> rate, pos |-> 0, frac |-> 0]]
  /\ caught' = [caught EXCEPT !.reads = 0]
  /\ UNCHANGED <<pdm, mic, dma>>

SetTone(on) == src' = [src EXCEPT !.tone = on]
               /\ UNCHANGED <<pdm, mic, dma, caught>>

MicNext ==
  \/ Tick \/ Burst \/ Beat
  \/ MicClear \/ MicThreshold \/ MicUseDma \/ MicStart
  \/ MicStop \/ MicKill \/ MicEnd \/ MicIsr
  \/ \E rate \in FileRates \cup {0} : SetWav(rate)
  \/ \E on \in BOOLEAN : SetTone(on)

(* halo_pdm_reset.                                                         *)
MicReset ==
  /\ pdm' = PdmAtReset
  /\ caught' = [caught EXCEPT !.lost = @ \cup MicSeq!ToSet(pdm.fifo) \cup Held(dma)]
  /\ mic' = "off" /\ dma' = DmaOff
  /\ UNCHANGED src

MicTypeOK ==
  /\ Len(pdm.fifo) <= PdmDepth /\ pdm.thr \in {0, Threshold}
  /\ src.file.pos \in 0..FileLen /\ src.tone \in BOOLEAN
  /\ mic \in {"off", "clear", "set", "armed", "on", "stop", "killed"}
  /\ dma.beats \in 0..2 * Threshold

(* What the DMA stores is what was captured: the halves of a word belong   *)
(* together, across a burst that was cut off and whatever restarted; the   *)
(* words come in order, none is missing but those the FIFO had no room for *)
(* or a stop threw away, and none is made up: no burst finds the FIFO      *)
(* empty.  A file is played at its own rate, without drift, and for ever.  *)
CaptureIntact ==
  LET w == caught.words IN
  /\ \A i \in 1..Len(w) : w[i][1] = w[i][2]
  /\ {w[i][1] : i \in 1..Len(w)} =
       1..caught.made \ (caught.lost \cup MicSeq!ToSet(pdm.fifo) \cup Held(dma))
  /\ \A i \in 2..Len(w) : w[i - 1][1] < w[i][1]
  /\ src.file # NoFile =>
       src.file.pos = ((caught.reads * src.file.rate) \div MicRate) % FileLen
=============================================================================
