------------------------------ MODULE Speaker ------------------------------
(***************************************************************************)
(* The speaker: I2S0 (halo_i2s.c) and the WAV file it records to           *)
(* (halo_wav.c).  A QEMU timer drains the TX FIFO, a trigger's worth of    *)
(* samples each time, while there is data or the driver waits to be asked; *)
(* the file has one rate for the whole session, so a sample is repeated in *)
(* it.  The driver (external) fills the FIFO from an interrupt that must   *)
(* not come before the driver's running flag is set.  A sample is its      *)
(* number.                                                                 *)
(***************************************************************************)
EXTENDS Naturals, Sequences
SpkSeq == INSTANCE SequencesExt

CONSTANTS
  TxDepth,    (* I2S_FIFO_DEPTH                                            *)
  TxTrigger,  (* TFCR, at least 1; the driver's burst is the rest          *)
  WavRate,    (* HALO_WAV_RATE                                             *)
  UpRatio,    (* HALO_WAV_RATE / 8000, what the upsampler's array is for   *)
  PlayRates,  (* rates the driver asks for, none above WavRate             *)
  WavFlush,   (* WAV_FLUSH_SAMPLES                                         *)
  MaxSamples  (* bound: samples the firmware plays                         *)

ASSUME SpkAssumption ==
  /\ TxDepth \in Nat /\ TxTrigger \in 1..TxDepth - 1
  /\ {WavRate, UpRatio, WavFlush} \subseteq Nat \ {0}
  /\ PlayRates \subseteq {r \in 1..WavRate : WavRate <= UpRatio * r}
  /\ MaxSamples \in Nat

VARIABLES
  i2s,    (* registers, FIFO, the drain timer (pending), the resampler     *)
  wav,    (* the file: wanted, open, its buffer, the samples on disk and   *)
          (* how many of them the header counts                            *)
  spk,    (* the driver                                                    *)
  played  (* history: the samples taken; since the playback's start, those *)
          (* popped and what the file has got of them                      *)

spkVars == <<i2s, wav, spk, played>>

I2sAtReset == [en |-> FALSE, masked |-> TRUE, fifo |-> <<>>,
               started |-> FALSE, over |-> FALSE, pending |-> FALSE,
               frac |-> 0, rate |-> WavRate, ckdiv |-> WavRate]

SpkInit ==
  /\ i2s = I2sAtReset
  /\ wav = [wanted |-> TRUE, open |-> FALSE, buf |-> <<>>, disk |-> <<>>,
            head |-> 0]
  /\ spk = [at |-> "off", next |-> 1, left |-> 0]
  /\ played = [taken |-> {}, popped |-> 0, frames |-> 0]

TxFe(s) == s.en /\ s.started /\ Len(s.fifo) <= TxTrigger
I2sIrq == TxFe(i2s) /\ ~i2s.masked

(* halo_wav_writer_flush: the buffer, then the header.                     *)
Flushed(w) == [w EXCEPT !.disk = @ \o w.buf, !.buf = <<>>,
                        !.head = Len(w.disk \o w.buf)]

(* halo_wav_writer_write.                                                  *)
Written(w, frames) ==
  LET all == w.buf \o frames
      whole == WavFlush * (Len(all) \div WavFlush)
  IN IF whole = 0 THEN [w EXCEPT !.buf = all]
     ELSE [Flushed([w EXCEPT !.buf = SubSeq(all, 1, whole)])
             EXCEPT !.buf = SubSeq(all, whole + 1, Len(all))]

(* halo_i2s_sink: each sample as often as the rates ask and its array      *)
(* holds, the remainder is carried.                                        *)
UpSize == TxDepth * UpRatio + 1

Upsampled(samples, frac, rate) ==
  LET up[i \in 0..Len(samples)] ==
        IF i = 0 THEN [frac |-> frac, out |-> <<>>]
        ELSE LET had == up[i - 1]
                 owed == (had.frac + WavRate) \div rate
                 room == UpSize - Len(had.out)
                 n == IF owed < room THEN owed ELSE room
             IN [frac |-> had.frac + WavRate - n * rate,
                 out |-> had.out \o [k \in 1..n |-> samples[i]]]
  IN up[Len(samples)]

(* Mutant: the timer runs only while there is data.                        *)
ActiveWithData(s) == s.en /\ s.fifo # <<>>

Active(s) == s.en /\ (s.fifo # <<>> \/ ~s.masked)

(* halo_i2s_update, after each access.                                     *)
Update(s, w, p) ==
  /\ IF ~Active(s) THEN /\ i2s' = [s EXCEPT !.pending = FALSE,
                                            !.started = FALSE]
                        /\ wav' = IF w.open THEN Flushed(w) ELSE w
     ELSE /\ i2s' = IF s.pending THEN s
                    ELSE [s EXCEPT !.pending = TRUE, !.frac = 0,
                                   !.rate = s.ckdiv]
          /\ wav' = w
  /\ played' = IF Active(s) /\ ~s.pending
               THEN [p EXCEPT !.popped = 0, !.frames = 0] ELSE p

WriteI2s(s) == Update(s, wav, played)

(* LTHR.                                                                   *)
Push(n) ==
  IF Len(i2s.fifo) >= TxDepth THEN WriteI2s([i2s EXCEPT !.over = TRUE])
  ELSE Update([i2s EXCEPT !.fifo = Append(@, n)], wav,
              [played EXCEPT !.taken = @ \cup {n}])

(* TXFFR.                                                                  *)
FlushTx ==
  Update([i2s EXCEPT !.fifo = <<>>], wav,
         [played EXCEPT !.taken = @ \ SpkSeq!ToSet(i2s.fifo)])

(* The file is opened with the first samples; a failure is for good.       *)
OpenWav(w) ==
  IF w.wanted /\ ~w.open
  THEN {[w EXCEPT !.open = TRUE], [w EXCEPT !.wanted = FALSE]} ELSE {w}

(* halo_i2s_drain.                                                         *)
Drain1 ==
  LET n == IF Len(i2s.fifo) < TxTrigger THEN Len(i2s.fifo) ELSE TxTrigger
      up == Upsampled(SubSeq(i2s.fifo, 1, n), i2s.frac, i2s.ckdiv)
      s == [i2s EXCEPT !.started = TRUE, !.rate = i2s.ckdiv,
                       !.fifo = SubSeq(@, n + 1, Len(@))]
  IN
  /\ i2s.pending
  /\ IF n = 0 THEN Update(s, wav, played)
     ELSE \E w \in OpenWav(wav) :
       Update(IF w.open THEN [s EXCEPT !.frac = up.frac] ELSE s,
              IF w.open THEN Written(w, up.out) ELSE w,
              [played EXCEPT !.popped = @ + n, !.frames = @ + Len(up.out)])

-----------------------------------------------------------------------------
(* The driver (external).                                                  *)
Drives(from, to) == spk.at \in from /\ spk' = [spk EXCEPT !.at = to]

SpkEnable(rate) == Drives({"off"}, "enabled")
                   /\ WriteI2s([i2s EXCEPT !.en = TRUE, !.ckdiv = rate])
SpkUnmask == Drives({"enabled"}, "unmasked")
             /\ WriteI2s([i2s EXCEPT !.masked = FALSE])
SpkRunning == Drives({"unmasked"}, "on") /\ UNCHANGED <<i2s, wav, played>>

SpkIsr ==
  /\ spk.at = "on" /\ I2sIrq /\ spk.next <= MaxSamples
  /\ spk' = [spk EXCEPT !.at = "isr", !.left = TxDepth - TxTrigger]
  /\ UNCHANGED <<i2s, wav, played>>

SpkPush ==
  /\ spk.at = "isr" /\ spk.next <= MaxSamples
  /\ Push(spk.next)
  /\ spk' = [spk EXCEPT !.next = @ + 1, !.left = @ - 1,
                        !.at = IF spk.left = 1 THEN "on" ELSE "isr"]

SpkEnd == Drives({"on", "isr"}, "ending")
          /\ WriteI2s([i2s EXCEPT !.masked = TRUE])
SpkDrop == spk.at = "ending" /\ FlushTx /\ UNCHANGED spk
(* It does not leave samples behind: the next start would begin with them, *)
(* and be asked for more before it is running.                             *)
SpkDisable == i2s.fifo = <<>> /\ Drives({"ending"}, "off")
              /\ WriteI2s([i2s EXCEPT !.en = FALSE])

(* The driver sets its flag long before the first sample is due.           *)
Drain == spk.at # "unmasked" /\ Drain1 /\ UNCHANGED spk

SpkNext ==
  \/ \E rate \in PlayRates : SpkEnable(rate)
  \/ SpkUnmask \/ SpkRunning \/ SpkIsr \/ SpkPush
  \/ SpkEnd \/ SpkDrop \/ SpkDisable
  \/ Drain

(* Mutant: the reset leaves the last samples in the writer's buffer.       *)
SpkResetUnflushed ==
  /\ i2s' = I2sAtReset /\ wav' = wav
  /\ spk' = [spk EXCEPT !.at = "off", !.left = 0]
  /\ played' = [taken |-> played.taken \ SpkSeq!ToSet(i2s.fifo), popped |-> 0,
                frames |-> 0]

(* halo_i2s_reset: "the capture file spans the whole session".             *)
SpkReset ==
  /\ i2s' = I2sAtReset
  /\ wav' = IF wav.open THEN Flushed(wav) ELSE wav
  /\ spk' = [spk EXCEPT !.at = "off", !.left = 0]
  /\ played' = [taken |-> played.taken \ SpkSeq!ToSet(i2s.fifo), popped |-> 0,
                frames |-> 0]

SpkTypeOK ==
  /\ Len(i2s.fifo) <= TxDepth /\ i2s.rate \in PlayRates \cup {WavRate}
  /\ spk.at \in {"off", "enabled", "unmasked", "on", "isr", "ending"}
  /\ spk.next \in 1..MaxSamples + 1

(* What is recorded is what the firmware played: every sample the FIFO     *)
(* took, none that it lost, in order, through stops, restarts and resets,  *)
(* each for its time, whatever the rates' ratio; and whenever the speaker  *)
(* is idle the file is complete on disk, header and all.                   *)
PlaybackIntact ==
  LET file == wav.disk \o wav.buf
      out == file \o i2s.fifo
  IN wav.wanted =>
    /\ SpkSeq!ToSet(out) = played.taken
    /\ \A i \in 2..Len(out) : out[i - 1] <= out[i]
    /\ played.frames = (played.popped * WavRate) \div i2s.rate
    /\ wav.head = Len(wav.disk)
    /\ ~i2s.pending => wav.buf = <<>>

(* The driver is asked for samples as long as it waits to be asked, not    *)
(* before it can give any, and never for more than there is room for.      *)
SpeakerServed ==
  /\ spk.at \in {"on", "isr"} => i2s.pending
  /\ I2sIrq => spk.at \in {"on", "isr"}
  /\ ~i2s.over
=============================================================================
