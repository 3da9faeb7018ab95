---------------------------- MODULE FrameCells -----------------------------
(***************************************************************************)
(* The framing both rings and the chardev stream carry:                    *)
(*                                                                         *)
(*    u8 op, u8 flags (0), u16 len, u8 payload[len]                        *)
(*                                                                         *)
(* A frame is one of a small set of kinds and its bytes are the cells      *)
(* <<kind, 0>>, <<kind, 1>>, ...: the identity of a byte is enough to tell *)
(* whether it was lost, repeated, moved or overwritten.                    *)
(***************************************************************************)
EXTENDS Integers, Sequences

CONSTANTS
  Frames,      (* the kinds of frame in flight                            *)
  FrameLen,    (* FrameLen[f]: bytes of a whole frame, header included    *)
  Hdr,         (* bytes of a header: 4                                    *)
  StrayLen     (* StrayLen[c]: the 4 + len that a reader finds if it      *)
               (* takes c, a byte that does not begin a frame, for the    *)
               (* first byte of a header                                  *)

CellsOfFrame(f) == {<<f, k>> : k \in 0 .. FrameLen[f] - 1}

Cells == UNION {CellsOfFrame(f) : f \in Frames}

StrayCells == {c \in Cells : c[2] # 0}

ASSUME FrameAssumption ==
  /\ Hdr \in Nat \ {0}
  /\ FrameLen \in [Frames -> Nat]
  /\ \A f \in Frames : FrameLen[f] >= Hdr
  /\ StrayLen \in [StrayCells -> Nat]
  /\ \A c \in StrayCells : StrayLen[c] >= Hdr

(* The byte stream of one frame.                                           *)
Bytes(f) == [k \in 1 .. FrameLen[f] |-> <<f, k - 1>>]

Starts(c) == c[2] = 0

(* What a reader of the header that begins with cell c takes the whole     *)
(* frame's length to be.                                                   *)
ParsedLen(c) == IF Starts(c) THEN FrameLen[c[1]] ELSE StrayLen[c]

(* The first n cells of s, and the rest.                                   *)
Take(s, n) == SubSeq(s, 1, n)
Drop(s, n) == SubSeq(s, n + 1, Len(s))

(* A whole frame is at the front of s.                                     *)
HasFrame(s) ==
  /\ Len(s) >= Hdr
  /\ Len(s) >= ParsedLen(s[1])

(***************************************************************************)
(* A reader that starts at the front of s and steps from header to header  *)
(* stays inside s: the positions it stops at are closed under stepping.    *)
(***************************************************************************)
WholeFrames(s) ==
  \E stops \in SUBSET (0 .. Len(s)) :
    /\ 0 \in stops
    /\ \A k \in stops : k < Len(s) => k + ParsedLen(s[k + 1]) \in stops
=============================================================================
