--------------------------- MODULE H2GPathProofs ---------------------------
(***************************************************************************)
(* The host-to-guest path for every ring size, frame set and buffer: type  *)
(* correctness, no overrun, the guest only finds whole frames, a parked    *)
(* frame is polled for, (for a firmware whose BLE task blocks, and no      *)
(* frame of op 0) no wakeup is lost, and the path is one queue of frames.  *)
(*                                                                         *)
(* IInv is inductive.  Its core, RingOK, says the ring is a run of whole   *)
(* frames; the lemmas below are RingOK's life cycle, free of the state.    *)
(***************************************************************************)
EXTENDS H2GPath, DoorbellLemmas

Data == [Slots -> Cells \cup {NoCell}]

LEMMA Constants ==
  /\ Hdr \in Nat \ {0}
  /\ RxBuf \in Nat /\ Hdr <= RxBuf /\ RxBuf <= RingData
  /\ RingData \in Nat \ {0} /\ CounterMod \in Nat \ {0}
  /\ NoCell \notin Cells
  /\ 0 \in Counter
BY Sizes, FrameAssumption, H2GAssumption DEF Counter

LEMMA LeftCancel ==
  ASSUME NEW S, NEW a \in Seq(S), NEW x \in Seq(S), NEW y \in Seq(S),
         a \o x = a \o y
  PROVE  x = y
<1>1. /\ Len(a \o x) = Len(a) + Len(x)
      /\ \A i \in 1 .. Len(a) + Len(x) :
           (a \o x)[i] = IF i <= Len(a) THEN a[i] ELSE x[i - Len(a)]
  BY ConcatProperties
<1>2. /\ Len(a \o y) = Len(a) + Len(y)
      /\ \A i \in 1 .. Len(a) + Len(y) :
           (a \o y)[i] = IF i <= Len(a) THEN a[i] ELSE y[i - Len(a)]
  BY ConcatProperties
<1>3. Len(a) \in Nat /\ Len(x) \in Nat /\ Len(y) \in Nat OBVIOUS
<1>4. Len(x) = Len(y) BY <1>1, <1>2, <1>3
<1>5. ASSUME NEW i \in 1 .. Len(x) PROVE x[i] = y[i]
  <2>1. /\ Len(a) + i \in 1 .. Len(a) + Len(x)
        /\ Len(a) + i \in 1 .. Len(a) + Len(y)
        /\ ~(Len(a) + i <= Len(a))
        /\ (Len(a) + i) - Len(a) = i
    BY <1>3, <1>4
  <2>2. (a \o x)[Len(a) + i] = x[i] BY <1>1, <2>1
  <2>3. (a \o y)[Len(a) + i] = y[i] BY <1>2, <2>1
  <2> QED BY <2>2, <2>3
<1> QED BY <1>4, <1>5, SeqEqual

-----------------------------------------------------------------------------
(* An empty ring.                                                          *)
LEMMA HoldsEmpty ==
  ASSUME NEW d \in Data, NEW h \in Counter
  PROVE  Holds(d, h, h, << >>)
<1>1. Used(h, h) = 0 BY UsedZero
<1>2. Contents(d, h, h) = << >> BY <1>1 DEF Contents, Get
<1>3. Advance(h, 0) = h BY Sizes DEF Advance, Counter
<1>4. Len(<< >>) = 0 /\ << >> \in Seq(Cells) /\ << >> \o << >> = << >> OBVIOUS
<1> QED BY <1>1, <1>2, <1>3, <1>4, WholeEmpty, Sizes DEF Holds

(* The bytes in use, and how many there are.                               *)
LEMMA HoldsUsed ==
  ASSUME NEW d \in Data, NEW h \in Counter, NEW t \in Counter,
         NEW p \in Seq(Cells), Holds(d, h, t, p)
  PROVE  /\ Used(h, t) \in 0 .. RingData
         /\ Len(p) \in 0 .. RingData
         /\ Len(Contents(d, h, t)) = Used(h, t)
<1>1. Used(h, t) + Len(p) <= RingData BY DEF Holds
<1>2. Used(h, t) \in Nat BY UsedType, Sizes
<1>3. Len(p) \in Nat OBVIOUS
<1>4. Contents(d, h, t) \in Seq(Cells) BY DEF Holds
<1>5. Contents(d, h, t) = [i \in 1 .. Used(h, t) |-> d[Slot(Advance(t, i - 1))]]
  BY DEF Contents, Get
<1>6. Len(Contents(d, h, t)) = Used(h, t)
  <2> DEFINE c == Contents(d, h, t)
  <2>1. DOMAIN c = 1 .. Used(h, t) BY <1>5
  <2> HIDE DEF c
  <2> QED BY <1>2, <1>4, <2>1 DEF c
<1> QED BY <1>1, <1>2, <1>3, <1>6, Sizes

(* PushBytes: the frame is stored behind the contents.                     *)
LEMMA HoldsStore ==
  ASSUME NEW d \in Data, NEW h \in Counter, NEW t \in Counter,
         NEW p \in Seq(Cells), Holds(d, h, t, << >>), Len(p) <= Space(h, t)
  PROVE  Holds(Put(d, h, p), h, t, p)
<1>0. << >> \in Seq(Cells) OBVIOUS
<1>1. Used(h, t) \in 0 .. RingData BY <1>0, HoldsUsed
<1>2. p \in Seq(Cells \cup {NoCell}) OBVIOUS
<1>3. Contents(Put(d, h, p), Advance(h, Len(p)), t) = Contents(d, h, t) \o p
  BY <1>1, <1>2, PutAppends DEF Data
<1>4. Contents(Put(d, h, p), h, t) = Contents(d, h, t)
  BY <1>1, <1>2, PutKeeps DEF Data
<1>5. Used(h, t) + Len(p) <= RingData BY <1>1, Sizes DEF Space
<1> QED BY <1>3, <1>4, <1>5 DEF Holds

(* PushHead: a stored frame becomes part of the contents.                  *)
LEMMA HoldsPublish ==
  ASSUME NEW d \in Data, NEW h \in Counter, NEW t \in Counter,
         NEW p \in Seq(Cells), Holds(d, h, t, p),
         p # << >>, Len(p) = ParsedLen(p[1])
  PROVE  /\ Holds(d, Advance(h, Len(p)), t, << >>)
         /\ Used(Advance(h, Len(p)), t) = Used(h, t) + Len(p)
<1> DEFINE g == Advance(h, Len(p))
           c == Contents(d, h, t)
<1>1. /\ Used(h, t) \in 0 .. RingData /\ Len(p) \in 0 .. RingData
      /\ Used(h, t) + Len(p) <= RingData
  BY HoldsUsed DEF Holds
<1>2. g \in Counter BY <1>1, AdvanceType
<1>3. Used(g, t) = Used(h, t) + Len(p) BY <1>1, UsedAfterPut
<1>4. c \in Seq(Cells) /\ WholeFrames(c) /\ Contents(d, g, t) = c \o p
  BY DEF Holds
<1>5. c \o p \in Seq(Cells) BY <1>4, ConcatProperties
<1>6. WholeFrames(c \o p) BY <1>4, WholeAppend
<1>7. Advance(g, 0) = g BY <1>2, Sizes DEF Advance, Counter
<1>8. (c \o p) \o << >> = c \o p
  <2> DEFINE cp == c \o p
  <2>1. cp \in Seq(Cells) BY <1>5
  <2> HIDE DEF cp
  <2>2. cp \o << >> = cp BY <2>1, ConcatEmptySeq
  <2> QED BY <2>2 DEF cp
<1>9. Len(<< >>) = 0 OBVIOUS
<1>10. Used(g, t) + 0 <= RingData BY <1>1, <1>3, Sizes
<1> HIDE DEF g, c
<1>11. Holds(d, g, t, << >>)
  BY <1>4, <1>5, <1>6, <1>7, <1>8, <1>9, <1>10 DEF Holds
<1> QED BY <1>3, <1>11 DEF g

(* The first of the contents is the cell the reader looks at.              *)
LEMMA FrontCell ==
  ASSUME NEW d \in Data, NEW h \in Counter, NEW t \in Counter,
         NEW p \in Seq(Cells), Holds(d, h, t, p), h # t
  PROVE  /\ Contents(d, h, t) # << >>
         /\ Contents(d, h, t)[1] = d[Slot(t)]
         /\ d[Slot(t)] \in Cells
<1> DEFINE c == Contents(d, h, t)
<1>1. Used(h, t) \in 0 .. RingData /\ Used(h, t) # 0
  BY HoldsUsed, UsedZero
<1>2. 1 \in 1 .. Used(h, t) BY <1>1, Sizes
<1>3. c = [i \in 1 .. Used(h, t) |-> d[Slot(Advance(t, i - 1))]]
  BY DEF Contents, Get
<1>4. c[1] = d[Slot(Advance(t, 1 - 1))] BY <1>2, <1>3
<1>5. Advance(t, 1 - 1) = t BY Sizes DEF Advance, Counter
<1>6. c \in Seq(Cells) /\ Len(c) = Used(h, t) BY HoldsUsed DEF Holds
<1> HIDE DEF c
<1>7. c # << >> /\ c[1] \in Cells BY <1>1, <1>2, <1>6
<1> QED BY <1>4, <1>5, <1>7 DEF c

(* The reader finds a whole frame, and removing it leaves whole frames.    *)
LEMMA HoldsTake ==
  ASSUME NEW d \in Data, NEW h \in Counter, NEW t \in Counter,
         NEW p \in Seq(Cells), Holds(d, h, t, p), h # t
  PROVE  LET n == ParsedLen(d[Slot(t)])
         IN  /\ n \in 1 .. RingData /\ n >= Hdr /\ n <= Used(h, t)
             /\ Get(d, t, n) \in Seq(Cells) /\ Len(Get(d, t, n)) = n
             /\ Get(d, t, n) # << >>
             /\ Advance(t, n) \in Counter
             /\ Holds(d, h, Advance(t, n), p)
<1> DEFINE n == ParsedLen(d[Slot(t)])
           c == Contents(d, h, t)
           g == Advance(h, Len(p))
           a == Get(d, t, n)
           u == Advance(t, n)
<1>1. /\ c # << >> /\ c[1] = d[Slot(t)] /\ d[Slot(t)] \in Cells
  BY FrontCell
<1>2. c \in Seq(Cells) /\ WholeFrames(c) /\ Len(c) = Used(h, t)
  BY HoldsUsed DEF Holds
<1>3. HasFrame(c) BY <1>1, <1>2, WholeFront
<1>4. n \in Nat /\ n >= Hdr /\ n > 0 BY <1>1, ParsedLenType
<1>5. Used(h, t) \in 0 .. RingData /\ Len(p) \in 0 .. RingData
      /\ Used(h, t) + Len(p) <= RingData
  BY HoldsUsed DEF Holds
<1>6. n <= Used(h, t) BY <1>1, <1>2, <1>3 DEF HasFrame
<1>7. n \in 1 .. RingData /\ n \in 0 .. RingData BY <1>4, <1>5, <1>6, Sizes
<1>8. u \in Counter BY <1>7, AdvanceType
<1>9. c = a \o Contents(d, h, u)
  <2>1. d \in [Slots -> Cells \cup {NoCell}] BY DEF Data
  <2>2. n \in 0 .. RingData /\ n <= Used(h, t) /\ Used(h, t) <= RingData
    BY <1>5, <1>6, <1>7
  <2> HIDE DEF n
  <2> QED BY <2>1, <2>2, GetDrops
<1>10. \A i \in 1 .. n : a[i] = c[i] /\ a[i] \in Cells
  <2> SUFFICES ASSUME NEW i \in 1 .. n PROVE a[i] = c[i] /\ a[i] \in Cells
    OBVIOUS
  <2>1. i \in 1 .. Used(h, t) BY <1>4, <1>5, <1>6
  <2>2. a[i] = d[Slot(Advance(t, i - 1))] BY DEF Get
  <2>3. c[i] = d[Slot(Advance(t, i - 1))] BY <2>1 DEF Contents, Get
  <2>4. c[i] \in Cells BY <1>2, <2>1
  <2> QED BY <2>2, <2>3, <2>4
<1>11. a \in Seq(Cells) /\ Len(a) = n
  <2>1. a = [i \in 1 .. n |-> d[Slot(Advance(t, i - 1))]] BY DEF Get
  <2>2. \A i \in 1 .. n : d[Slot(Advance(t, i - 1))] \in Cells BY <1>10 DEF Get
  <2> HIDE DEF n, a
  <2> QED BY <1>4, <2>1, <2>2
<1>12. a # << >> /\ ParsedLen(a[1]) = n
  <2>1. 1 \in 1 .. n BY <1>4
  <2>2. a[1] = d[Slot(t)] BY <1>1, <1>10, <2>1
  <2> QED BY <1>4, <1>11, <2>2
<1>13. Used(h, u) = Used(h, t) - n BY <1>6, <1>7, UsedAfterGet
<1>14. Contents(d, h, u) \in Seq(Cells)
  <2> DEFINE r == Contents(d, h, u)
  <2>1. r = [i \in 1 .. Used(h, u) |-> d[Slot(Advance(u, i - 1))]]
    BY DEF Contents, Get
  <2>2. Used(h, u) \in 0 .. RingData BY <1>4, <1>5, <1>6, <1>13, Sizes
  <2>3. r \in Seq(Cells \cup {NoCell}) /\ Len(r) = Used(h, u)
    <3>1. \A i \in 1 .. Used(h, u) : d[Slot(Advance(u, i - 1))] \in Cells \cup {NoCell}
      <4> SUFFICES ASSUME NEW i \in 1 .. Used(h, u)
                   PROVE  d[Slot(Advance(u, i - 1))] \in Cells \cup {NoCell}
        OBVIOUS
      <4>1. i - 1 \in 0 .. RingData BY <2>2, Sizes
      <4>2. Advance(u, i - 1) \in Int BY <1>8, <4>1, AdvanceType DEF Counter
      <4> HIDE DEF u
      <4> QED BY <4>2, SlotType DEF Data
    <3> HIDE DEF r, u
    <3> QED BY <2>1, <2>2, <3>1
  <2>4. a \in Seq(Cells \cup {NoCell}) BY <1>11
  <2> HIDE DEF r, a, c, n, u
  <2>5. /\ Len(a \o r) = Len(a) + Len(r)
        /\ \A i \in 1 .. Len(a) + Len(r) :
             (a \o r)[i] = IF i <= Len(a) THEN a[i] ELSE r[i - Len(a)]
    BY <2>3, <2>4, ConcatProperties
  <2>6. c = a \o r BY <1>9 DEF r
  <2>7. \A i \in 1 .. Len(r) : r[i] \in Cells
    <3> SUFFICES ASSUME NEW i \in 1 .. Len(r) PROVE r[i] \in Cells
      OBVIOUS
    <3>1. Len(a) \in Nat /\ Len(r) \in Nat BY <2>3, <2>4
    <3>2. /\ Len(a) + i \in 1 .. Len(a) + Len(r)
          /\ ~(Len(a) + i <= Len(a)) /\ (Len(a) + i) - Len(a) = i
      BY <3>1
    <3>3. c[Len(a) + i] = r[i] BY <2>5, <2>6, <3>2
    <3>4. Len(c) = Len(a) + Len(r) BY <2>5, <2>6
    <3> QED BY <1>2, <3>2, <3>3, <3>4
  <2>8. r \in Seq(Cells) BY <2>3, <2>7
  <2> QED BY <2>8 DEF r
<1>15. WholeFrames(Contents(d, h, u))
  <2> DEFINE r == Contents(d, h, u)
  <2>1. r \in Seq(Cells) /\ c = a \o r BY <1>9, <1>14
  <2> HIDE DEF r, a, c, n, u
  <2>2. WholeFrames(r) BY <1>2, <1>11, <1>12, <2>1, WholeDrop
  <2> QED BY <2>2 DEF r
<1>16. Contents(d, g, u) = Contents(d, h, u) \o p
  <2> DEFINE r == Contents(d, h, u)
             w == Contents(d, g, u)
             cg == Contents(d, g, t)
  <2>1. g \in Counter /\ Used(g, t) = Used(h, t) + Len(p)
    BY <1>5, AdvanceType, UsedAfterPut
  <2>2. Used(g, t) <= RingData /\ n <= Used(g, t) BY <1>4, <1>5, <1>6, <2>1, Sizes
  <2>3. cg = a \o w BY <1>7, <2>1, <2>2, GetDrops DEF Data
  <2>4. cg = c \o p BY DEF Holds
  <2>5. r \in Seq(Cells) /\ c = a \o r BY <1>9, <1>14
  <2>6. w \in Seq(Cells \cup {NoCell})
    <3>1. w = [i \in 1 .. Used(g, u) |-> d[Slot(Advance(u, i - 1))]]
      BY DEF Contents, Get
    <3>2. Used(g, u) = Used(g, t) - n BY <1>7, <2>1, <2>2, UsedAfterGet
    <3>3. Used(g, u) \in 0 .. RingData BY <1>4, <1>5, <2>1, <2>2, <3>2, Sizes
    <3>4. \A i \in 1 .. Used(g, u) : d[Slot(Advance(u, i - 1))] \in Cells \cup {NoCell}
      <4> SUFFICES ASSUME NEW i \in 1 .. Used(g, u)
                   PROVE  d[Slot(Advance(u, i - 1))] \in Cells \cup {NoCell}
        OBVIOUS
      <4>1. i - 1 \in 0 .. RingData BY <3>3, Sizes
      <4>2. Advance(u, i - 1) \in Int BY <1>8, <4>1, AdvanceType DEF Counter
      <4> HIDE DEF u
      <4> QED BY <4>2, SlotType DEF Data
    <3> HIDE DEF w, g, u
    <3> QED BY <3>1, <3>3, <3>4
  <2> HIDE DEF r, w, cg, c, a, g, u, n
  <2>7. (a \o r) \o p = a \o (r \o p) BY <1>11, <2>5, ConcatAssociative
  <2>8. a \o w = a \o (r \o p) BY <2>3, <2>4, <2>5, <2>7
  <2>9. r \o p \in Seq(Cells \cup {NoCell}) /\ a \in Seq(Cells \cup {NoCell})
    <3>1. r \o p \in Seq(Cells) BY <2>5, ConcatProperties
    <3> QED BY <1>11, <3>1
  <2>10. w = r \o p BY <2>6, <2>8, <2>9, LeftCancel
  <2> QED BY <2>10 DEF w, r
<1>17. Used(h, u) + Len(p) <= RingData BY <1>4, <1>5, <1>13, Sizes
<1> HIDE DEF n, c, g, a, u
<1>18. Holds(d, h, u, p)
  BY <1>14, <1>15, <1>16, <1>17 DEF Holds, g
<1>19. /\ n \in 1 .. RingData /\ n >= Hdr /\ n <= Used(h, t)
       /\ a \in Seq(Cells) /\ Len(a) = n /\ a # << >>
       /\ u \in Counter
  BY <1>4, <1>6, <1>7, <1>8, <1>11, <1>12
<1> QED BY <1>18, <1>19 DEF n, a, u
(* StackInitLoad: a reader that starts at the head sees what is stored.    *)
LEMMA HoldsSkip ==
  ASSUME NEW d \in Data, NEW h \in Counter, NEW t \in Counter,
         NEW p \in Seq(Cells), Holds(d, h, t, p)
  PROVE  Holds(d, h, h, p)
<1> DEFINE c == Contents(d, h, t)
           u == Used(h, t)
           g == Advance(h, Len(p))
           w == Contents(d, g, h)
<1>1. /\ u \in 0 .. RingData /\ Len(p) \in 0 .. RingData
      /\ u + Len(p) <= RingData
  BY HoldsUsed DEF Holds
<1>2. c \in Seq(Cells) /\ Contents(d, g, t) = c \o p BY DEF Holds
<1>3. g \in Counter /\ Used(g, t) = u + Len(p)
  BY <1>1, AdvanceType, UsedAfterPut
<1>4. Advance(t, u) = h BY <1>1, Sizes DEF Used, Advance, Counter
<1>5. c = Get(d, t, u) BY DEF Contents
<1>6. Contents(d, g, t) = c \o w
  <2>1. d \in [Slots -> Cells \cup {NoCell}] BY DEF Data
  <2>2. u <= Used(g, t) /\ Used(g, t) <= RingData BY <1>1, <1>3, Sizes
  <2> HIDE DEF u, g
  <2>3. Contents(d, g, t) = Get(d, t, u) \o Contents(d, g, Advance(t, u))
    BY <1>1, <1>3, <2>1, <2>2, GetDrops
  <2> QED BY <1>4, <1>5, <2>3
<1>7. w \in Seq(Cells \cup {NoCell})
  <2>1. w = [i \in 1 .. Used(g, h) |-> d[Slot(Advance(h, i - 1))]]
    BY DEF Contents, Get
  <2>2. Used(h, h) = 0 BY UsedZero
  <2>3. Used(g, h) = Len(p) BY <1>1, <2>2, UsedAfterPut, Sizes
  <2>4. \A i \in 1 .. Used(g, h) : d[Slot(Advance(h, i - 1))] \in Cells \cup {NoCell}
    <3> SUFFICES ASSUME NEW i \in 1 .. Used(g, h)
                 PROVE  d[Slot(Advance(h, i - 1))] \in Cells \cup {NoCell}
      OBVIOUS
    <3>1. i - 1 \in 0 .. RingData BY <1>1, <2>3, Sizes
    <3>2. Advance(h, i - 1) \in Int BY <3>1, AdvanceType DEF Counter
    <3> QED BY <3>2, SlotType DEF Data
  <2> HIDE DEF w, g
  <2> QED BY <1>1, <2>1, <2>3, <2>4
<1>8. c \in Seq(Cells \cup {NoCell}) /\ p \in Seq(Cells \cup {NoCell})
  <2> HIDE DEF c
  <2> QED BY <1>2
<1>9. w = p
  <2> HIDE DEF c, w, g
  <2> QED BY <1>2, <1>6, <1>7, <1>8, LeftCancel
<1>10. Contents(d, h, h) = << >> BY UsedZero DEF Contents, Get
<1>11. << >> \o p = p BY ConcatEmptySeq
<1>12. Used(h, h) + Len(p) <= RingData BY <1>1, UsedZero, Sizes
<1>13. << >> \in Seq(Cells) OBVIOUS
<1> QED BY <1>9, <1>10, <1>11, <1>12, <1>13, WholeEmpty DEF Holds

-----------------------------------------------------------------------------
(* The initial states.                                                     *)
LEMMA InitInv == Init => IInv
<1> SUFFICES ASSUME Init PROVE IInv OBVIOUS
<1>1. data \in Data BY DEF Init, Data
<1>2. TypeOK
  <2>1. data \in [Slots -> Cells \cup {NoCell}] BY <1>1 DEF Data
  <2>2. << >> \in Seq(Cells) OBVIOUS
  <2>3. 0 \in 0 .. MaxResets /\ 0 \in 0 .. MaxCrashes BY H2GAssumption
  <2>4. 0 \in Counter BY Constants
  <2> QED BY <2>1, <2>2, <2>3, <2>4 DEF Init, TypeOK
<1>3. RingOK(tail)
  <2>1. head = 0 /\ tail = 0 /\ Stored = << >> BY DEF Init, Stored
  <2> QED BY <1>1, <2>1, Constants, HoldsEmpty DEF RingOK
<1>4. RxOK /\ InitOK /\ TaskOK /\ RetryOK
  BY Constants DEF Init, RxOK, InitOK, TaskOK, RetryOK
<1> QED BY <1>2, <1>3, <1>4 DEF IInv

(* The frame at the front of rxbuf.                                        *)
LEMMA FrontFrame ==
  ASSUME TypeOK, RxOK, Len(rxbuf) >= Hdr, ParsedLen(rxbuf[1]) <= Len(rxbuf)
  PROVE  LET n == ParsedLen(rxbuf[1])
             f == Take(rxbuf, n)
         IN  /\ n \in 1 .. RingData /\ n \in 0 .. Len(rxbuf) /\ n >= Hdr
             /\ f \in Seq(Cells) /\ Len(f) = n /\ f # << >>
             /\ ParsedLen(f[1]) = n
             /\ Drop(rxbuf, n) \in Seq(Cells)
             /\ Len(Drop(rxbuf, n)) <= RxBuf
<1> DEFINE n == ParsedLen(rxbuf[1])
           f == Take(rxbuf, n)
<1>1. rxbuf \in Seq(Cells) /\ Len(rxbuf) \in Nat /\ Len(rxbuf) <= RxBuf
  BY DEF TypeOK, RxOK
<1>2. rxbuf[1] \in Cells BY <1>1, Constants
<1>3. n \in Nat /\ n >= Hdr /\ n > 0 BY <1>2, ParsedLenType
<1>4. n \in 0 .. Len(rxbuf) /\ n \in 1 .. RingData BY <1>1, <1>3, Constants
<1>5. f \in Seq(Cells) /\ Len(f) = n /\ \A i \in 1 .. n : f[i] = rxbuf[i]
  <2> HIDE DEF n
  <2> QED BY <1>1, <1>4, TakeType
<1>6. Drop(rxbuf, n) \in Seq(Cells) /\ Len(Drop(rxbuf, n)) = Len(rxbuf) - n
  <2> HIDE DEF n
  <2> QED BY <1>1, <1>4, DropType
<1>7. f[1] = rxbuf[1]
  <2> HIDE DEF n, f
  <2> QED BY <1>4, <1>5
<1>8. f # << >>
  <2> HIDE DEF n, f
  <2> QED BY <1>3, <1>5
<1>9. Len(Drop(rxbuf, n)) <= RxBuf BY <1>1, <1>3, <1>6, Constants
<1> HIDE DEF f
<1> QED BY <1>3, <1>4, <1>5, <1>6, <1>7, <1>8, <1>9 DEF f

(* What h2g_push has stored and not published.                             *)
LEMMA StoredType == ASSUME TypeOK, RxOK PROVE Stored \in Seq(Cells)
<1>1. CASE dev = "publish"
  <2>1. Len(rxbuf) >= Hdr /\ ParsedLen(rxbuf[1]) <= Len(rxbuf)
    BY <1>1 DEF RxOK
  <2> QED BY <1>1, <2>1, FrontFrame DEF Stored
<1>2. CASE dev # "publish"
  <2>1. << >> \in Seq(Cells) OBVIOUS
  <2> QED BY <1>2, <2>1 DEF Stored
<1> QED BY <1>1, <1>2

(* What the reader of the ring looks at and finds there.                   *)
LEMMA ReaderFinds ==
  ASSUME TypeOK, RxOK, RingOK(tail), head # tail
  PROVE  /\ RingHasFrame
         /\ FrontLen \in 1 .. RingData
         /\ FrontLen <= Used(head, tail)
         /\ FrontLen = ParsedLen(Contents(data, head, tail)[1])
         /\ Get(data, tail, FrontLen) \in Seq(Cells)
         /\ Len(Get(data, tail, FrontLen)) = FrontLen
         /\ Advance(tail, FrontLen) \in Counter
         /\ RingOK(Advance(tail, FrontLen))
<1>1. data \in Data /\ head \in Counter /\ tail \in Counter BY DEF TypeOK, Data
<1>2. Holds(data, head, tail, Stored) BY DEF RingOK
<1>3. Stored \in Seq(Cells) BY StoredType
<1>4. /\ FrontLen \in 1 .. RingData /\ FrontLen >= Hdr
      /\ FrontLen <= Used(head, tail)
      /\ Get(data, tail, FrontLen) \in Seq(Cells)
      /\ Len(Get(data, tail, FrontLen)) = FrontLen
      /\ Advance(tail, FrontLen) \in Counter
      /\ Holds(data, head, Advance(tail, FrontLen), Stored)
  BY <1>1, <1>2, <1>3, HoldsTake DEF FrontLen
<1>5. FrontLen = ParsedLen(Contents(data, head, tail)[1])
  BY <1>1, <1>2, <1>3, FrontCell DEF FrontLen
<1>6. Used(head, tail) \in 0 .. RingData BY <1>1, <1>2, <1>3, HoldsUsed
<1>7. RingHasFrame
  <2> DEFINE n == FrontLen
  <2>1. n \in Int /\ n >= Hdr /\ n <= Used(head, tail) /\ Used(head, tail) \in Int
    BY <1>4, <1>6
  <2> HIDE DEF n
  <2>2. Used(head, tail) >= Hdr /\ Used(head, tail) >= n BY <2>1, Constants
  <2> QED BY <2>2 DEF RingHasFrame, n
<1> QED BY <1>4, <1>5, <1>7 DEF RingOK

-----------------------------------------------------------------------------
(* Steps that leave the ring, the frame being pushed and the task alone.   *)
LEMMA RingKept ==
  ASSUME RingOK(tail), UNCHANGED <<ring, rxbuf>>, Stored' = Stored
  PROVE  RingOK(tail)'
BY DEF RingOK, ring

LEMMA InitKept ==
  ASSUME InitOK, UNCHANGED <<ring, rxbuf, phase, initHead>>, Stored' = Stored
  PROVE  InitOK'
BY DEF InitOK, RingOK, ring

LEMMA TaskKept ==
  ASSUME TaskOK, UNCHANGED <<ring, phase, task, got>>
  PROVE  TaskOK'
BY DEF TaskOK, ring

(* Steps of the client and of the interrupt change none of what the        *)
(* invariant relates.                                                      *)
LEMMA Elsewhere ==
  ASSUME IInv, UNCHANGED <<device, ring, phase, initHead, task, got>>
  PROVE  (RingOK(tail) /\ RxOK /\ InitOK /\ TaskOK /\ RetryOK)'
<1>1. UNCHANGED <<rxbuf, rxBlocked, retry, dev>> BY DEF device
<1>2. Stored' = Stored BY <1>1 DEF Stored
<1>3. RingOK(tail)' BY <1>1, <1>2, RingKept DEF IInv
<1>4. InitOK' BY <1>1, <1>2, InitKept DEF IInv
<1>5. TaskOK' BY TaskKept DEF IInv
<1>6. RxOK' /\ RetryOK' BY <1>1 DEF IInv, RxOK, RetryOK
<1> QED BY <1>3, <1>4, <1>5, <1>6

-----------------------------------------------------------------------------
(* The chardev's client.                                                   *)
LEMMA ClientStep == ASSUME IInv, Client PROVE IInv'
<1>1. UNCHANGED <<device, ring, phase, initHead, task, got>>
  BY DEF Client, ClientConnect, ClientCrash, ClientSend, guest
<1>2. TypeOK'
  <2>1. CASE ClientConnect
    BY <2>1 DEF ClientConnect, IInv, TypeOK, faults, device, ring, guest
  <2>2. CASE ClientCrash
    <3>1. PICK n \in 0 .. Len(wire) : wire' = Take(wire, n)
      BY <2>2 DEF ClientCrash
    <3>2. wire' \in Seq(Cells) BY <3>1, TakeType DEF IInv, TypeOK
    <3>3. crashes' \in 0 .. MaxCrashes
      BY <2>2, H2GAssumption DEF ClientCrash, IInv, TypeOK
    <3> QED
      BY <2>2, <3>2, <3>3
      DEF ClientCrash, IInv, TypeOK, device, ring, guest
  <2>3. CASE \E f \in Frames : ClientSend(f)
    <3>1. PICK f \in Frames : ClientSend(f) BY <2>3
    <3>2. Bytes(f) \in Seq(Cells) BY BytesType
    <3>3. wire' \in Seq(Cells)
      BY <3>1, <3>2, ConcatProperties DEF ClientSend, IInv, TypeOK
    <3> QED
      BY <3>1, <3>3 DEF ClientSend, IInv, TypeOK, faults, device, ring, guest
  <2> QED BY <2>1, <2>2, <2>3 DEF Client
<1> QED BY <1>1, <1>2, Elsewhere DEF IInv

(* The main loop takes bytes from the socket, or the timer fires.          *)
LEMMA IntakeStep == ASSUME IInv, RxChunk \/ RetryFire PROVE IInv'
<1> USE DEF IInv
<1>1. /\ dev = "idle" /\ dev' = "deliver"
      /\ UNCHANGED <<faults, conn, rxBlocked, ring, irq, guest>>
  BY DEF RxChunk, RetryFire, client
<1>2. /\ rxbuf' \in Seq(Cells) /\ Len(rxbuf') <= RxBuf
      /\ wire' \in Seq(Cells)
  <2>1. CASE RxChunk
    <3>1. PICK n \in 1 .. Min2(Len(wire), RxBuf - Len(rxbuf)) :
            /\ rxbuf' = rxbuf \o Take(wire, n)
            /\ wire' = Drop(wire, n)
      BY <2>1 DEF RxChunk
    <3>2. /\ wire \in Seq(Cells) /\ rxbuf \in Seq(Cells)
          /\ Len(wire) \in Nat /\ Len(rxbuf) \in Nat /\ RxBuf \in Nat
      BY H2GAssumption DEF TypeOK
    <3>3. n \in 0 .. Len(wire) /\ Len(rxbuf) + n <= RxBuf
      BY <3>2 DEF Min2
    <3>4. Take(wire, n) \in Seq(Cells) /\ Len(Take(wire, n)) = n
      BY <3>2, <3>3, TakeType
    <3>5. Drop(wire, n) \in Seq(Cells) BY <3>2, <3>3, DropType
    <3>6. /\ rxbuf \o Take(wire, n) \in Seq(Cells)
          /\ Len(rxbuf \o Take(wire, n)) = Len(rxbuf) + n
      BY <3>2, <3>4, ConcatProperties
    <3> QED BY <3>1, <3>3, <3>5, <3>6
  <2>2. CASE RetryFire
    BY <2>2 DEF RetryFire, client, TypeOK, RxOK
  <2> QED BY <2>1, <2>2
<1>3. retry' = FALSE BY <1>1 DEF RxChunk, RetryFire, RetryOK
<1>4. TypeOK'
  BY <1>1, <1>2, <1>3 DEF TypeOK, faults, ring, guest
<1>5. Stored' = << >> /\ Stored = << >> BY <1>1 DEF Stored
<1>6. RingOK(tail)' BY <1>1, <1>5 DEF RingOK, ring
<1>7. InitOK' BY <1>1, <1>5 DEF InitOK, RingOK, ring, guest
<1>8. TaskOK' BY <1>1, TaskKept DEF guest
<1>9. RxOK' /\ RetryOK' BY <1>1, <1>2, <1>3 DEF RxOK, RetryOK
<1> QED BY <1>4, <1>6, <1>7, <1>8, <1>9

(* rx_deliver's three ways out.                                            *)
LEMMA DeliverOut ==
  ASSUME IInv, DeliverOversized \/ DeliverDone \/ DeliverPark
  PROVE  IInv'
<1> USE DEF IInv
<1>1. /\ dev = "deliver" /\ dev' = "idle"
      /\ UNCHANGED <<faults, client, ring, irq, guest>>
      /\ rxbuf' = rxbuf \/ rxbuf' = << >>
      /\ rxBlocked' \in BOOLEAN /\ retry' = rxBlocked'
  BY DEF DeliverOversized, DeliverDone, DeliverPark, TypeOK, RetryOK
<1>2. rxbuf' \in Seq(Cells) /\ Len(rxbuf') <= RxBuf
  <2>1. << >> \in Seq(Cells) /\ Len(<< >>) = 0 /\ 0 <= RxBuf BY Constants
  <2> QED BY <1>1, <2>1 DEF TypeOK, RxOK
<1>3. TypeOK' BY <1>1, <1>2 DEF TypeOK, faults, client, ring, guest
<1>4. Stored' = << >> /\ Stored = << >> BY <1>1 DEF Stored
<1>5. RingOK(tail)' BY <1>1, <1>4 DEF RingOK, ring
<1>6. InitOK' BY <1>1, <1>4 DEF InitOK, RingOK, ring, guest
<1>7. TaskOK' BY <1>1, TaskKept DEF guest
<1>8. RxOK' /\ RetryOK' BY <1>1, <1>2 DEF RxOK, RetryOK
<1> QED BY <1>3, <1>5, <1>6, <1>7, <1>8

(* h2g_push stores the frame's bytes: for a reader at tail, and for one at *)
(* the tail stub_ipc_init is about to set, they are behind the contents.   *)
LEMMA PushBytesStep == ASSUME IInv, PushBytes PROVE IInv'
<1> USE DEF IInv
<1> DEFINE n == ParsedLen(rxbuf[1])
           f == Take(rxbuf, n)
<1>1. /\ dev = "deliver" /\ dev' = "publish" /\ HasFrame(rxbuf)
      /\ Space(head, tail) >= n
      /\ data' = Put(data, head, f)
      /\ UNCHANGED <<faults, client, rxbuf, rxBlocked, retry, head, tail, irq,
                     guest>>
  BY DEF PushBytes
<1>2. Len(rxbuf) >= Hdr /\ n <= Len(rxbuf)
  <2>1. rxbuf \in Seq(Cells) BY DEF TypeOK
  <2>2. rxbuf[1] \in Cells BY <1>1, <2>1, Constants DEF HasFrame
  <2>3. n \in Nat BY <2>2, ParsedLenType
  <2> QED BY <1>1, <2>1, <2>3, Constants DEF HasFrame
<1>3. n \in 1 .. RingData /\ f \in Seq(Cells) /\ Len(f) = n /\ f # << >>
  BY <1>2, FrontFrame
<1>4. /\ data \in Data /\ head \in Counter /\ tail \in Counter
      /\ initHead \in Counter
  BY DEF TypeOK, Data
<1> HIDE DEF f, n
<1>5. data' \in Data
  <2>1. f \in Seq(Cells \cup {NoCell}) BY <1>3
  <2> QED BY <1>1, <1>4, <2>1, PutType DEF Data
<1>6. Stored = << >> /\ Stored' = f BY <1>1 DEF Stored, f, n
<1>7. Holds(data, head, tail, << >>) BY <1>6 DEF RingOK
<1>8. Holds(data', head, tail, f) BY <1>1, <1>3, <1>4, <1>7, HoldsStore
<1>9. RingOK(tail)' BY <1>1, <1>6, <1>8 DEF RingOK
<1>10. InitOK'
  <2>1. SUFFICES ASSUME phase = "init"
                 PROVE  /\ Holds(data', head, initHead, f)
                        /\ Used(head, initHead) <= Used(head, tail)
    BY <1>1, <1>6 DEF InitOK, RingOK, guest
  <2>2. /\ Holds(data, head, initHead, << >>)
        /\ Used(head, initHead) <= Used(head, tail)
    BY <1>6, <2>1 DEF InitOK, RingOK
  <2>3. << >> \in Seq(Cells) OBVIOUS
  <2>4. Used(head, initHead) \in 0 .. RingData /\ Used(head, tail) \in 0 .. RingData
    BY <1>4, <1>7, <2>2, <2>3, HoldsUsed
  <2>5. n <= Space(head, initHead)
    BY <1>1, <1>3, <2>2, <2>4, Sizes DEF Space
  <2> QED BY <1>1, <1>3, <1>4, <2>2, <2>5, HoldsStore
<1>11. TaskOK'
  <2>1. Contents(data', head, tail) = Contents(data, head, tail)
    <3>1. << >> \in Seq(Cells) OBVIOUS
    <3>2. Used(head, tail) \in 0 .. RingData BY <1>4, <1>7, <3>1, HoldsUsed
    <3>3. data \in [Slots -> Cells \cup {NoCell}] /\ f \in Seq(Cells \cup {NoCell})
      BY <1>3, <1>4 DEF Data
    <3>4. Len(f) <= Space(head, tail) /\ Used(head, tail) <= RingData
      BY <1>1, <1>3, <3>2, Sizes DEF Space
    <3> QED BY <1>1, <1>4, <3>3, <3>4, PutKeeps
  <2> QED BY <1>1, <2>1 DEF TaskOK, guest
<1>12. RxOK' /\ RetryOK' BY <1>1, <1>2 DEF RxOK, RetryOK, n
<1>13. TypeOK' BY <1>1, <1>5 DEF TypeOK, faults, client, guest, Data
<1> QED BY <1>9, <1>10, <1>11, <1>12, <1>13

(* h2g_push advances head: what was stored becomes contents.               *)
LEMMA PushHeadStep == ASSUME IInv, PushHead PROVE IInv'
<1> USE DEF IInv
<1> DEFINE n == ParsedLen(rxbuf[1])
           f == Take(rxbuf, n)
<1>1. /\ dev = "publish" /\ dev' = "signal"
      /\ head' = Advance(head, n)
      /\ UNCHANGED <<faults, client, rxbuf, rxBlocked, retry, tail, data, irq,
                     guest>>
  BY DEF PushHead
<1>2. Len(rxbuf) >= Hdr /\ n <= Len(rxbuf) BY <1>1 DEF RxOK
<1>3. /\ n \in 1 .. RingData /\ f \in Seq(Cells) /\ Len(f) = n /\ f # << >>
      /\ ParsedLen(f[1]) = n
  BY <1>2, FrontFrame
<1>4. /\ data \in Data /\ head \in Counter /\ tail \in Counter
      /\ initHead \in Counter
  BY DEF TypeOK, Data
<1>5. Stored = f /\ Stored' = << >> BY <1>1 DEF Stored
<1> HIDE DEF f, n
<1>6. Holds(data, head, tail, f) BY <1>5 DEF RingOK
<1>7. /\ Holds(data, head', tail, << >>)
      /\ Used(head', tail) = Used(head, tail) + n
  BY <1>1, <1>3, <1>4, <1>6, HoldsPublish
<1>8. head' \in Counter
  <2>1. n \in 0 .. RingData BY <1>3
  <2> QED BY <1>1, <1>4, <2>1, AdvanceType
<1>9. RingOK(tail)' BY <1>1, <1>5, <1>7 DEF RingOK
<1>10. InitOK'
  <2>1. SUFFICES ASSUME phase = "init"
                 PROVE  /\ Holds(data, head', initHead, << >>)
                        /\ Used(head', initHead) <= Used(head', tail)
    BY <1>1, <1>5 DEF InitOK, RingOK, guest
  <2>2. /\ Holds(data, head, initHead, f)
        /\ Used(head, initHead) <= Used(head, tail)
    BY <1>5, <2>1 DEF InitOK, RingOK
  <2>3. /\ Holds(data, head', initHead, << >>)
        /\ Used(head', initHead) = Used(head, initHead) + n
    BY <1>1, <1>3, <1>4, <2>2, HoldsPublish
  <2>4. Used(head, initHead) \in Int /\ Used(head, tail) \in Int /\ n \in Int
    BY <1>3, <1>4, UsedType
  <2> QED BY <1>7, <2>2, <2>3, <2>4
<1>11. TaskOK'
  <2>1. task = "retire" =>
          /\ head' # tail
          /\ Contents(data, head', tail)[1] = Contents(data, head, tail)[1]
    <3> SUFFICES ASSUME task = "retire"
                 PROVE  /\ head' # tail
                        /\ Contents(data, head', tail)[1] = Contents(data, head, tail)[1]
      OBVIOUS
    <3>1. head # tail BY DEF TaskOK
    <3>2. Contents(data, head, tail)[1] = data[Slot(tail)]
      BY <1>3, <1>4, <1>6, <3>1, FrontCell
    <3>3. Used(head, tail) \in 0 .. RingData BY <1>3, <1>4, <1>6, HoldsUsed
    <3>4. Used(head', tail) # 0 BY <1>3, <1>7, <3>3, Sizes
    <3>5. head' # tail BY <1>4, <1>8, <3>4, UsedZero
    <3>6. << >> \in Seq(Cells) OBVIOUS
    <3>7. Contents(data, head', tail)[1] = data[Slot(tail)]
      BY <1>4, <1>7, <1>8, <3>5, <3>6, FrontCell
    <3> QED BY <3>2, <3>5, <3>7
  <2> QED BY <1>1, <2>1 DEF TaskOK, guest
<1>12. RxOK' /\ RetryOK' BY <1>1, <1>2 DEF RxOK, RetryOK, n
<1>13. TypeOK' BY <1>1, <1>8 DEF TypeOK, faults, client, guest
<1> QED BY <1>9, <1>10, <1>11, <1>12, <1>13

(* h2g_push raises the interrupt and the frame leaves rxbuf.               *)
LEMMA PushSignalStep == ASSUME IInv, PushSignal PROVE IInv'
<1> USE DEF IInv
<1>1. /\ dev = "signal" /\ dev' = "deliver" /\ irq' = TRUE
      /\ rxbuf' = Drop(rxbuf, ParsedLen(rxbuf[1]))
      /\ UNCHANGED <<faults, client, rxBlocked, retry, ring, guest>>
  BY DEF PushSignal
<1>2. Len(rxbuf) >= Hdr /\ ParsedLen(rxbuf[1]) <= Len(rxbuf)
  BY <1>1 DEF RxOK
<1>3. rxbuf' \in Seq(Cells) /\ Len(rxbuf') <= RxBuf
  BY <1>1, <1>2, FrontFrame
<1>4. Stored' = << >> /\ Stored = << >> BY <1>1 DEF Stored
<1>5. RingOK(tail)' BY <1>1, <1>4 DEF RingOK, ring
<1>6. InitOK' BY <1>1, <1>4 DEF InitOK, RingOK, ring, guest
<1>7. TaskOK' BY <1>1, TaskKept DEF guest
<1>8. RxOK' /\ RetryOK' BY <1>1, <1>3 DEF RxOK, RetryOK
<1>9. TypeOK' BY <1>1, <1>3 DEF TypeOK, faults, client, ring, guest
<1> QED BY <1>5, <1>6, <1>7, <1>8, <1>9

(* System reset.                                                           *)
LEMMA ResetStep == ASSUME IInv, Reset PROVE IInv'
<1> USE DEF IInv
<1>1. /\ dev = "idle" /\ UNCHANGED <<crashes, client, dev>>
      /\ resets < MaxResets /\ resets' = resets + 1
      /\ irq' = FALSE /\ rxbuf' = << >> /\ rxBlocked' = FALSE
      /\ retry' = FALSE /\ head' = 0 /\ tail' = 0 /\ phase' = "off"
      /\ initHead' = 0 /\ posted' = FALSE /\ task' = "off" /\ got' = << >>
      /\ data' = [s \in Slots |-> NoCell]
  BY DEF Reset
<1>2. data' \in [Slots -> Cells \cup {NoCell}] BY <1>1
<1>3. << >> \in Seq(Cells) /\ Len(<< >>) = 0 OBVIOUS
<1>4. resets' \in 0 .. MaxResets BY <1>1, H2GAssumption DEF TypeOK
<1>5. TypeOK' BY <1>1, <1>2, <1>3, <1>4, Constants DEF TypeOK, client
<1>6. RingOK(tail)'
  <2>1. Stored' = << >> BY <1>1 DEF Stored
  <2>2. Holds(data', 0, 0, << >>) BY <1>2, Constants, HoldsEmpty DEF Data
  <2> QED BY <1>1, <2>1, <2>2 DEF RingOK
<1>7. RxOK' BY <1>1, <1>3, Constants DEF RxOK
<1>8. InitOK' /\ TaskOK' /\ RetryOK' BY <1>1 DEF InitOK, TaskOK, RetryOK
<1> QED BY <1>5, <1>6, <1>7, <1>8

(* stub_ipc_init loads head, stores it to tail; then rwip_init.            *)
LEMMA BootStep == ASSUME IInv, Boot PROVE IInv'
<1> USE DEF IInv
<1>1. /\ UNCHANGED <<faults, client, device, head, data, irq, posted, got>>
      /\ UNCHANGED <<rxbuf, rxBlocked, retry, dev>>
  BY DEF Boot, StackInitLoad, StackInitStore, RwipInit, ring, device
<1>2. Stored' = Stored BY <1>1 DEF Stored
<1>3. RxOK' /\ RetryOK' BY <1>1 DEF RxOK, RetryOK
<1>4. /\ data \in Data /\ head \in Counter /\ tail \in Counter
      /\ initHead \in Counter
  BY DEF TypeOK, Data
<1>5. TypeOK' /\ RingOK(tail)' /\ InitOK' /\ TaskOK'
  <2>1. CASE StackInitLoad
    <3>1. /\ phase = "off" /\ phase' = "init" /\ initHead' = head
          /\ UNCHANGED <<tail, task>>
      BY <2>1 DEF StackInitLoad, ring
    <3>2. Stored \in Seq(Cells) BY StoredType
    <3>3. Holds(data, head, head, Stored)
      BY <1>4, <3>2, HoldsSkip DEF RingOK
    <3>4. Used(head, head) <= Used(head, tail)
      <4>1. Used(head, head) = 0 BY <1>4, UsedZero
      <4>2. Used(head, tail) >= 0 BY <1>4, UsedType, Sizes
      <4> QED BY <4>1, <4>2
    <3>5. InitOK' BY <1>1, <1>2, <3>1, <3>3, <3>4 DEF InitOK, RingOK
    <3>6. RingOK(tail)' BY <1>1, <1>2, <3>1 DEF RingOK
    <3>7. TaskOK' BY <1>1, <3>1 DEF TaskOK
    <3>8. TypeOK' BY <1>1, <1>4, <3>1 DEF TypeOK, faults, client
    <3> QED BY <3>5, <3>6, <3>7, <3>8
  <2>2. CASE StackInitStore
    <3>1. /\ phase = "init" /\ phase' = "stack" /\ tail' = initHead
          /\ UNCHANGED <<initHead, task>>
      BY <2>2 DEF StackInitStore
    <3>2. RingOK(initHead) BY <3>1 DEF InitOK
    <3>3. RingOK(tail)' BY <1>1, <1>2, <3>1, <3>2 DEF RingOK
    <3>4. InitOK' BY <3>1 DEF InitOK
    <3>5. TaskOK' BY <3>1 DEF TaskOK
    <3>6. TypeOK' BY <1>1, <1>4, <3>1 DEF TypeOK, faults, client
    <3> QED BY <3>3, <3>4, <3>5, <3>6
  <2>3. CASE RwipInit
    <3>1. /\ phase = "stack" /\ phase' = "up" /\ task' \in {"wait", "loop"}
          /\ UNCHANGED <<ring, initHead, tail>>
      BY <2>3 DEF RwipInit, Resting, ring
    <3>2. RingOK(tail)' BY <1>1, <1>2, <3>1 DEF RingOK
    <3>3. InitOK' /\ TaskOK' BY <3>1 DEF InitOK, TaskOK
    <3>4. TypeOK' BY <1>1, <3>1 DEF TypeOK, faults, client
    <3> QED BY <3>2, <3>3, <3>4
  <2> QED BY <2>1, <2>2, <2>3 DEF Boot
<1> QED BY <1>3, <1>5

(* The interrupt handler, and the task outside rwip_process.               *)
LEMMA WakeStep ==
  ASSUME IInv, CaptureIsr \/ TaskTakeEvent \/ TaskWfi \/ RecvNothing
  PROVE  IInv'
<1> USE DEF IInv
<1>1. /\ UNCHANGED <<faults, client, device, ring, phase, initHead, got>>
      /\ UNCHANGED <<rxbuf, rxBlocked, retry, dev, data, head, tail>>
      /\ irq' \in BOOLEAN /\ posted' \in BOOLEAN
  BY DEF CaptureIsr, TaskTakeEvent, TaskWfi, RecvNothing, device, ring, TypeOK
<1>2. /\ task' \in {"off", "wait", "loop", "wfi", "test", "recv", "retire", "dispatch"}
      /\ task' = "off" <=> task = "off"
      /\ task' = "retire" => task = "retire"
      /\ task' = "dispatch" => task = "dispatch"
  BY DEF CaptureIsr, TaskTakeEvent, TaskWfi, RecvNothing, Resting, TypeOK
<1>3. Stored' = Stored BY <1>1 DEF Stored
<1>4. RingOK(tail)' BY <1>1, <1>3, RingKept
<1>5. InitOK' BY <1>1, <1>3, InitKept
<1>6. TaskOK' BY <1>1, <1>2 DEF TaskOK
<1>7. RxOK' /\ RetryOK' BY <1>1 DEF RxOK, RetryOK
<1>8. TypeOK' BY <1>1, <1>2 DEF TypeOK, faults, client
<1> QED BY <1>4, <1>5, <1>6, <1>7, <1>8

(* stub_ipc_recv copies a frame, retires it, rwip_process dispatches it.   *)
LEMMA RecvStep ==
  ASSUME IInv, RecvCopy \/ RecvRetire \/ Dispatch
  PROVE  IInv'
<1> USE DEF IInv
<1>1. /\ UNCHANGED <<faults, client, device, head, data, irq, phase, initHead,
                     posted>>
      /\ UNCHANGED <<rxbuf, rxBlocked, retry, dev>>
  BY DEF RecvCopy, RecvRetire, Dispatch, ring, device
<1>2. phase = "up" /\ phase' = "up"
  BY <1>1 DEF RecvCopy, RecvRetire, Dispatch, TaskOK
<1>3. Stored' = Stored BY <1>1 DEF Stored
<1>4. RxOK' /\ RetryOK' BY <1>1 DEF RxOK, RetryOK
<1>5. InitOK' BY <1>2 DEF InitOK
<1>6. TypeOK' /\ RingOK(tail)' /\ TaskOK'
  <2>1. CASE RecvCopy
    <3>1. /\ RingHasFrame /\ got' = Get(data, tail, FrontLen)
          /\ task' = "retire" /\ tail' = tail
      BY <2>1 DEF RecvCopy, ring
    <3>2. head # tail
      <4>1. Used(head, tail) >= Hdr BY <3>1 DEF RingHasFrame
      <4>2. Used(head, tail) # 0 BY <4>1, Constants
      <4> QED BY <4>2, UsedZero DEF TypeOK
    <3>3. /\ got' \in Seq(Cells)
          /\ Len(got') = ParsedLen(Contents(data, head, tail)[1])
      BY <3>1, <3>2, ReaderFinds
    <3>4. TaskOK' BY <1>1, <1>2, <3>1, <3>2, <3>3 DEF TaskOK
    <3>5. RingOK(tail)' BY <1>1, <1>3, <3>1 DEF RingOK
    <3>6. TypeOK' BY <1>1, <3>1, <3>3 DEF TypeOK, faults, client
    <3> QED BY <3>4, <3>5, <3>6
  <2>2. CASE RecvRetire
    <3>1. /\ task = "retire" /\ task' = "dispatch" /\ got' = got
          /\ tail' = Advance(tail, Len(got))
      BY <2>2 DEF RecvRetire
    <3>2. head # tail /\ Len(got) = ParsedLen(Contents(data, head, tail)[1])
      BY <3>1 DEF TaskOK
    <3>3. /\ FrontLen \in 1 .. RingData /\ Len(got) = FrontLen
          /\ Advance(tail, FrontLen) \in Counter
          /\ RingOK(Advance(tail, FrontLen))
      BY <3>2, ReaderFinds
    <3>4. got # << >>
      <4>1. Len(got) # 0 BY <3>3, Sizes
      <4> QED BY <4>1
    <3>5. tail' \in Counter /\ RingOK(tail') BY <3>1, <3>3
    <3>6. RingOK(tail)' BY <1>1, <1>3, <3>5 DEF RingOK
    <3>7. TaskOK' BY <1>2, <3>1, <3>4 DEF TaskOK
    <3>8. TypeOK' BY <1>1, <3>1, <3>5 DEF TypeOK, faults, client
    <3> QED BY <3>6, <3>7, <3>8
  <2>3. CASE Dispatch
    <3>1. /\ task' \in {"wait", "loop", "recv"} /\ got' = << >> /\ tail' = tail
      BY <2>3 DEF Dispatch, Resting, ring
    <3>2. TaskOK' BY <1>2, <3>1 DEF TaskOK
    <3>3. RingOK(tail)' BY <1>1, <1>3, <3>1 DEF RingOK
    <3>4. << >> \in Seq(Cells) OBVIOUS
    <3>5. TypeOK' BY <1>1, <3>1, <3>4 DEF TypeOK, faults, client
    <3> QED BY <3>2, <3>3, <3>5
  <2> QED BY <2>1, <2>2, <2>3
<1> QED BY <1>4, <1>5, <1>6

LEMMA StepInv == IInv /\ [Next]_vars => IInv'
<1> SUFFICES ASSUME IInv, [Next]_vars PROVE IInv' OBVIOUS
<1>1. CASE Client BY <1>1, ClientStep
<1>2. CASE RxChunk \/ RetryFire BY <1>2, IntakeStep
<1>3. CASE DeliverOversized \/ DeliverDone \/ DeliverPark BY <1>3, DeliverOut
<1>4. CASE PushBytes BY <1>4, PushBytesStep
<1>5. CASE PushHead BY <1>5, PushHeadStep
<1>6. CASE PushSignal BY <1>6, PushSignalStep
<1>7. CASE Reset BY <1>7, ResetStep
<1>8. CASE Boot BY <1>8, BootStep
<1>9. CASE CaptureIsr \/ TaskTakeEvent \/ TaskWfi \/ RecvNothing
  BY <1>9, WakeStep
<1>10. CASE RecvCopy \/ RecvRetire \/ Dispatch BY <1>10, RecvStep
<1>11. CASE UNCHANGED vars
  <2>1. UNCHANGED <<faults, client, device, ring, irq, guest>>
    BY <1>11 DEF vars
  <2>2. TypeOK'
    BY <2>1 DEF IInv, TypeOK, faults, client, device, ring, guest
  <2>3. UNCHANGED <<device, ring, phase, initHead, task, got>>
    BY <2>1 DEF guest
  <2> QED BY <2>2, <2>3, Elsewhere DEF IInv
<1> QED
  BY <1>1, <1>2, <1>3, <1>4, <1>5, <1>6, <1>7, <1>8, <1>9, <1>10, <1>11
  DEF Next, MainLoop, Deliver, BleTask

-----------------------------------------------------------------------------
(* What the invariant says of the properties.                              *)
LEMMA InvSafety ==
  ASSUME IInv
  PROVE  NoOverrun /\ RingHoldsWholeFrames /\ ParkedIsPolled
<1> USE DEF IInv
<1>1. /\ data \in Data /\ head \in Counter /\ tail \in Counter
      /\ Stored \in Seq(Cells) /\ Holds(data, head, tail, Stored)
  BY StoredType DEF TypeOK, Data, RingOK
<1>2. NoOverrun
  <2>1. Used(head, tail) + Len(Stored) <= RingData BY <1>1 DEF Holds
  <2>2. CASE dev = "publish"
    <3>1. Len(rxbuf) >= Hdr /\ ParsedLen(rxbuf[1]) <= Len(rxbuf)
      BY <2>2 DEF RxOK
    <3>2. Len(Stored) = ParsedLen(rxbuf[1]) BY <2>2, <3>1, FrontFrame DEF Stored
    <3> QED BY <2>1, <2>2, <3>2 DEF NoOverrun
  <2>3. CASE dev # "publish"
    <3>1. Len(Stored) = 0 BY <2>3 DEF Stored
    <3> QED BY <2>1, <2>3, <3>1 DEF NoOverrun
  <2> QED BY <2>2, <2>3
<1>3. RingHoldsWholeFrames BY ReaderFinds DEF RingHoldsWholeFrames
<1>4. ParkedIsPolled BY DEF RetryOK, ParkedIsPolled
<1> QED BY <1>2, <1>3, <1>4

LEMMA SpecInv == Spec => []IInv
<1>1. Init => IInv BY InitInv
<1>2. IInv /\ [Next]_vars => IInv' BY StepInv
<1> QED BY <1>1, <1>2, PTL DEF Spec

(***************************************************************************)
(* Types, in particular that both counters stay 32-bit counters: the       *)
(* stores of halo_ble.c and stub_ipc.c keep head and tail in range.        *)
(***************************************************************************)
THEOREM TypeCorrect == Spec => []TypeOK
<1>1. IInv => TypeOK BY DEF IInv
<1> QED BY <1>1, SpecInv, PTL

(***************************************************************************)
(* h2g_push never overwrites a byte the guest has not retired, for every   *)
(* ring size that divides the counters' modulus and every frame that fits  *)
(* rxbuf, across resets in any state of the boot.                          *)
(***************************************************************************)
THEOREM RingNeverOverrun == Spec => []NoOverrun
<1>1. IInv => NoOverrun BY InvSafety
<1> QED BY <1>1, SpecInv, PTL

(***************************************************************************)
(* stub_ipc_recv finds the ring empty or a whole frame at its front.       *)
(***************************************************************************)
THEOREM GuestFindsWholeFrames == Spec => []RingHoldsWholeFrames
<1>1. IInv => RingHoldsWholeFrames BY InvSafety
<1> QED BY <1>1, SpecInv, PTL

(***************************************************************************)
(* Between main-loop callbacks the chardev is throttled exactly when the   *)
(* retry timer is armed.                                                   *)
(***************************************************************************)
THEOREM ParkedFramesArePolled == Spec => []ParkedIsPolled
<1>1. IInv => ParkedIsPolled BY InvSafety
<1> QED BY <1>1, SpecInv, PTL

-----------------------------------------------------------------------------
(***************************************************************************)
(* No lost wakeup, under what the refuted runs show it needs: a BLE task   *)
(* that blocks on its event instead of testing a flag before WFI, and no   *)
(* frame whose op is 0.                                                    *)
(***************************************************************************)
NoBusyTest == TaskBlocks = TRUE /\ ZeroOp = {}

LEMMA WakeupStep ==
  ASSUME NoBusyTest, WakeupInv, [Next]_vars
  PROVE  WakeupInv'
<1>1. IInv /\ IInv'
  BY StepInv DEF WakeupInv
<1>2. TypeOK /\ TaskOK BY <1>1 DEF IInv
<1>3. Resting = "wait" BY DEF NoBusyTest, Resting
<1>4. /\ task' \notin {"loop", "wfi", "test"} /\ NoLostWakeup'
      /\ phase' # "up" /\ head' # tail' => dev' = "signal" \/ irq'
  <2> USE DEF WakeupInv, NoLostWakeup, WakeupOwed
  <2>1. CASE Client
    BY <2>1 DEF Client, ClientConnect, ClientCrash, ClientSend, device, ring, guest
  <2>2. CASE RxChunk \/ RetryFire \/ DeliverOversized \/ DeliverDone \/ DeliverPark
    BY <2>2 DEF RxChunk, RetryFire, DeliverOversized, DeliverDone, DeliverPark,
                ring, guest
  <2>3. CASE PushBytes \/ PushHead
    BY <2>3 DEF PushBytes, PushHead, guest
  <2>4. CASE PushSignal
    BY <2>4 DEF PushSignal, guest, ring
  <2>5. CASE Reset
    BY <2>5 DEF Reset
  <2>6. CASE Boot
    <3>1. CASE StackInitLoad \/ RwipInit
      BY <1>3, <3>1 DEF StackInitLoad, RwipInit, device, ring
    <3>2. CASE StackInitStore
      <4>1. InitOK /\ phase = "init" BY <1>1, <3>2 DEF IInv, StackInitStore
      <4>2. Used(head, initHead) <= Used(head, tail) BY <4>1 DEF InitOK
      <4>3. head \in Counter /\ tail \in Counter /\ initHead \in Counter
        BY <1>2 DEF TypeOK
      <4>4. head # initHead => head # tail
        <5>1. Used(head, initHead) \in Nat /\ Used(head, tail) \in Nat
          BY <4>3, UsedType, Sizes
        <5> QED BY <4>2, <4>3, <5>1, UsedZero
      <4> QED BY <3>2, <4>1, <4>4 DEF StackInitStore, device
    <3> QED BY <2>6, <3>1, <3>2 DEF Boot
  <2>7. CASE CaptureIsr \/ TaskTakeEvent \/ TaskWfi
    BY <2>7 DEF CaptureIsr, TaskTakeEvent, TaskWfi, device, ring
  <2>8. CASE RecvNothing
    <3>1. ~RingHasFrame /\ task = "recv" /\ task' = "wait"
          /\ UNCHANGED <<ring, device, irq, posted, phase>>
      BY <1>3, <2>8 DEF RecvNothing
    <3>2. head = tail BY <1>1, <3>1, InvSafety DEF RingHoldsWholeFrames
    <3> QED BY <3>1, <3>2 DEF ring
  <2>9. CASE RecvCopy \/ RecvRetire \/ Dispatch
    <3>1. /\ task \in {"recv", "retire", "dispatch"}
          /\ task' \in {"recv", "retire", "dispatch"}
          /\ phase' = phase
      BY <2>9 DEF RecvCopy, RecvRetire, Dispatch, NoBusyTest
    <3>2. phase = "up" BY <1>2, <3>1 DEF TaskOK
    <3> QED BY <3>1, <3>2
  <2>10. CASE UNCHANGED vars
    BY <2>10 DEF vars, guest, ring, device
  <2> QED
    BY <2>1, <2>2, <2>3, <2>4, <2>5, <2>6, <2>7, <2>8, <2>9, <2>10
    DEF Next, MainLoop, Deliver, BleTask
<1> QED BY <1>1, <1>4 DEF WakeupInv

(***************************************************************************)
(* h2g_push raises the interrupt after head, the handler clears it before  *)
(* it posts, and rwip_process drains until the ring is empty: so a frame   *)
(* in the ring of a running guest is always owed a run of rwip_process.    *)
(***************************************************************************)
THEOREM WakeupNeverLost == NoBusyTest => (Spec => []NoLostWakeup)
<1> SUFFICES ASSUME NoBusyTest PROVE Spec => []NoLostWakeup OBVIOUS
<1>1. Init => WakeupInv
  BY InitInv DEF Init, WakeupInv, NoLostWakeup
<1>2. WakeupInv /\ [Next]_vars => WakeupInv' BY WakeupStep
<1>3. WakeupInv => NoLostWakeup BY DEF WakeupInv
<1> QED BY <1>1, <1>2, <1>3, PTL DEF Spec

-----------------------------------------------------------------------------
(***************************************************************************)
(* The refinement of FrameStream.  Its queue skips the frame stub_ipc_recv *)
(* has copied and not retired: that frame is still the ring's front.       *)
(***************************************************************************)
InRing == Contents(data, head, tail)

GotOK ==
  /\ task \notin {"retire", "dispatch"} => got = << >>
  /\ task = "retire" => \E rest \in Seq(Cells) : InRing = got \o rest

(* What has left the socket, and the whole queue.                          *)
Inside == RingView \o RxView

Queue == Inside \o wire

(* The rows the queue is made of.                                          *)
LEMMA Views ==
  ASSUME IInv, GotOK
  PROVE  /\ InRing \in Seq(Cells) /\ got \in Seq(Cells)
         /\ RingView \in Seq(Cells) /\ RxView \in Seq(Cells)
         /\ wire \in Seq(Cells) /\ Inside \in Seq(Cells)
         /\ InRing = IF task = "retire" THEN got \o RingView ELSE RingView
<1>1. InRing \in Seq(Cells) /\ got \in Seq(Cells) /\ wire \in Seq(Cells)
  BY DEF IInv, RingOK, Holds, TypeOK, InRing
<1>2. /\ RingView \in Seq(Cells)
      /\ InRing = IF task = "retire" THEN got \o RingView ELSE RingView
  <2>1. CASE task = "retire"
    <3>1. PICK rest \in Seq(Cells) : InRing = got \o rest
      BY <2>1 DEF GotOK
    <3>2. Drop(InRing, Len(got)) = rest BY <1>1, <3>1, Ends
    <3>3. RingView = rest BY <2>1, <3>2 DEF RingView, InRing
    <3> QED BY <2>1, <3>1, <3>3
  <2>2. CASE task # "retire" BY <1>1, <2>2 DEF RingView, InRing
  <2> QED BY <2>1, <2>2
<1>3. RxView \in Seq(Cells)
  <2>1. CASE dev = "signal"
    <3>1. Len(rxbuf) >= Hdr /\ ParsedLen(rxbuf[1]) <= Len(rxbuf)
      BY <2>1 DEF IInv, RxOK
    <3>2. Drop(rxbuf, ParsedLen(rxbuf[1])) \in Seq(Cells)
      BY <3>1, FrontFrame DEF IInv
    <3> QED BY <2>1, <3>2 DEF RxView
  <2>2. CASE dev # "signal" BY <2>2 DEF RxView, IInv, TypeOK
  <2> QED BY <2>1, <2>2
<1>4. Inside \in Seq(Cells) BY <1>2, <1>3, ConcatProperties DEF Inside
<1> QED BY <1>1, <1>2, <1>3, <1>4

(* Outside rwip_process's loop body nothing is in hand.                    *)
LEMMA NothingInHand ==
  ASSUME IInv, GotOK, phase # "up" \/ task \notin {"retire", "dispatch"}
  PROVE  /\ got = << >> /\ task \notin {"retire", "dispatch"}
         /\ RingView = InRing
<1>1. task \notin {"retire", "dispatch"} BY DEF IInv, TaskOK
<1> QED BY <1>1 DEF GotOK, RingView, InRing

(* Steps the queue does not see.                                           *)
LEMMA StillStep ==
  ASSUME IInv, GotOK,
         \/ RetryFire \/ DeliverDone \/ DeliverPark \/ PushSignal
         \/ StackInitLoad \/ CaptureIsr \/ TaskTakeEvent \/ TaskWfi
         \/ RecvNothing \/ UNCHANGED vars
  PROVE  GotOK' /\ UNCHANGED Stream!vars
<1>1. UNCHANGED <<conn, wire, head, tail, data, got>>
  BY DEF RetryFire, DeliverDone, DeliverPark, PushSignal, StackInitLoad,
         CaptureIsr, TaskTakeEvent, TaskWfi, RecvNothing, vars, client, ring,
         guest
<1>2. InRing' = InRing BY <1>1 DEF InRing
<1>3. RxView' = RxView
  <2>1. CASE PushSignal BY <2>1 DEF PushSignal, RxView
  <2>2. CASE RetryFire \/ DeliverDone \/ DeliverPark
    BY <2>2 DEF RetryFire, DeliverDone, DeliverPark, RxView
  <2>3. CASE \/ StackInitLoad \/ CaptureIsr \/ TaskTakeEvent \/ TaskWfi
             \/ RecvNothing \/ UNCHANGED vars
    BY <2>3 DEF StackInitLoad, CaptureIsr, TaskTakeEvent, TaskWfi, RecvNothing,
                vars, device, RxView
  <2> QED BY <2>1, <2>2, <2>3
<1>4. /\ task' = "retire" <=> task = "retire"
      /\ task' = "dispatch" <=> task = "dispatch"
  BY DEF RetryFire, DeliverDone, DeliverPark, PushSignal, StackInitLoad,
         CaptureIsr, TaskTakeEvent, TaskWfi, RecvNothing, vars, guest, Resting
<1>5. phase' = "up" <=> phase = "up"
  BY DEF RetryFire, DeliverDone, DeliverPark, PushSignal, StackInitLoad,
         CaptureIsr, TaskTakeEvent, TaskWfi, RecvNothing, vars, guest
<1>6. RingView' = RingView BY <1>1, <1>4 DEF RingView
<1>7. GotOK' BY <1>1, <1>2, <1>4 DEF GotOK
<1>8. (phase = "up")' = (phase = "up") BY <1>5
<1> QED BY <1>1, <1>3, <1>6, <1>7, <1>8 DEF Stream!vars

(* Steps of the client, and the main loop's intake.                        *)
LEMMA WireStep ==
  ASSUME IInv, GotOK, Client \/ RxChunk
  PROVE  GotOK' /\ [Stream!Next]_Stream!vars
<1>1. UNCHANGED <<head, tail, data, got, task, phase>>
  BY DEF Client, ClientConnect, ClientCrash, ClientSend, RxChunk, ring, guest
<1>2. GotOK' BY <1>1 DEF GotOK, InRing
<1>3. RingView' = RingView BY <1>1 DEF RingView
<1>4. /\ RingView \in Seq(Cells) /\ RxView \in Seq(Cells)
      /\ wire \in Seq(Cells) /\ Inside \in Seq(Cells)
  BY Views
<1>5. CASE ClientConnect
  <2>1. ~conn /\ conn' = TRUE /\ UNCHANGED <<wire, rxbuf, dev>>
    BY <1>5 DEF ClientConnect, device
  <2>2. RxView' = RxView BY <2>1 DEF RxView
  <2>3. Stream!Dial BY <1>1, <1>3, <2>1, <2>2 DEF Stream!Dial
  <2> QED BY <1>2, <2>3 DEF Stream!Next
<1>6. CASE \E f \in Frames : ClientSend(f)
  <2>1. PICK f \in Frames : ClientSend(f) BY <1>6
  <2>2. /\ conn /\ wire' = wire \o Bytes(f) /\ UNCHANGED <<conn, rxbuf, dev>>
    BY <2>1 DEF ClientSend, device
  <2>3. RxView' = RxView BY <2>2 DEF RxView
  <2>4. Bytes(f) \in Seq(Cells) BY BytesType
  <2>5. (Inside \o wire) \o Bytes(f) = Inside \o (wire \o Bytes(f))
    BY <1>4, <2>4, Regroup
  <2>6. Inside' = Inside BY <1>3, <2>3 DEF Inside
  <2>7. Queue' = Queue \o Bytes(f) BY <2>2, <2>5, <2>6 DEF Queue
  <2>8. Stream!Send(f)
    BY <1>1, <2>2, <2>7 DEF Stream!Send, Stream!Bytes, Bytes, Queue, Inside
  <2> QED BY <1>2, <2>8 DEF Stream!Next
<1>7. CASE ClientCrash
  <2>1. PICK n \in 0 .. Len(wire) : wire' = Take(wire, n)
    BY <1>7 DEF ClientCrash
  <2>2. conn /\ conn' = FALSE /\ UNCHANGED <<rxbuf, dev>>
    BY <1>7 DEF ClientCrash, device
  <2>3. RxView' = RxView BY <2>2 DEF RxView
  <2> DEFINE rest == Drop(wire, n)
  <2>4. /\ wire' \in Seq(Cells) /\ rest \in Seq(Cells)
        /\ wire = wire' \o rest
    BY <1>4, <2>1, TakeType, DropType, Splits
  <2> HIDE DEF rest
  <2>5. Inside' = Inside BY <1>3, <2>3 DEF Inside
  <2>6. Queue' = Inside \o wire' BY <2>5 DEF Queue
  <2>7. Queue' \in Seq(Cells) BY <1>4, <2>4, <2>6, ConcatProperties
  <2>8. Inside \o (wire' \o rest) = (Inside \o wire') \o rest
    BY <1>4, <2>4, Regroup
  <2>9. Queue = Queue' \o rest BY <2>4, <2>6, <2>8 DEF Queue
  <2>10. Len(Queue') \in 0 .. Len(Queue) /\ Take(Queue, Len(Queue')) = Queue'
    BY <2>4, <2>7, <2>9, Ends
  <2>11. \E k \in 0 .. Len(Queue) : Queue' = Take(Queue, k) BY <2>10
  <2>12. Stream!HangUp
    BY <1>1, <2>2, <2>11 DEF Stream!HangUp, Stream!Take, Take, Queue, Inside
  <2> QED BY <1>2, <2>12 DEF Stream!Next
<1>8. CASE RxChunk
  <2>1. PICK n \in 1 .. Min2(Len(wire), RxBuf - Len(rxbuf)) :
          rxbuf' = rxbuf \o Take(wire, n) /\ wire' = Drop(wire, n)
    BY <1>8 DEF RxChunk
  <2>2. n \in 0 .. Len(wire)
    <3>1. rxbuf \in Seq(Cells) BY DEF IInv, TypeOK
    <3>2. Len(rxbuf) \in Nat /\ Len(wire) \in Nat BY <1>4, <3>1
    <3> QED BY <2>1, <3>2, Constants DEF Min2
  <2>3. dev = "idle" /\ dev' = "deliver" /\ conn' = conn
    BY <1>8 DEF RxChunk
  <2>4. /\ Take(wire, n) \in Seq(Cells) /\ Drop(wire, n) \in Seq(Cells)
        /\ wire = Take(wire, n) \o Drop(wire, n)
    BY <1>4, <2>2, TakeType, DropType, Splits
  <2>5. RxView = rxbuf /\ RxView' = RxView \o Take(wire, n)
    BY <2>1, <2>3 DEF RxView
  <2> DEFINE a == Take(wire, n)
             b == Drop(wire, n)
  <2> HIDE DEF a, b
  <2>6. a \in Seq(Cells) /\ b \in Seq(Cells) BY <2>4 DEF a, b
  <2>7. wire = a \o b /\ RxView' = RxView \o a /\ wire' = b
    BY <2>1, <2>4, <2>5 DEF a, b
  <2>8. (RingView \o RxView) \o a = RingView \o (RxView \o a)
    <3>1. RingView \in Seq(Cells) /\ RxView \in Seq(Cells) BY <1>4
    <3>2. a \in Seq(Cells) BY <2>6
    <3> QED BY <3>1, <3>2, Regroup
  <2>9. Inside' = Inside \o a BY <1>3, <2>7, <2>8 DEF Inside
  <2>10. (Inside \o a) \o b = Inside \o (a \o b)
    BY <1>4, <2>6, Regroup
  <2>11. Queue' = Queue BY <2>7, <2>9, <2>10 DEF Queue
  <2> QED BY <1>1, <1>2, <2>3, <2>11 DEF Stream!vars, Queue, Inside
<1> QED BY <1>5, <1>6, <1>7, <1>8 DEF Client

(* "oversized frame from client, resetting stream"                         *)
LEMMA ResyncStep ==
  ASSUME IInv, GotOK, DeliverOversized
  PROVE  GotOK' /\ [Stream!Next]_Stream!vars
<1>1. /\ UNCHANGED <<conn, wire, head, tail, data, got, task, phase>>
      /\ dev = "deliver" /\ dev' = "idle" /\ rxbuf' = << >>
      /\ Len(rxbuf) >= Hdr /\ ParsedLen(rxbuf[1]) > RxBuf
  BY DEF DeliverOversized, client, ring, guest, Oversized
<1>2. GotOK' BY <1>1 DEF GotOK, InRing
<1>3. RingView' = RingView /\ RxView = rxbuf /\ RxView' = << >>
  BY <1>1 DEF RingView, RxView
<1>4. /\ RingView \in Seq(Cells) /\ rxbuf \in Seq(Cells) /\ wire \in Seq(Cells)
      /\ RingView \o rxbuf \in Seq(Cells)
  BY <1>3, Views, ConcatProperties
<1> DEFINE i == Len(RingView)
           j == Len(RingView \o rxbuf)
           l == rxbuf \o wire
<1>5. l \in Seq(Cells) /\ Queue = RingView \o l
  BY <1>3, <1>4, ConcatProperties, ConcatAssociative DEF Queue, Inside
<1>6. i \in 0 .. Len(Queue) /\ Take(Queue, i) = RingView
  BY <1>4, <1>5, Ends
<1>7. j \in 0 .. Len(Queue) /\ Drop(Queue, j) = wire
  <2>1. Queue = (RingView \o rxbuf) \o wire BY <1>3 DEF Queue, Inside
  <2> QED BY <1>4, <2>1, Ends
<1>8. Queue' = Take(Queue, i) \o Drop(Queue, j)
  <2>1. RingView \o << >> = RingView BY <1>4, ConcatEmptySeq
  <2> QED BY <1>1, <1>3, <1>6, <1>7, <2>1 DEF Queue, Inside
<1>9. Len(rxbuf) \in Nat /\ Len(rxbuf) > 0 /\ Len(RingView) \in Nat
  BY <1>1, <1>4, Constants
<1>10. i < j /\ Queue[i + 1] = rxbuf[1]
  <2>1. j = Len(RingView) + Len(rxbuf) BY <1>4, ConcatProperties
  <2>2. /\ Len(l) = Len(rxbuf) + Len(wire) /\ Len(wire) \in Nat
        /\ \A k \in 1 .. Len(rxbuf) + Len(wire) :
             l[k] = IF k <= Len(rxbuf) THEN rxbuf[k] ELSE wire[k - Len(rxbuf)]
    BY <1>4, ConcatProperties
  <2>3. l[1] = rxbuf[1] BY <1>9, <2>2
  <2> HIDE DEF l
  <2>4. \A k \in 1 .. Len(RingView) + Len(l) :
          Queue[k] = IF k <= Len(RingView) THEN RingView[k]
                     ELSE l[k - Len(RingView)]
    BY <1>4, <1>5, ConcatProperties
  <2>5. /\ i + 1 \in 1 .. Len(RingView) + Len(l)
        /\ ~(i + 1 <= Len(RingView)) /\ (i + 1) - Len(RingView) = 1
    BY <1>9, <2>2
  <2>6. Queue[i + 1] = l[1] BY <2>4, <2>5
  <2> QED BY <1>9, <2>1, <2>3, <2>6
<1>11. ParsedLen(Queue[i + 1]) > RxBuf BY <1>1, <1>10
<1> HIDE DEF i, j
<1>12. \E m, k \in 0 .. Len(Queue) :
         /\ m < k /\ ParsedLen(Queue[m + 1]) > RxBuf
         /\ Queue' = Take(Queue, m) \o Drop(Queue, k)
  BY <1>6, <1>7, <1>8, <1>10, <1>11
<1>13. Stream!Resync
  BY <1>1, <1>12
  DEF Stream!Resync, Stream!Take, Stream!Drop, Stream!ParsedLen, Stream!Starts,
      Take, Drop, ParsedLen, Starts, Queue, Inside
<1> QED BY <1>2, <1>13 DEF Stream!Next

(* h2g_push: the bytes move from rxbuf to the ring.                        *)
LEMMA PushStep ==
  ASSUME IInv, GotOK, PushBytes \/ PushHead
  PROVE  GotOK' /\ UNCHANGED Stream!vars
<1>1. UNCHANGED <<conn, wire, rxbuf, got, task, phase, tail>>
  BY DEF PushBytes, PushHead, client, guest
<1>2. /\ InRing \in Seq(Cells) /\ RingView \in Seq(Cells)
      /\ RxView \in Seq(Cells) /\ wire \in Seq(Cells) /\ got \in Seq(Cells)
      /\ InRing = IF task = "retire" THEN got \o RingView ELSE RingView
  BY Views
<1> DEFINE n == ParsedLen(rxbuf[1])
           p == Take(rxbuf, n)
<1>3. Len(rxbuf) >= Hdr /\ n <= Len(rxbuf)
  <2>1. CASE PushBytes
    <3>1. HasFrame(rxbuf) BY <2>1 DEF PushBytes
    <3>2. Len(rxbuf) \in Nat /\ rxbuf \in Seq(Cells) BY DEF IInv, TypeOK
    <3>3. Len(rxbuf) >= Hdr BY <3>1 DEF HasFrame
    <3>4. n \in Nat BY <3>2, <3>3, Constants, ParsedLenType
    <3> QED BY <3>1, <3>2, <3>4 DEF HasFrame
  <2>2. CASE PushHead BY <2>2 DEF PushHead, IInv, RxOK
  <2> QED BY <2>1, <2>2
<1>4. /\ p \in Seq(Cells) /\ Len(p) = n /\ n \in 0 .. Len(rxbuf)
      /\ rxbuf \in Seq(Cells) /\ Drop(rxbuf, n) \in Seq(Cells)
  BY <1>3, FrontFrame DEF IInv, TypeOK
<1>5. \E more \in Seq(Cells) :
        InRing' = InRing \o more /\ RxView = more \o RxView'
  <2>1. CASE PushBytes
    <3>1. /\ data' = Put(data, head, p) /\ head' = head /\ Space(head, tail) >= n
          /\ dev = "deliver" /\ dev' = "publish"
      BY <2>1 DEF PushBytes
    <3>2. /\ data \in Data /\ head \in Counter /\ tail \in Counter
          /\ Stored = << >>
      BY <3>1 DEF IInv, TypeOK, Data, Stored
    <3>3. Used(head, tail) \in 0 .. RingData
      <4>1. Holds(data, head, tail, << >>) /\ << >> \in Seq(Cells)
        BY <3>2 DEF IInv, RingOK
      <4> QED BY <3>2, <4>1, HoldsUsed
    <3>4. p \in Seq(Cells \cup {NoCell}) BY <1>4, SeqMonotonic
    <3>5. Len(p) <= Space(head, tail) /\ Used(head, tail) <= RingData
      BY <1>4, <3>1, <3>3, Sizes DEF Space
    <3> HIDE DEF p
    <3>6. Contents(Put(data, head, p), head, tail) = Contents(data, head, tail)
      BY <3>2, <3>4, <3>5, PutKeeps DEF Data
    <3>7. InRing' = InRing BY <1>1, <3>1, <3>6 DEF InRing
    <3>8. RxView' = RxView BY <1>1, <3>1 DEF RxView
    <3>9. InRing' = InRing \o << >> /\ RxView = << >> \o RxView'
      BY <1>2, <3>7, <3>8, ConcatEmptySeq
    <3>10. << >> \in Seq(Cells) OBVIOUS
    <3> QED BY <3>9, <3>10
  <2>2. CASE PushHead
    <3>1. /\ dev = "publish" /\ dev' = "signal" /\ data' = data
          /\ head' = Advance(head, n)
      BY <2>2 DEF PushHead
    <3>2. Stored = p BY <3>1 DEF Stored
    <3> HIDE DEF p
    <3>3. Contents(data, Advance(head, Len(p)), tail) = InRing \o p
      BY <3>2 DEF IInv, RingOK, Holds, InRing
    <3>4. InRing' = InRing \o p BY <1>1, <1>4, <3>1, <3>3 DEF InRing
    <3>5. RxView = rxbuf /\ RxView' = Drop(rxbuf, n)
      BY <1>1, <3>1 DEF RxView
    <3>6. rxbuf = p \o Drop(rxbuf, n) BY <1>4, Splits DEF p
    <3> QED BY <1>4, <3>4, <3>5, <3>6
  <2> QED BY <2>1, <2>2
<1> HIDE DEF n, p
<1>6. PICK more \in Seq(Cells) :
        InRing' = InRing \o more /\ RxView = more \o RxView'
  BY <1>5
<1>7. RxView' \in Seq(Cells)
  <2>1. CASE PushBytes
    <3>1. dev' # "signal" BY <2>1 DEF PushBytes
    <3> QED BY <1>1, <1>4, <3>1 DEF RxView
  <2>2. CASE PushHead
    <3>1. dev' = "signal" BY <2>2 DEF PushHead
    <3>2. RxView' = Drop(rxbuf, n) BY <1>1, <3>1 DEF RxView, n
    <3> QED BY <1>4, <3>2
  <2> QED BY <2>1, <2>2
<1>8. RingView \o more \in Seq(Cells) BY <1>2, ConcatProperties
<1>9. RingView' = RingView \o more /\ GotOK'
  <2>1. CASE task = "retire"
    <3>1. (got \o RingView) \o more = got \o (RingView \o more)
      BY <1>2, Regroup
    <3>2. InRing' = got' \o (RingView \o more) BY <1>1, <1>2, <1>6, <2>1, <3>1
    <3>3. Drop(got \o (RingView \o more), Len(got)) = RingView \o more
      BY <1>2, <1>8, Ends
    <3>4. RingView' = RingView \o more
      BY <1>1, <2>1, <3>2, <3>3 DEF RingView, InRing
    <3>5. GotOK' BY <1>1, <1>8, <2>1, <3>2 DEF GotOK
    <3> QED BY <3>4, <3>5
  <2>2. CASE task # "retire"
    <3>1. RingView' = InRing' BY <1>1, <2>2 DEF RingView, InRing
    <3>2. GotOK' BY <1>1, <2>2 DEF GotOK
    <3> QED BY <1>2, <1>6, <2>2, <3>1, <3>2
  <2> QED BY <2>1, <2>2
<1>10. Queue' = Queue
  <2>1. (RingView \o more) \o RxView' = RingView \o (more \o RxView')
    <3>1. RingView \in Seq(Cells) BY <1>2
    <3> QED BY <1>7, <3>1, Regroup
  <2> QED BY <1>1, <1>6, <1>9, <2>1 DEF Queue, Inside
<1> QED BY <1>1, <1>9, <1>10 DEF Stream!vars, Queue, Inside

(* A reset, and stub_ipc_init's store: the guest is down, or goes down.    *)
LEMMA DownStep ==
  ASSUME IInv, GotOK, Reset \/ StackInitStore
  PROVE  GotOK' /\ [Stream!Next]_Stream!vars
<1>1. /\ UNCHANGED <<conn, wire>> /\ phase' # "up" /\ got' = << >>
      /\ task' \notin {"retire", "dispatch"}
  <2>1. CASE Reset BY <2>1 DEF Reset, client
  <2>2. CASE StackInitStore
    <3>1. got = << >> /\ task \notin {"retire", "dispatch"}
      BY <2>2, NothingInHand DEF StackInitStore
    <3> QED BY <2>2, <3>1 DEF StackInitStore, client
  <2> QED BY <2>1, <2>2
<1>2. GotOK' BY <1>1 DEF GotOK
<1>3. RingView' = InRing' BY <1>1 DEF RingView, InRing
<1>4. /\ InRing \in Seq(Cells) /\ RingView \in Seq(Cells)
      /\ RxView \in Seq(Cells) /\ wire \in Seq(Cells)
      /\ Inside \in Seq(Cells)
  BY Views
<1>5. \E k \in 0 .. Len(Queue) : Queue' = Drop(Queue, k)
  <2>1. CASE Reset
    <3>1. /\ head' = 0 /\ tail' = 0 /\ rxbuf' = << >>
          /\ dev = "idle" /\ dev' = "idle"
      BY <2>1 DEF Reset
    <3>2. InRing' = << >> BY <3>1, Constants, UsedZero DEF InRing, Contents, Get
    <3>3. RxView' = << >> BY <3>1 DEF RxView
    <3>4. << >> \o << >> = << >> /\ << >> \o wire = wire
      BY <1>4, ConcatEmptySeq
    <3>5. Queue' = wire BY <1>1, <1>3, <3>2, <3>3, <3>4 DEF Queue, Inside
    <3>6. Len(Inside) \in 0 .. Len(Queue) /\ Drop(Queue, Len(Inside)) = wire
      BY <1>4, Ends DEF Queue
    <3> QED BY <3>5, <3>6
  <2>2. CASE StackInitStore
    <3>1. /\ phase = "init" /\ tail' = initHead
          /\ UNCHANGED <<head, data, rxbuf, dev>>
      BY <2>2 DEF StackInitStore, device
    <3>2. RingView = InRing BY <3>1, NothingInHand
    <3>3. /\ data \in Data /\ head \in Counter /\ tail \in Counter
          /\ initHead \in Counter
      BY DEF IInv, TypeOK, Data
    <3>4. /\ Stored \in Seq(Cells) /\ Holds(data, head, tail, Stored)
          /\ Holds(data, head, initHead, Stored)
          /\ Used(head, initHead) <= Used(head, tail)
      BY <3>1, StoredType DEF IInv, InitOK, RingOK
    <3>5. Used(head, tail) \in 0 .. RingData
      BY <3>3, <3>4, HoldsUsed
    <3>6. Used(head, initHead) \in 0 .. RingData
      BY <3>3, <3>4, HoldsUsed
    <3> DEFINE n == Used(head, tail) - Used(head, initHead)
               a == Get(data, tail, n)
    <3>7. n \in 0 .. RingData /\ n <= Used(head, tail)
      BY <3>4, <3>5, <3>6, Sizes
    <3>8. Advance(tail, n) = initHead
      BY <3>3, <3>4, Sizes DEF Used, Advance, Counter
    <3>9. InRing' \in Seq(Cells)
      BY <3>1, <3>4 DEF InRing, Holds
    <3> HIDE DEF n
    <3>10. InRing = a \o InRing'
      <4>1. Contents(data, head, tail)
              = a \o Contents(data, head, Advance(tail, n))
        <5>1. data \in [Slots -> Cells \cup {NoCell}] /\ Used(head, tail) <= RingData
          BY <3>3, <3>5, Sizes DEF Data
        <5> QED BY <3>3, <3>7, <5>1, GetDrops
      <4> QED BY <3>1, <3>8, <4>1 DEF InRing
    <3>11. a \in Seq(Cells)
      <4>1. a \in Seq(Cells \cup {NoCell}) /\ Len(a) = n
        BY <3>3, <3>7, GetType DEF Data
      <4> HIDE DEF a
      <4>2. Take(InRing, Len(a)) = a /\ Len(a) \in 0 .. Len(InRing)
        <5>1. a \in Seq(Cells \cup {NoCell}) /\ InRing' \in Seq(Cells \cup {NoCell})
          BY <3>9, <4>1, SeqMonotonic
        <5> QED BY <3>10, <5>1, Ends
      <4> QED BY <1>4, <4>2, TakeType
    <3> HIDE DEF a
    <3>12. RxView' = RxView BY <3>1 DEF RxView
    <3>13. Inside' = InRing' \o RxView BY <1>3, <3>12 DEF Inside
    <3>14. Inside' \in Seq(Cells) /\ Inside = a \o Inside'
      <4>1. (a \o InRing') \o RxView = a \o (InRing' \o RxView)
        BY <1>4, <3>9, <3>11, Regroup
      <4>2. InRing' \o RxView \in Seq(Cells) BY <1>4, <3>9, ConcatProperties
      <4> QED BY <3>2, <3>10, <3>13, <4>1, <4>2 DEF Inside
    <3>15. Queue' \in Seq(Cells) /\ Queue = a \o Queue'
      <4>1. Queue' = Inside' \o wire BY <1>1 DEF Queue
      <4>2. (a \o Inside') \o wire = a \o (Inside' \o wire)
        <5>1. Inside' \in Seq(Cells) BY <3>14
        <5>2. wire \in Seq(Cells) BY <1>4
        <5> QED BY <3>11, <5>1, <5>2, Regroup
      <4>3. Queue' \in Seq(Cells) BY <1>4, <3>14, <4>1, ConcatProperties
      <4> QED BY <3>14, <4>1, <4>2, <4>3 DEF Queue
    <3>16. Len(a) \in 0 .. Len(Queue) /\ Drop(Queue, Len(a)) = Queue'
      BY <3>11, <3>15, Ends
    <3> QED BY <3>16
  <2> QED BY <2>1, <2>2
<1>6. (phase = "up")' = FALSE BY <1>1
<1>7. Stream!Down
  BY <1>1, <1>5, <1>6 DEF Stream!Down, Stream!Drop, Drop, Queue, Inside
<1> QED BY <1>2, <1>7 DEF Stream!Next

(* rwip_init: the guest's stack is up.                                     *)
LEMMA UpStep ==
  ASSUME IInv, GotOK, RwipInit
  PROVE  GotOK' /\ [Stream!Next]_Stream!vars
<1>1. /\ UNCHANGED <<conn, wire, rxbuf, dev, head, tail, data, got>>
      /\ phase = "stack" /\ phase' = "up"
      /\ task' \notin {"retire", "dispatch"}
  BY DEF RwipInit, client, device, ring, Resting
<1>2. got = << >> /\ task \notin {"retire", "dispatch"}
  BY <1>1, NothingInHand
<1>3. RingView' = RingView /\ RxView' = RxView
  BY <1>1, <1>2 DEF RingView, RxView
<1>4. GotOK' BY <1>1, <1>2 DEF GotOK
<1>5. ~(phase = "up") /\ (phase = "up")' = TRUE BY <1>1
<1>6. Stream!Up BY <1>1, <1>3, <1>5 DEF Stream!Up
<1> QED BY <1>4, <1>6 DEF Stream!Next

(* stub_ipc_recv copies the front frame: the guest has it.                 *)
LEMMA CopyStep ==
  ASSUME IInv, GotOK, RecvCopy
  PROVE  GotOK' /\ [Stream!Next]_Stream!vars
<1>1. /\ UNCHANGED <<conn, wire, rxbuf, dev, head, tail, data, phase>>
      /\ task = "recv" /\ task' = "retire" /\ RingHasFrame
      /\ got' = Get(data, tail, FrontLen)
  BY DEF RecvCopy, client, device, ring
<1>2. got = << >> /\ RingView = InRing BY <1>1, NothingInHand
<1>3. phase = "up" BY <1>1 DEF IInv, TaskOK
<1>4. /\ data \in Data /\ head \in Counter /\ tail \in Counter
      /\ Stored \in Seq(Cells) /\ Holds(data, head, tail, Stored)
  BY StoredType DEF IInv, TypeOK, Data, RingOK
<1>5. head # tail
  <2>1. Used(head, tail) >= Hdr BY <1>1 DEF RingHasFrame
  <2>2. Used(head, tail) # 0 BY <2>1, Constants
  <2> QED BY <1>4, <2>2, UsedZero
<1> DEFINE n == FrontLen
           rest == Contents(data, head, Advance(tail, n))
<1>6. /\ n \in 1 .. RingData /\ n >= Hdr /\ n <= Used(head, tail)
      /\ got' \in Seq(Cells) /\ Len(got') = n
      /\ Holds(data, head, Advance(tail, n), Stored)
  BY <1>1, <1>4, <1>5, HoldsTake DEF FrontLen
<1>7. Used(head, tail) \in 0 .. RingData BY <1>4, HoldsUsed
<1>8. rest \in Seq(Cells) BY <1>6 DEF Holds
<1>9. InRing = got' \o rest
  <2>1. n \in 0 .. RingData /\ Used(head, tail) <= RingData BY <1>6, <1>7
  <2>2. data \in [Slots -> Cells \cup {NoCell}] BY <1>4 DEF Data
  <2> HIDE DEF n
  <2>3. Contents(data, head, tail) = Get(data, tail, n) \o rest
    BY <1>4, <1>6, <2>1, <2>2, GetDrops
  <2> QED BY <1>1, <2>3 DEF InRing, n
<1>10. InRing[1] = data[Slot(tail)] BY <1>4, <1>5, FrontCell DEF InRing
<1> HIDE DEF n, rest
<1>11. InRing' = InRing BY <1>1 DEF InRing
<1>12. RingView' = rest
  <2>1. Drop(got' \o rest, Len(got')) = rest BY <1>6, <1>8, Ends
  <2> QED BY <1>1, <1>9, <1>11, <2>1 DEF RingView, InRing
<1>13. GotOK' BY <1>1, <1>8, <1>9, <1>11 DEF GotOK
<1>14. RxView' = RxView /\ RxView \in Seq(Cells) /\ wire \in Seq(Cells)
  BY <1>1, Views DEF RxView
<1> DEFINE r == rest \o RxView
           l == r \o wire
<1>15. r \in Seq(Cells) /\ l \in Seq(Cells)
  BY <1>8, <1>14, ConcatProperties
<1>16. Queue = got' \o l /\ Queue' = l
  <2>1. Queue = (got' \o rest) \o RxView \o wire
    BY <1>2, <1>9 DEF Queue, Inside
  <2>2. (got' \o rest) \o RxView = got' \o r
    BY <1>6, <1>8, <1>14, Regroup
  <2> HIDE DEF r
  <2>3. (got' \o r) \o wire = got' \o (r \o wire)
    BY <1>6, <1>14, <1>15, Regroup
  <2>4. Queue = got' \o l BY <2>1, <2>2, <2>3
  <2>5. Queue' = r \o wire BY <1>1, <1>12, <1>14 DEF Queue, Inside, r
  <2> QED BY <2>4, <2>5
<1> HIDE DEF l, r
<1>17. /\ Len(got') \in 0 .. Len(Queue)
       /\ Take(Queue, Len(got')) = got' /\ Drop(Queue, Len(got')) = l
  BY <1>6, <1>15, <1>16, Ends
<1>18. Queue[1] = data[Slot(tail)]
  <2>1. 1 \in 1 .. Len(got') /\ Len(got') \in Nat BY <1>6, Sizes
  <2>2. (got' \o l)[1] = got'[1] BY <1>6, <1>15, <2>1, ConcatProperties
  <2>3. (got' \o rest)[1] = got'[1] BY <1>6, <1>8, <2>1, ConcatProperties
  <2> QED BY <1>9, <1>10, <1>16, <2>2, <2>3
<1>19. ParsedLen(Queue[1]) = Len(got')
  BY <1>6, <1>18 DEF n, FrontLen
<1>20. Queue \in Seq(Cells) /\ Len(Queue) \in Nat
  BY <1>6, <1>15, <1>16, ConcatProperties
<1>21. HasFrame(Queue)
  <2>1. Len(got') >= Hdr /\ Len(got') <= Len(Queue) BY <1>6, <1>17
  <2>2. Len(Queue) >= Hdr BY <1>6, <1>20, <2>1, Constants
  <2> QED BY <1>19, <1>20, <2>1, <2>2 DEF HasFrame
<1>22. got' = Take(Queue, ParsedLen(Queue[1]))
       /\ Queue' = Drop(Queue, ParsedLen(Queue[1]))
  BY <1>16, <1>17, <1>19
<1>23. Stream!Receive
  BY <1>1, <1>2, <1>3, <1>21, <1>22
  DEF Stream!Receive, Stream!HasFrame, Stream!Take, Stream!Drop,
      Stream!ParsedLen, Stream!Starts, HasFrame, Take, Drop, ParsedLen, Starts,
      Queue, Inside
<1> QED BY <1>13, <1>23 DEF Stream!Next

(* It retires the frame: the ring catches up with the queue.               *)
LEMMA RetireStep ==
  ASSUME IInv, GotOK, RecvRetire
  PROVE  GotOK' /\ UNCHANGED Stream!vars
<1>1. /\ UNCHANGED <<conn, wire, rxbuf, dev, head, data, phase, got>>
      /\ task = "retire" /\ task' = "dispatch"
      /\ tail' = Advance(tail, Len(got))
  BY DEF RecvRetire, client, device
<1>2. head # tail /\ Len(got) = ParsedLen(Contents(data, head, tail)[1])
  BY <1>1 DEF IInv, TaskOK
<1>3. /\ data \in Data /\ head \in Counter /\ tail \in Counter
      /\ Stored \in Seq(Cells) /\ Holds(data, head, tail, Stored)
  BY StoredType DEF IInv, TypeOK, Data, RingOK
<1>4. Len(got) = FrontLen BY <1>2, ReaderFinds DEF IInv
<1> DEFINE n == FrontLen
           rest == Contents(data, head, Advance(tail, n))
           front == Get(data, tail, n)
<1>5. /\ n \in 1 .. RingData /\ n <= Used(head, tail)
      /\ front \in Seq(Cells) /\ Len(front) = n
      /\ Holds(data, head, Advance(tail, n), Stored)
  BY <1>2, <1>3, HoldsTake DEF FrontLen
<1>6. rest \in Seq(Cells) BY <1>5 DEF Holds
<1>7. Used(head, tail) \in 0 .. RingData BY <1>3, HoldsUsed
<1>8. InRing = front \o rest
  <2>1. n \in 0 .. RingData /\ Used(head, tail) <= RingData BY <1>5, <1>7
  <2>2. data \in [Slots -> Cells \cup {NoCell}] BY <1>3 DEF Data
  <2> HIDE DEF n
  <2>3. Contents(data, head, tail) = Get(data, tail, n) \o rest
    BY <1>3, <1>5, <2>1, <2>2, GetDrops
  <2> QED BY <2>3 DEF InRing
<1>9. tail' = Advance(tail, n) BY <1>1, <1>4
<1> HIDE DEF n, front
<1>10. RingView = rest
  <2>1. Drop(front \o rest, Len(front)) = rest BY <1>5, <1>6, Ends
  <2>2. Len(front) = Len(got) BY <1>4, <1>5 DEF n
  <2> QED BY <1>1, <1>8, <2>1, <2>2 DEF RingView, InRing
<1>11. RingView' = rest BY <1>1, <1>9 DEF RingView
<1>12. RxView' = RxView BY <1>1 DEF RxView
<1>13. GotOK' BY <1>1 DEF GotOK
<1> QED BY <1>1, <1>10, <1>11, <1>12, <1>13 DEF Stream!vars

(* rwip_process has dispatched it.                                         *)
LEMMA HandledStep ==
  ASSUME IInv, GotOK, Dispatch
  PROVE  GotOK' /\ [Stream!Next]_Stream!vars
<1>1. /\ UNCHANGED <<conn, wire, rxbuf, dev, head, tail, data, phase>>
      /\ got' = << >> /\ task = "dispatch"
      /\ task' \notin {"retire", "dispatch"}
  BY DEF Dispatch, client, device, ring, Resting
<1>2. RingView' = RingView /\ RxView' = RxView BY <1>1 DEF RingView, RxView
<1>3. GotOK' BY <1>1 DEF GotOK
<1>4. Stream!Handled BY <1>1, <1>2 DEF Stream!Handled
<1> QED BY <1>3, <1>4 DEF Stream!Next

LEMMA StreamStep ==
  ASSUME IInv, GotOK, [Next]_vars
  PROVE  GotOK' /\ [Stream!Next]_Stream!vars
<1>1. CASE Client \/ RxChunk BY <1>1, WireStep
<1>2. CASE DeliverOversized BY <1>2, ResyncStep
<1>3. CASE PushBytes \/ PushHead BY <1>3, PushStep
<1>4. CASE Reset \/ StackInitStore BY <1>4, DownStep
<1>5. CASE RwipInit BY <1>5, UpStep
<1>6. CASE RecvCopy BY <1>6, CopyStep
<1>7. CASE RecvRetire BY <1>7, RetireStep
<1>8. CASE Dispatch BY <1>8, HandledStep
<1>9. CASE \/ RetryFire \/ DeliverDone \/ DeliverPark \/ PushSignal
           \/ StackInitLoad \/ CaptureIsr \/ TaskTakeEvent \/ TaskWfi
           \/ RecvNothing \/ UNCHANGED vars
  BY <1>9, StillStep
<1> QED
  BY <1>1, <1>2, <1>3, <1>4, <1>5, <1>6, <1>7, <1>8, <1>9
  DEF Next, MainLoop, Deliver, Boot, BleTask

LEMMA StreamInitial == Init => GotOK /\ Stream!Init
<1> SUFFICES ASSUME Init PROVE GotOK /\ Stream!Init OBVIOUS
<1>1. /\ head = 0 /\ tail = 0 /\ rxbuf = << >> /\ wire = << >> /\ got = << >>
      /\ conn = TRUE /\ phase = "off" /\ task = "off" /\ dev = "idle"
  BY DEF Init
<1>2. GotOK BY <1>1 DEF GotOK
<1>3. Contents(data, head, tail) = << >>
  BY <1>1, Constants, UsedZero DEF Contents, Get
<1>4. RingView = << >> /\ RxView = << >> BY <1>1, <1>3 DEF RingView, RxView
<1>5. << >> \o << >> = << >> OBVIOUS
<1>6. (phase = "up") = FALSE BY <1>1
<1> QED BY <1>1, <1>2, <1>4, <1>5, <1>6 DEF Stream!Init

(***************************************************************************)
(* What a client writes to the chardev of halo_ble.c reaches the guest's   *)
(* rwip_process as one queue of whole frames, each once, unchanged and in  *)
(* order, whatever the sizes, the frames and the interleaving; bytes are   *)
(* lost only by a reset or boot, a hang-up, or an oversized frame.         *)
(***************************************************************************)
THEOREM QueueOfFrames == Spec => ImplementsStream
<1>1. Init => IInv /\ GotOK /\ Stream!Init BY InitInv, StreamInitial
<1>2. IInv /\ GotOK /\ [Next]_vars => (IInv /\ GotOK)' BY StepInv, StreamStep
<1>3. IInv /\ GotOK /\ [Next]_vars => [Stream!Next]_Stream!vars BY StreamStep
<1> QED BY <1>1, <1>2, <1>3, PTL DEF Spec, ImplementsStream, Stream!Spec

=============================================================================
