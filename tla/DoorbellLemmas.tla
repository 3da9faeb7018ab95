-------------------------- MODULE DoorbellLemmas ----------------------------
(***************************************************************************)
(* What both directions of the doorbell rest on.                           *)
(*                                                                         *)
(* What the ring's arithmetic guarantees, for every size of the ring and   *)
(* every modulus of the counters it divides: UsedAfterPut, UsedAfterGet,   *)
(* PutAppends and GetDrops say that, in terms of the ring's contents, a    *)
(* producer appends and a consumer removes from the front, wherever the    *)
(* counters and the slots wrap.                                            *)
(*                                                                         *)
(* What the operators on frames return, how queues are split and joined,   *)
(* and how WholeFrames, "a reader stepping from header to header stays     *)
(* inside", survives appending a frame and removing the first one.         *)
(***************************************************************************)
EXTENDS IpcRing, FrameCells, Remainders, SequenceTheorems, TLAPS

(* The assumption on the constants, in the form the proofs use it.         *)
LEMMA Sizes ==
  /\ RingData \in Nat \ {0}
  /\ CounterMod \in Nat \ {0}
  /\ RingData < CounterMod
  /\ CounterMod \div RingData \in Int
  /\ CounterMod = (CounterMod \div RingData) * RingData
<1>1. /\ RingData \in Nat \ {0}
      /\ CounterMod \in Nat \ {0}
      /\ CounterMod > RingData
      /\ CounterMod % RingData = 0
  BY RingAssumption
<1>2. /\ CounterMod \div RingData \in Int
      /\ CounterMod = (CounterMod \div RingData) * RingData + (CounterMod % RingData)
  BY <1>1, DivMod
<1>3. (CounterMod \div RingData) * RingData \in Int BY <1>1, <1>2
<1> QED BY <1>1, <1>2, <1>3

-----------------------------------------------------------------------------
(* The counters.                                                           *)

LEMMA UsedType ==
  ASSUME NEW h \in Counter, NEW t \in Counter
  PROVE  Used(h, t) \in 0 .. CounterMod - 1
BY Sizes DEF Used, Counter

LEMMA AdvanceType ==
  ASSUME NEW c \in Counter, NEW n \in 0 .. RingData
  PROVE  Advance(c, n) \in Counter
BY Sizes DEF Advance, Counter

(* Nothing is in the ring exactly when the counters are equal.             *)
LEMMA UsedZero ==
  ASSUME NEW h \in Counter, NEW t \in Counter
  PROVE  Used(h, t) = 0 <=> h = t
BY Sizes DEF Used, Counter

(* The producer's step.                                                    *)
LEMMA UsedAfterPut ==
  ASSUME NEW h \in Counter, NEW t \in Counter, NEW n \in 0 .. RingData,
         Used(h, t) + n <= RingData
  PROVE  Used(Advance(h, n), t) = Used(h, t) + n
BY Sizes DEF Used, Advance, Counter

(* The consumer's step.                                                    *)
LEMMA UsedAfterGet ==
  ASSUME NEW h \in Counter, NEW t \in Counter, NEW n \in 0 .. RingData,
         n <= Used(h, t)
  PROVE  Used(h, Advance(t, n)) = Used(h, t) - n
BY Sizes DEF Used, Advance, Counter

LEMMA AdvanceTwice ==
  ASSUME NEW c \in Counter, NEW m \in 0 .. RingData, NEW n \in 0 .. RingData,
         m + n <= RingData
  PROVE  Advance(Advance(c, m), n) = Advance(c, m + n)
BY Sizes DEF Advance, Counter

-----------------------------------------------------------------------------
(* The slots.                                                              *)

LEMMA SlotType ==
  ASSUME NEW c \in Int
  PROVE  Slot(c) \in Slots
BY Sizes, DivMod DEF Slot, Slots

(* The mask names the same slot before and after the counter wraps.        *)
LEMMA SlotAdvance ==
  ASSUME NEW c \in Counter, NEW n \in 0 .. RingData
  PROVE  Slot(Advance(c, n)) = (c + n) % RingData
<1> DEFINE K == CounterMod \div RingData
<1>1. c \in Int /\ n \in Int BY Sizes DEF Counter
<1>2. CASE c + n < CounterMod
  BY <1>2 DEF Slot, Advance
<1>3. CASE ~(c + n < CounterMod)
  <2>1. Advance(c, n) = c + n - CounterMod BY <1>3 DEF Advance
  <2>2. K \in Int /\ -K \in Int /\ CounterMod = K * RingData BY Sizes
  <2>3. c + n - CounterMod = (c + n) + (-K) * RingData
    <3> HIDE DEF K
    <3>1. CounterMod \in Int /\ RingData \in Int /\ K \in Int
      BY <2>2, Sizes
    <3>2. (-K) * RingData = -(K * RingData) BY <3>1
    <3> QED BY <1>1, <2>2, <3>1, <3>2
  <2>4. c + n \in Int BY <1>1
  <2>5. ((c + n) + (-K) * RingData) % RingData = (c + n) % RingData
    <3> HIDE DEF K
    <3> QED BY <2>2, <2>4, Sizes, ModShift
  <2> QED BY <2>1, <2>3, <2>5 DEF Slot
<1> QED BY <1>2, <1>3

(***************************************************************************)
(* Seen from head, the slot k after tail is at offset k - used, modulo the *)
(* ring: this is where the two ends' views of the slots meet.              *)
(***************************************************************************)
LEMMA OffsetFromHead ==
  ASSUME NEW h \in Counter, NEW t \in Counter, NEW k \in 0 .. RingData
  PROVE  (Slot(Advance(t, k)) - h) % RingData = (k - Used(h, t)) % RingData
<1> DEFINE a == (t + k) \div RingData
           s == (t + k) % RingData
           u == Used(h, t)
           K == CounterMod \div RingData
<1>1. h \in Int /\ t \in Int /\ k \in Int /\ u \in Int /\ t + k \in Int
  BY Sizes, UsedType DEF Counter
<1>2. Slot(Advance(t, k)) = s BY SlotAdvance
<1>3. a \in Int /\ s \in Int /\ t + k = a * RingData + s
  BY <1>1, DivMod, Sizes
<1>4. K \in Int /\ CounterMod = K * RingData BY Sizes
<1>5. PICK b \in Int : s - h = (k - u) + b * RingData
  <2>1. CASE h >= t
    <3>1. u = h - t BY <2>1 DEF Used
    <3>2. s - h = (k - u) + (-a) * RingData
      <4> HIDE DEF a, s, u, K
      <4> QED BY <1>1, <1>3, <3>1, Sizes, SMT
    <3> QED BY <1>3, <3>2
  <2>2. CASE ~(h >= t)
    <3>1. u = h - t + CounterMod BY <2>2 DEF Used
    <3>2. s - h = (k - u) + (K - a) * RingData
      <4> HIDE DEF a, s, u, K
      <4> QED BY <1>1, <1>3, <1>4, <3>1, Sizes, SMT
    <3>3. K - a \in Int BY <1>3, <1>4
    <3> QED BY <3>2, <3>3
  <2> QED BY <2>1, <2>2
<1>6. k - u \in Int BY <1>1
<1>7. ((k - u) + b * RingData) % RingData = (k - u) % RingData
  <2> HIDE DEF u
  <2> QED BY <1>5, <1>6, Sizes, ModShift
<1> QED BY <1>2, <1>5, <1>7

-----------------------------------------------------------------------------
(* The contents.                                                           *)

(* Types of the two byte loops.                                            *)
LEMMA PutType ==
  ASSUME NEW S, NEW data \in [Slots -> S], NEW h \in Counter, NEW cells \in Seq(S)
  PROVE  Put(data, h, cells) \in [Slots -> S]
<1>1. ASSUME NEW s \in Slots PROVE Put(data, h, cells)[s] \in S
  <2> DEFINE o == (s - h) % RingData
  <2>1. s - h \in Int BY Sizes DEF Slots, Counter
  <2>2. o \in Nat BY <2>1, Sizes, DivMod
  <2>3. Put(data, h, cells)[s] = IF o < Len(cells) THEN cells[o + 1] ELSE data[s]
    BY DEF Put
  <2> HIDE DEF o
  <2>4. CASE o < Len(cells)
    <3>1. o + 1 \in 1 .. Len(cells) BY <2>2, <2>4
    <3> QED BY <2>3, <2>4, <3>1
  <2> QED BY <2>3, <2>4
<1>2. Put(data, h, cells) = [s \in Slots |-> Put(data, h, cells)[s]] BY DEF Put
<1> QED BY <1>1, <1>2

LEMMA GetType ==
  ASSUME NEW S, NEW data \in [Slots -> S], NEW t \in Counter,
         NEW n \in 0 .. RingData
  PROVE  /\ Get(data, t, n) \in Seq(S)
         /\ Len(Get(data, t, n)) = n
         /\ \A i \in 1 .. n : Get(data, t, n)[i] = data[Slot(Advance(t, i - 1))]
<1> DEFINE g == Get(data, t, n)
<1>1. g = [i \in 1 .. n |-> data[Slot(Advance(t, i - 1))]] BY DEF Get
<1>2. ASSUME NEW i \in 1 .. n PROVE data[Slot(Advance(t, i - 1))] \in S
  <2>1. i - 1 \in 0 .. RingData BY Sizes
  <2>2. Advance(t, i - 1) \in Int BY <2>1, AdvanceType DEF Counter
  <2> QED BY <2>2, SlotType
<1>3. n \in Nat BY Sizes
<1> HIDE DEF g
<1>4. g \in Seq(S) /\ Len(g) = n BY <1>1, <1>2, <1>3
<1>5. \A i \in 1 .. n : g[i] = data[Slot(Advance(t, i - 1))] BY <1>1
<1> QED BY <1>4, <1>5 DEF g

(***************************************************************************)
(* What a producer that respects Space leaves in the slots after tail: the *)
(* bytes still to be read, and then its own.                               *)
(***************************************************************************)
LEMMA PutSlots ==
  ASSUME NEW S, NEW data \in [Slots -> S], NEW h \in Counter, NEW t \in Counter,
         NEW cells \in Seq(S), Len(cells) <= Space(h, t), Used(h, t) <= RingData,
         NEW k \in 0 .. RingData - 1
  PROVE  /\ Slot(Advance(t, k)) \in Slots
         /\ k < Used(h, t) =>
              Put(data, h, cells)[Slot(Advance(t, k))] = data[Slot(Advance(t, k))]
         /\ k >= Used(h, t) /\ k < Used(h, t) + Len(cells) =>
              Put(data, h, cells)[Slot(Advance(t, k))] = cells[k - Used(h, t) + 1]
<1> DEFINE n == Len(cells)
           u == Used(h, t)
           new == Put(data, h, cells)
<1>1. n \in 0 .. RingData /\ u \in 0 .. RingData /\ u + n <= RingData
  BY UsedType, Sizes DEF Space
<1> DEFINE s == Slot(Advance(t, k))
<1>2. k \in 0 .. RingData /\ k \in Int BY Sizes
<1>3. Advance(t, k) \in Int BY <1>2, AdvanceType DEF Counter
<1>4. s \in Slots BY <1>3, SlotType
<1>5. (s - h) % RingData = (k - u) % RingData BY <1>2, OffsetFromHead
<1>6. new[s] = IF (s - h) % RingData < n
               THEN cells[((s - h) % RingData) + 1] ELSE data[s]
  BY <1>4 DEF Put
<1>7. ASSUME k < u PROVE new[s] = data[s]
  <2> DEFINE r == k - u + RingData
  <2>1. /\ r \in 0 .. RingData - 1
        /\ k - u \in Int
        /\ k - u = (-1) * RingData + r
        /\ ~(r < n)
    BY <1>1, <1>2, <1>7, Sizes
  <2> HIDE DEF r, u
  <2>2. (k - u) % RingData = r BY <2>1, Sizes, ModUnique
  <2> QED BY <1>5, <1>6, <2>1, <2>2
<1>8. ASSUME k >= u, k < u + n PROVE new[s] = cells[k - u + 1]
  <2> DEFINE r == k - u
  <2>1. /\ r \in 0 .. RingData - 1
        /\ r \in Int
        /\ r = 0 * RingData + r
        /\ r < n
    BY <1>1, <1>2, <1>8, Sizes
  <2> HIDE DEF r
  <2>2. r % RingData = r BY <2>1, Sizes, ModUnique
  <2>3. (s - h) % RingData = r BY <1>5, <2>2 DEF r
  <2>4. new[s] = cells[r + 1] BY <1>6, <2>1, <2>3
  <2> QED BY <2>4 DEF r
<1> QED BY <1>4, <1>7, <1>8

(***************************************************************************)
(* A producer that respects Space appends to the contents and disturbs     *)
(* nothing that is still to be read.                                       *)
(***************************************************************************)
THEOREM PutAppends ==
  ASSUME NEW S, NEW data \in [Slots -> S], NEW h \in Counter, NEW t \in Counter,
         NEW cells \in Seq(S), Len(cells) <= Space(h, t), Used(h, t) <= RingData
  PROVE  Contents(Put(data, h, cells), Advance(h, Len(cells)), t)
           = Contents(data, h, t) \o cells
<1> DEFINE n == Len(cells)
           u == Used(h, t)
           new == Put(data, h, cells)
<1>1. n \in 0 .. RingData /\ u \in 0 .. RingData /\ u + n <= RingData
  BY UsedType, Sizes DEF Space
<1>2. Used(Advance(h, n), t) = u + n BY <1>1, UsedAfterPut
<1>3. \A k \in 0 .. RingData - 1 :
        /\ Slot(Advance(t, k)) \in Slots
        /\ k < u => new[Slot(Advance(t, k))] = data[Slot(Advance(t, k))]
        /\ k >= u /\ k < u + n => new[Slot(Advance(t, k))] = cells[k - u + 1]
  BY PutSlots
<1>4. Contents(new, Advance(h, n), t)
        = [i \in 1 .. u + n |-> new[Slot(Advance(t, i - 1))]]
  BY <1>2 DEF Contents, Get
<1>5. Contents(data, h, t) = [i \in 1 .. u |-> data[Slot(Advance(t, i - 1))]]
  BY DEF Contents, Get
<1>6. Contents(data, h, t) \in Seq(S) /\ Len(Contents(data, h, t)) = u
  <2>1. \A i \in 1 .. u : data[Slot(Advance(t, i - 1))] \in S
    <3> SUFFICES ASSUME NEW i \in 1 .. u
                 PROVE  data[Slot(Advance(t, i - 1))] \in S
      OBVIOUS
    <3>1. i - 1 \in 0 .. RingData - 1 BY <1>1, Sizes
    <3> QED BY <1>3, <3>1
  <2> HIDE DEF u
  <2> QED BY <1>1, <1>5, <2>1
<1>7. /\ Contents(data, h, t) \o cells \in Seq(S)
      /\ Len(Contents(data, h, t) \o cells) = u + n
      /\ \A i \in 1 .. u + n :
           (Contents(data, h, t) \o cells)[i]
             = IF i <= u THEN Contents(data, h, t)[i] ELSE cells[i - u]
  <2> DEFINE c == Contents(data, h, t)
  <2>1. c \in Seq(S) /\ cells \in Seq(S) /\ Len(c) = u BY <1>6
  <2> HIDE DEF c, u
  <2>2. /\ c \o cells \in Seq(S)
        /\ Len(c \o cells) = Len(c) + Len(cells)
        /\ \A i \in 1 .. Len(c) + Len(cells) :
             (c \o cells)[i] = IF i <= Len(c) THEN c[i] ELSE cells[i - Len(c)]
    BY <2>1, ConcatProperties
  <2> QED BY <2>1, <2>2 DEF c
<1>8. \A i \in 1 .. u + n :
        new[Slot(Advance(t, i - 1))]
          = IF i <= u THEN Contents(data, h, t)[i] ELSE cells[i - u]
  <2> SUFFICES ASSUME NEW i \in 1 .. u + n
               PROVE  new[Slot(Advance(t, i - 1))]
                        = IF i <= u THEN Contents(data, h, t)[i] ELSE cells[i - u]
    OBVIOUS
  <2>1. i - 1 \in 0 .. RingData - 1 BY <1>1, Sizes
  <2>2. CASE i <= u
    <3>1. i - 1 < u /\ i \in 1 .. u BY <1>1, <2>2
    <3>2. new[Slot(Advance(t, i - 1))] = data[Slot(Advance(t, i - 1))]
      BY <1>3, <2>1, <3>1
    <3>3. Contents(data, h, t)[i] = data[Slot(Advance(t, i - 1))]
      BY <1>5, <3>1
    <3> QED BY <2>2, <3>2, <3>3
  <2>3. CASE ~(i <= u)
    <3>1. i - 1 >= u /\ i - 1 < u + n /\ (i - 1) - u + 1 = i - u BY <1>1, <2>3
    <3>2. new[Slot(Advance(t, i - 1))] = cells[(i - 1) - u + 1]
      BY <1>3, <2>1, <3>1
    <3> QED BY <2>3, <3>1, <3>2
  <2> QED BY <2>2, <2>3
<1> DEFINE old == Contents(data, h, t) \o cells
           whole == Contents(new, Advance(h, n), t)
<1>9. whole = [i \in 1 .. u + n |-> old[i]]
  <2>1. \A i \in 1 .. u + n : new[Slot(Advance(t, i - 1))] = old[i]
    BY <1>7, <1>8
  <2> HIDE DEF new, u, n, old
  <2> QED BY <1>4, <2>1
<1>10. old \in Seq(S) /\ Len(old) = u + n BY <1>7
<1>11. old = [i \in 1 .. u + n |-> old[i]]
  <2> HIDE DEF old, u, n
  <2> QED BY <1>10
<1> HIDE DEF old, whole, u
<1>12. whole = old BY <1>9, <1>11
<1> QED BY <1>12 DEF old, whole, new, n

(* Until head is published the contents are what they were.                *)
THEOREM PutKeeps ==
  ASSUME NEW S, NEW data \in [Slots -> S], NEW h \in Counter, NEW t \in Counter,
         NEW cells \in Seq(S), Len(cells) <= Space(h, t), Used(h, t) <= RingData
  PROVE  Contents(Put(data, h, cells), h, t) = Contents(data, h, t)
<1> DEFINE u == Used(h, t)
           new == Put(data, h, cells)
<1>1. u \in 0 .. RingData BY UsedType, Sizes
<1>2. \A i \in 1 .. u :
        new[Slot(Advance(t, i - 1))] = data[Slot(Advance(t, i - 1))]
  <2> SUFFICES ASSUME NEW i \in 1 .. u
               PROVE  new[Slot(Advance(t, i - 1))] = data[Slot(Advance(t, i - 1))]
    OBVIOUS
  <2>1. i - 1 \in 0 .. RingData - 1 /\ i - 1 < u BY <1>1, Sizes
  <2> QED BY <2>1, PutSlots
<1> HIDE DEF new
<1>3. [i \in 1 .. u |-> new[Slot(Advance(t, i - 1))]]
        = [i \in 1 .. u |-> data[Slot(Advance(t, i - 1))]]
  BY <1>2
<1> QED BY <1>3 DEF Contents, Get, new

(***************************************************************************)
(* A consumer that takes n bytes removes the first n of the contents, and  *)
(* those are the bytes it read.                                            *)
(***************************************************************************)
THEOREM GetDrops ==
  ASSUME NEW S, NEW data \in [Slots -> S], NEW h \in Counter, NEW t \in Counter,
         NEW n \in 0 .. RingData, n <= Used(h, t), Used(h, t) <= RingData
  PROVE  Contents(data, h, t)
           = Get(data, t, n) \o Contents(data, h, Advance(t, n))
<1> DEFINE u == Used(h, t)
           c == Contents(data, h, t)
           g == Get(data, t, n)
           d == Contents(data, h, Advance(t, n))
<1>1. u \in 0 .. RingData /\ n \in 0 .. RingData /\ n <= u /\ u - n \in 0 .. RingData
  BY UsedType, Sizes
<1>2. Used(h, Advance(t, n)) = u - n BY <1>1, UsedAfterGet
<1>3. \A k \in 0 .. RingData - 1 : data[Slot(Advance(t, k))] \in S
  <2> SUFFICES ASSUME NEW k \in 0 .. RingData - 1
               PROVE  data[Slot(Advance(t, k))] \in S
    OBVIOUS
  <2>1. k \in 0 .. RingData BY Sizes
  <2>2. Advance(t, k) \in Int BY <2>1, AdvanceType DEF Counter
  <2> QED BY <2>2, SlotType
<1>4. c = [i \in 1 .. u |-> data[Slot(Advance(t, i - 1))]]
  BY DEF Contents, Get
<1>5. g = [i \in 1 .. n |-> data[Slot(Advance(t, i - 1))]]
  BY DEF Get
<1>6. d = [i \in 1 .. u - n |-> data[Slot(Advance(t, n + i - 1))]]
  <2>1. d = [i \in 1 .. u - n |-> data[Slot(Advance(Advance(t, n), i - 1))]]
    BY <1>2 DEF Contents, Get
  <2>2. \A i \in 1 .. u - n :
          Advance(Advance(t, n), i - 1) = Advance(t, n + i - 1)
    <3> SUFFICES ASSUME NEW i \in 1 .. u - n
                 PROVE  Advance(Advance(t, n), i - 1) = Advance(t, n + i - 1)
      OBVIOUS
    <3>1. i - 1 \in 0 .. RingData /\ n + (i - 1) <= RingData
          /\ n + (i - 1) = n + i - 1
      BY <1>1, Sizes
    <3> QED BY <1>1, <3>1, AdvanceTwice
  <2> HIDE DEF d, u
  <2> QED BY <2>1, <2>2
<1>7. g \in Seq(S) /\ Len(g) = n
  <2>1. \A i \in 1 .. n : data[Slot(Advance(t, i - 1))] \in S
    <3> SUFFICES ASSUME NEW i \in 1 .. n
                 PROVE  data[Slot(Advance(t, i - 1))] \in S
      OBVIOUS
    <3>1. i - 1 \in 0 .. RingData - 1 BY <1>1, Sizes
    <3> QED BY <1>3, <3>1
  <2> HIDE DEF g
  <2> QED BY <1>1, <1>5, <2>1
<1>8. d \in Seq(S) /\ Len(d) = u - n
  <2>1. \A i \in 1 .. u - n : data[Slot(Advance(t, n + i - 1))] \in S
    <3> SUFFICES ASSUME NEW i \in 1 .. u - n
                 PROVE  data[Slot(Advance(t, n + i - 1))] \in S
      OBVIOUS
    <3>1. n + i - 1 \in 0 .. RingData - 1 BY <1>1, Sizes
    <3> QED BY <1>3, <3>1
  <2> HIDE DEF d, u
  <2> QED BY <1>1, <1>6, <2>1
<1>9. /\ g \o d \in Seq(S)
      /\ Len(g \o d) = n + (u - n)
      /\ \A i \in 1 .. n + (u - n) :
           (g \o d)[i] = IF i <= n THEN g[i] ELSE d[i - n]
  <2> HIDE DEF g, d, u
  <2>1. /\ g \o d \in Seq(S)
        /\ Len(g \o d) = Len(g) + Len(d)
        /\ \A i \in 1 .. Len(g) + Len(d) :
             (g \o d)[i] = IF i <= Len(g) THEN g[i] ELSE d[i - Len(g)]
    BY <1>7, <1>8, ConcatProperties
  <2> QED BY <1>7, <1>8, <2>1
<1>10. \A i \in 1 .. u :
         data[Slot(Advance(t, i - 1))] = IF i <= n THEN g[i] ELSE d[i - n]
  <2> SUFFICES ASSUME NEW i \in 1 .. u
               PROVE  data[Slot(Advance(t, i - 1))]
                        = IF i <= n THEN g[i] ELSE d[i - n]
    OBVIOUS
  <2> HIDE DEF g, d, u
  <2>1. CASE i <= n
    <3>1. i \in 1 .. n BY <1>1, <2>1
    <3> QED BY <1>5, <2>1, <3>1
  <2>2. CASE ~(i <= n)
    <3>1. i - n \in 1 .. u - n /\ n + (i - n) - 1 = i - 1 BY <1>1, <2>2
    <3>2. d[i - n] = data[Slot(Advance(t, n + (i - n) - 1))] BY <1>6, <3>1
    <3> QED BY <2>2, <3>1, <3>2
  <2> QED BY <2>1, <2>2
<1>11. n + (u - n) = u BY <1>1
<1> HIDE DEF c, g, d, u
<1>12. c = [i \in 1 .. u |-> (g \o d)[i]]
  <2>1. \A i \in 1 .. u : data[Slot(Advance(t, i - 1))] = (g \o d)[i]
    BY <1>9, <1>10, <1>11
  <2> QED BY <1>4, <2>1
<1>13. g \o d = [i \in 1 .. u |-> (g \o d)[i]]
  <2> DEFINE whole == g \o d
  <2>1. whole \in Seq(S) /\ Len(whole) = u BY <1>9, <1>11
  <2> HIDE DEF whole
  <2>2. whole = [i \in 1 .. u |-> whole[i]] BY <2>1
  <2> QED BY <2>2 DEF whole
<1>14. c = g \o d BY <1>12, <1>13
<1> QED BY <1>14 DEF c, g, d

-----------------------------------------------------------------------------
(* Frames as sequences of cells.                                          *)

(* Every byte, read as the start of a header, says at least a header.      *)
LEMMA ParsedLenType ==
  ASSUME NEW c \in Cells
  PROVE  ParsedLen(c) \in Nat /\ ParsedLen(c) >= Hdr /\ ParsedLen(c) > 0
<1>1. Hdr \in Nat \ {0} BY FrameAssumption
<1>2. PICK f \in Frames : \E k \in 0 .. FrameLen[f] - 1 : c = <<f, k>>
  BY DEF Cells, CellsOfFrame
<1>3. CASE c[2] = 0
  <2>1. c[1] = f BY <1>2
  <2>2. FrameLen[f] \in Nat /\ FrameLen[f] >= Hdr BY FrameAssumption
  <2> QED BY <1>1, <1>3, <2>1, <2>2 DEF ParsedLen, Starts
<1>4. CASE c[2] # 0
  <2>1. c \in StrayCells BY <1>4 DEF StrayCells
  <2>2. StrayLen[c] \in Nat /\ StrayLen[c] >= Hdr BY <2>1, FrameAssumption
  <2> QED BY <1>1, <1>4, <2>2 DEF ParsedLen, Starts
<1> QED BY <1>3, <1>4

(* The bytes of a frame.                                                   *)
LEMMA BytesType ==
  ASSUME NEW f \in Frames
  PROVE  /\ Bytes(f) \in Seq(Cells)
         /\ Len(Bytes(f)) = FrameLen[f]
         /\ FrameLen[f] \in Nat /\ FrameLen[f] > 0
         /\ ParsedLen(Bytes(f)[1]) = FrameLen[f]
<1>1. FrameLen[f] \in Nat /\ FrameLen[f] > 0 BY FrameAssumption
<1>2. \A k \in 1 .. FrameLen[f] : <<f, k - 1>> \in Cells
  <2> SUFFICES ASSUME NEW k \in 1 .. FrameLen[f] PROVE <<f, k - 1>> \in Cells
    OBVIOUS
  <2>1. k - 1 \in 0 .. FrameLen[f] - 1 BY <1>1
  <2> QED BY <2>1 DEF Cells, CellsOfFrame
<1>3. Bytes(f) \in Seq(Cells) /\ Len(Bytes(f)) = FrameLen[f]
  BY <1>1, <1>2 DEF Bytes
<1>4. Bytes(f)[1] = <<f, 0>> BY <1>1 DEF Bytes
<1>5. ParsedLen(<<f, 0>>) = FrameLen[f] BY DEF ParsedLen, Starts
<1> QED BY <1>1, <1>3, <1>4, <1>5

LEMMA TakeType ==
  ASSUME NEW S, NEW s \in Seq(S), NEW n \in 0 .. Len(s)
  PROVE  /\ Take(s, n) \in Seq(S)
         /\ Len(Take(s, n)) = n
         /\ \A i \in 1 .. n : Take(s, n)[i] = s[i]
<1>1. \A i \in 1 .. n : s[i] \in S OBVIOUS
<1>2. n \in Int /\ 1 \in Int OBVIOUS
<1>3. /\ SubSeq(s, 1, n) \in Seq(S)
      /\ Len(SubSeq(s, 1, n)) = IF 1 <= n THEN n - 1 + 1 ELSE 0
      /\ \A i \in 1 .. n - 1 + 1 : SubSeq(s, 1, n)[i] = s[1 + i - 1]
  BY <1>1, <1>2, SubSeqProperties
<1> QED BY <1>3 DEF Take

LEMMA DropType ==
  ASSUME NEW S, NEW s \in Seq(S), NEW n \in 0 .. Len(s)
  PROVE  /\ Drop(s, n) \in Seq(S)
         /\ Len(Drop(s, n)) = Len(s) - n
<1>1. \A i \in n + 1 .. Len(s) : s[i] \in S OBVIOUS
<1>2. n + 1 \in Int /\ Len(s) \in Int OBVIOUS
<1>3. /\ SubSeq(s, n + 1, Len(s)) \in Seq(S)
      /\ Len(SubSeq(s, n + 1, Len(s)))
           = IF n + 1 <= Len(s) THEN Len(s) - (n + 1) + 1 ELSE 0
  BY <1>1, <1>2, SubSeqProperties
<1> QED BY <1>3 DEF Drop

(* The ends of a queue of two parts.                                       *)
LEMMA Ends ==
  ASSUME NEW S, NEW a \in Seq(S), NEW b \in Seq(S)
  PROVE  /\ Len(a) \in 0 .. Len(a \o b)
         /\ Take(a \o b, Len(a)) = a /\ Drop(a \o b, Len(a)) = b
<1> DEFINE q == a \o b
<1>1. /\ q \in Seq(S) /\ Len(q) = Len(a) + Len(b)
      /\ \A i \in 1 .. Len(a) + Len(b) :
           q[i] = IF i <= Len(a) THEN a[i] ELSE b[i - Len(a)]
  BY ConcatProperties
<1>2. Len(a) \in Nat /\ Len(b) \in Nat OBVIOUS
<1> HIDE DEF q
<1>3. Len(a) \in 0 .. Len(q) BY <1>1, <1>2
<1>4. Take(q, Len(a)) = a
  <2>1. /\ Take(q, Len(a)) \in Seq(S) /\ Len(Take(q, Len(a))) = Len(a)
        /\ \A i \in 1 .. Len(a) : Take(q, Len(a))[i] = q[i]
    BY <1>1, <1>3, TakeType
  <2>2. \A i \in 1 .. Len(a) : Take(q, Len(a))[i] = a[i]
    BY <1>1, <1>2, <2>1
  <2> QED BY <2>1, <2>2, SeqEqual
<1>5. Drop(q, Len(a)) = b
  <2> DEFINE d == SubSeq(q, Len(a) + 1, Len(q))
  <2>1. \A i \in Len(a) + 1 .. Len(q) : q[i] \in S BY <1>1, <1>2
  <2>2. /\ d \in Seq(S)
        /\ Len(d) = IF Len(a) + 1 <= Len(q) THEN Len(q) - (Len(a) + 1) + 1 ELSE 0
        /\ \A i \in 1 .. Len(q) - (Len(a) + 1) + 1 : d[i] = q[(Len(a) + 1) + i - 1]
    <3>1. Len(a) + 1 \in Int /\ Len(q) \in Int BY <1>1, <1>2
    <3> QED BY <2>1, <3>1, SubSeqProperties
  <2> HIDE DEF d
  <2>3. Len(d) = Len(b) BY <1>1, <1>2, <2>2
  <2>4. \A i \in 1 .. Len(b) : d[i] = b[i]
    <3> SUFFICES ASSUME NEW i \in 1 .. Len(b) PROVE d[i] = b[i] OBVIOUS
    <3>1. /\ (Len(a) + 1) + i - 1 = Len(a) + i
          /\ i \in 1 .. Len(q) - (Len(a) + 1) + 1
          /\ Len(a) + i \in 1 .. Len(a) + Len(b)
          /\ ~(Len(a) + i <= Len(a)) /\ (Len(a) + i) - Len(a) = i
      BY <1>1, <1>2
    <3>2. d[i] = q[Len(a) + i] BY <2>2, <3>1
    <3> QED BY <1>1, <3>1, <3>2
  <2>5. d = b BY <2>2, <2>3, <2>4, SeqEqual
  <2> QED BY <2>5 DEF Drop, d
<1> QED BY <1>3, <1>4, <1>5 DEF q

(* Rows are joined in any order of joining.                                *)
LEMMA Regroup ==
  ASSUME NEW a \in Seq(Cells), NEW b \in Seq(Cells), NEW c \in Seq(Cells)
  PROVE  (a \o b) \o c = a \o (b \o c)
BY ConcatAssociative

(* A sequence is its first n cells and the rest.                           *)
LEMMA Splits ==
  ASSUME NEW s \in Seq(Cells), NEW n \in 0 .. Len(s)
  PROVE  s = Take(s, n) \o Drop(s, n)
<1> DEFINE a == Take(s, n)
           b == SubSeq(s, n + 1, Len(s))
           r == a \o b
<1>1. /\ a \in Seq(Cells) /\ Len(a) = n
      /\ \A i \in 1 .. n : a[i] = s[i]
  BY TakeType
<1>2. /\ b \in Seq(Cells) /\ Len(b) = Len(s) - n
      /\ \A i \in 1 .. Len(s) - n : b[i] = s[n + i]
  <2>1. \A i \in n + 1 .. Len(s) : s[i] \in Cells OBVIOUS
  <2>2. n + 1 \in Int /\ Len(s) \in Int OBVIOUS
  <2>3. /\ b \in Seq(Cells)
        /\ Len(b) = IF n + 1 <= Len(s) THEN Len(s) - (n + 1) + 1 ELSE 0
        /\ \A i \in 1 .. Len(s) - (n + 1) + 1 : b[i] = s[(n + 1) + i - 1]
    BY <2>1, <2>2, SubSeqProperties
  <2> HIDE DEF b
  <2>4. Len(b) = Len(s) - n BY <2>3
  <2>5. ASSUME NEW i \in 1 .. Len(s) - n PROVE b[i] = s[n + i]
    <3>1. i \in 1 .. Len(s) - (n + 1) + 1 /\ (n + 1) + i - 1 = n + i OBVIOUS
    <3>2. b[i] = s[(n + 1) + i - 1] BY <2>3, <3>1
    <3> QED BY <3>1, <3>2
  <2> QED BY <2>3, <2>4, <2>5
<1> HIDE DEF a, b
<1>3. /\ r \in Seq(Cells) /\ Len(r) = n + (Len(s) - n)
      /\ \A i \in 1 .. n + (Len(s) - n) :
           r[i] = IF i <= n THEN a[i] ELSE b[i - n]
  BY <1>1, <1>2, ConcatProperties
<1> HIDE DEF r
<1>4. Len(r) = Len(s) BY <1>3
<1>5. ASSUME NEW i \in 1 .. Len(s) PROVE r[i] = s[i]
  <2>1. CASE i <= n BY <1>1, <1>3, <2>1
  <2>2. CASE i > n
    <3>1. i - n \in 1 .. Len(s) - n /\ n + (i - n) = i BY <2>2
    <3> QED BY <1>2, <1>3, <2>2, <3>1
  <2> QED BY <2>1, <2>2
<1>6. r = s BY <1>3, <1>4, <1>5, SeqEqual
<1> QED BY <1>6 DEF r, a, b, Drop

-----------------------------------------------------------------------------
LEMMA WholeEmpty == WholeFrames(<< >>)
<1> DEFINE stops == {0}
<1>1. stops \in SUBSET (0 .. Len(<< >>)) /\ 0 \in stops OBVIOUS
<1>2. \A k \in stops :
        k < Len(<< >>) => k + ParsedLen((<< >>)[k + 1]) \in stops
  OBVIOUS
<1> QED BY <1>1, <1>2 DEF WholeFrames

(* The front of a non-empty run of whole frames is a whole frame.          *)
LEMMA WholeFront ==
  ASSUME NEW s \in Seq(Cells), s # << >>, WholeFrames(s)
  PROVE  HasFrame(s)
<1>1. Len(s) \in Nat /\ Len(s) > 0 /\ s[1] \in Cells OBVIOUS
<1>2. PICK stops \in SUBSET (0 .. Len(s)) :
        /\ 0 \in stops
        /\ \A k \in stops : k < Len(s) => k + ParsedLen(s[k + 1]) \in stops
  BY DEF WholeFrames
<1>3. ParsedLen(s[1]) \in Nat /\ ParsedLen(s[1]) >= Hdr
  BY <1>1, ParsedLenType
<1>4. 0 + ParsedLen(s[0 + 1]) \in stops BY <1>1, <1>2
<1>5. ParsedLen(s[1]) \in 0 .. Len(s) BY <1>2, <1>3, <1>4
<1> QED BY <1>1, <1>3, <1>5, FrameAssumption DEF HasFrame

LEMMA WholeAppend ==
  ASSUME NEW s \in Seq(Cells), NEW f \in Seq(Cells), WholeFrames(s),
         f # << >>, Len(f) = ParsedLen(f[1])
  PROVE  WholeFrames(s \o f)
<1> DEFINE sf == s \o f
<1>1. PICK stops \in SUBSET (0 .. Len(s)) :
        /\ 0 \in stops
        /\ \A k \in stops : k < Len(s) => k + ParsedLen(s[k + 1]) \in stops
  BY DEF WholeFrames
<1>2. /\ sf \in Seq(Cells)
      /\ Len(sf) = Len(s) + Len(f)
      /\ \A i \in 1 .. Len(s) + Len(f) :
           sf[i] = IF i <= Len(s) THEN s[i] ELSE f[i - Len(s)]
  BY ConcatProperties
<1>3. Len(s) \in Nat /\ Len(f) \in Nat /\ Len(f) > 0 OBVIOUS
<1> DEFINE more == stops \cup {Len(s) + Len(f)}
<1> HIDE DEF sf
<1>4. more \in SUBSET (0 .. Len(sf)) /\ 0 \in more
  <2>1. \A k \in stops : k \in 0 .. Len(sf) BY <1>1, <1>2, <1>3
  <2>2. Len(s) + Len(f) \in 0 .. Len(sf) BY <1>2, <1>3
  <2> QED BY <1>1, <2>1, <2>2
<1>5. ASSUME NEW k \in more, k < Len(sf)
      PROVE  k + ParsedLen(sf[k + 1]) \in more
  <2>1. k \in stops /\ k \in 0 .. Len(s) BY <1>1, <1>2, <1>3, <1>5
  <2>2. k + 1 \in 1 .. Len(s) + Len(f) BY <1>3, <2>1
  <2>3. CASE k < Len(s)
    <3>1. sf[k + 1] = s[k + 1] BY <1>2, <1>3, <2>1, <2>2, <2>3
    <3> QED BY <1>1, <2>1, <2>3, <3>1
  <2>4. CASE k = Len(s)
    <3>1. sf[k + 1] = f[1] BY <1>2, <1>3, <2>2, <2>4
    <3> QED BY <2>4, <3>1
  <2> QED BY <1>3, <2>1, <2>3, <2>4
<1>6. WholeFrames(sf) BY <1>4, <1>5 DEF WholeFrames
<1> QED BY <1>6 DEF sf

LEMMA WholeDrop ==
  ASSUME NEW p \in Seq(Cells), NEW r \in Seq(Cells), p # << >>,
         WholeFrames(p \o r), Len(p) = ParsedLen(p[1])
  PROVE  WholeFrames(r)
<1> DEFINE s == p \o r
           n == Len(p)
<1>1. PICK stops \in SUBSET (0 .. Len(s)) :
        /\ 0 \in stops
        /\ \A k \in stops : k < Len(s) => k + ParsedLen(s[k + 1]) \in stops
  BY DEF WholeFrames
<1>2. /\ s \in Seq(Cells)
      /\ Len(s) = n + Len(r)
      /\ \A i \in 1 .. n + Len(r) : s[i] = IF i <= n THEN p[i] ELSE r[i - n]
  BY ConcatProperties
<1>3. n \in Nat /\ n > 0 /\ Len(r) \in Nat OBVIOUS
<1> HIDE DEF s, n
<1>4. s[1] = p[1] BY <1>2, <1>3
<1>5. n \in stops
  <2>1. 0 + ParsedLen(s[0 + 1]) \in stops BY <1>1, <1>2, <1>3
  <2> QED BY <1>3, <1>4, <2>1 DEF n
<1> DEFINE rest == {j \in 0 .. Len(r) : j + n \in stops}
<1>6. rest \in SUBSET (0 .. Len(r)) /\ 0 \in rest BY <1>3, <1>5
<1>7. ASSUME NEW j \in rest, j < Len(r)
      PROVE  j + ParsedLen(r[j + 1]) \in rest
  <2>1. j \in 0 .. Len(r) /\ j + n \in stops /\ j + n < Len(s)
    BY <1>2, <1>3, <1>7
  <2>2. (j + n) + ParsedLen(s[(j + n) + 1]) \in stops BY <1>1, <2>1
  <2>3. (j + n) + 1 \in 1 .. n + Len(r) /\ ((j + n) + 1) - n = j + 1
    BY <1>2, <1>3, <2>1
  <2>4. s[(j + n) + 1] = r[j + 1] BY <1>2, <1>3, <2>1, <2>3
  <2>5. r[j + 1] \in Cells BY <1>3, <1>7, <2>1
  <2>6. ParsedLen(r[j + 1]) \in Nat BY <2>5, ParsedLenType
  <2>7. (j + n) + ParsedLen(r[j + 1]) \in 0 .. n + Len(r) BY <1>1, <1>2, <2>2, <2>4
  <2>8. j + ParsedLen(r[j + 1]) \in 0 .. Len(r)
        /\ (j + ParsedLen(r[j + 1])) + n = (j + n) + ParsedLen(r[j + 1])
    BY <1>3, <2>1, <2>6, <2>7
  <2> QED BY <2>2, <2>4, <2>8
<1>8. WholeFrames(r) BY <1>6, <1>7 DEF WholeFrames
<1> QED BY <1>8
=============================================================================
