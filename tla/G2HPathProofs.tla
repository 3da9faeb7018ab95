--------------------------- MODULE G2HPathProofs ---------------------------
(***************************************************************************)
(* The guest-to-host path for any number of threads, every ring, socket    *)
(* and chunk size and every retry bound: type correctness, no event is     *)
(* stranded in the ring, retries are paid for by other threads' frames,    *)
(* the client reads whole frames, and the path is one queue of events.     *)
(*                                                                         *)
(* StreamInv is the invariant behind the last two: what goes to the client *)
(* and what is in the ring are rows of whole frames.                       *)
(***************************************************************************)
EXTENDS G2HPath, DoorbellLemmas

Data == [Slots -> Cells \cup {NoCell}]

LEMMA Constants ==
  /\ RingData \in Nat \ {0} /\ CounterMod \in Nat \ {0}
  /\ 0 \in Counter
  /\ Jobs \subseteq Seq(Frames) \ {<< >>}
  /\ MaxSpins \in Nat /\ MaxResets \in Nat /\ Chunk \in Nat \ {0}
  /\ SocketCap \in Nat \ {0}
  /\ NoThread \notin Threads /\ NoCell \notin Cells
BY Sizes, G2HAssumption DEF Counter

(* A frame that is to be sent.                                             *)
LEMMA FrameToSend ==
  ASSUME NEW q \in Seq(Frames), q # << >>
  PROVE  /\ Head(q) \in Frames
         /\ Tail(q) \in Seq(Frames)
         /\ Len(q) # 1 => Tail(q) # << >>
         /\ Bytes(Head(q)) \in Seq(Cells)
         /\ Len(Bytes(Head(q))) = FrameLen[Head(q)]
         /\ FrameLen[Head(q)] \in 1 .. RingData
<1>1. Head(q) \in Frames /\ Tail(q) \in Seq(Frames) OBVIOUS
<1>2. Len(q) # 1 => Tail(q) # << >>
  <2>1. Len(q) \in Nat /\ Len(q) # 0 OBVIOUS
  <2>2. Len(Tail(q)) = Len(q) - 1 OBVIOUS
  <2>3. Len(<< >>) = 0 OBVIOUS
  <2>4. Len(q) # 1 => Len(Tail(q)) # 0 BY <2>1, <2>2
  <2> QED BY <2>3, <2>4
<1>3. /\ Bytes(Head(q)) \in Seq(Cells)
      /\ Len(Bytes(Head(q))) = FrameLen[Head(q)]
      /\ FrameLen[Head(q)] \in Nat /\ FrameLen[Head(q)] > 0
  BY <1>1, BytesType
<1>4. FrameLen[Head(q)] <= RingData BY <1>1, G2HAssumption
<1> QED BY <1>1, <1>2, <1>3, <1>4, Constants

(* What the ring holds, free of the state.                                 *)
LEMMA CellsEmpty ==
  ASSUME NEW d, NEW h \in Counter
  PROVE  HoldsCells(d, h, h)
<1>1. Used(h, h) = 0 BY UsedZero
<1>2. Contents(d, h, h) = << >> BY <1>1 DEF Contents, Get
<1>3. << >> \in Seq(Cells) OBVIOUS
<1> QED BY <1>1, <1>2, <1>3, Constants DEF HoldsCells

LEMMA CellsPut ==
  ASSUME NEW d \in Data, NEW h \in Counter, NEW t \in Counter,
         NEW p \in Seq(Cells), HoldsCells(d, h, t), Len(p) <= Space(h, t)
  PROVE  /\ HoldsCells(Put(d, h, p), Advance(h, Len(p)), t)
         /\ Advance(h, Len(p)) \in Counter
         /\ Put(d, h, p) \in Data
<1> DEFINE g == Advance(h, Len(p))
           e == Put(d, h, p)
           c == Contents(d, h, t)
<1>1. Used(h, t) <= RingData /\ c \in Seq(Cells) BY DEF HoldsCells
<1>2. Used(h, t) \in Nat /\ Len(p) \in Nat BY UsedType, Sizes
<1>3. Used(h, t) + Len(p) <= RingData BY <1>1, <1>2, Sizes DEF Space
<1>4. Len(p) \in 0 .. RingData BY <1>2, <1>3, Sizes
<1>5. Used(g, t) = Used(h, t) + Len(p) BY <1>3, <1>4, UsedAfterPut
<1>6. p \in Seq(Cells \cup {NoCell}) OBVIOUS
<1>7. d \in [Slots -> Cells \cup {NoCell}] BY DEF Data
<1>8. Contents(e, g, t) = c \o p BY <1>1, <1>6, <1>7, PutAppends
<1>9. c \o p \in Seq(Cells) BY <1>1, ConcatProperties
<1>10. g \in Counter BY <1>4, AdvanceType
<1>11. e \in Data BY <1>6, <1>7, PutType DEF Data
<1> HIDE DEF g, e, c
<1>12. HoldsCells(e, g, t) BY <1>3, <1>5, <1>8, <1>9 DEF HoldsCells
<1> QED BY <1>10, <1>11, <1>12 DEF g, e

LEMMA ContentsType ==
  ASSUME NEW d \in Data, NEW h \in Counter, NEW t \in Counter,
         Used(h, t) \in 0 .. RingData
  PROVE  /\ Contents(d, h, t) \in Seq(Cells \cup {NoCell})
         /\ Len(Contents(d, h, t)) = Used(h, t)
         /\ \A i \in 1 .. Used(h, t) :
              Contents(d, h, t)[i] = d[Slot(Advance(t, i - 1))]
<1> DEFINE m == Used(h, t)
<1>1. Contents(d, h, t) = Get(d, t, m) BY DEF Contents
<1>2. d \in [Slots -> Cells \cup {NoCell}] BY DEF Data
<1>3. m \in 0 .. RingData OBVIOUS
<1> HIDE DEF m
<1>4. /\ Get(d, t, m) \in Seq(Cells \cup {NoCell})
      /\ Len(Get(d, t, m)) = m
      /\ \A i \in 1 .. m : Get(d, t, m)[i] = d[Slot(Advance(t, i - 1))]
  <2> SUFFICES ASSUME NEW k \in 0 .. RingData
               PROVE  /\ Get(d, t, k) \in Seq(Cells \cup {NoCell})
                      /\ Len(Get(d, t, k)) = k
                      /\ \A i \in 1 .. k :
                           Get(d, t, k)[i] = d[Slot(Advance(t, i - 1))]
    BY <1>3
  <2> QED BY <1>2, GetType
<1> QED BY <1>1, <1>4 DEF m

LEMMA CellsGet ==
  ASSUME NEW d \in Data, NEW h \in Counter, NEW t \in Counter,
         NEW n \in 0 .. Used(h, t), HoldsCells(d, h, t)
  PROVE  /\ Get(d, t, n) \in Seq(Cells)
         /\ Advance(t, n) \in Counter
         /\ HoldsCells(d, h, Advance(t, n))
<1> DEFINE u == Advance(t, n)
           c == Contents(d, h, t)
           r == Contents(d, h, u)
           a == Get(d, t, n)
<1>1. Used(h, t) \in Nat /\ Used(h, t) <= RingData /\ c \in Seq(Cells)
  BY UsedType, Sizes DEF HoldsCells
<1>2. Used(h, t) \in 0 .. RingData /\ n \in 0 .. RingData /\ n <= Used(h, t)
  BY <1>1, Sizes
<1>3. u \in Counter /\ Used(h, u) = Used(h, t) - n
  BY <1>2, AdvanceType, UsedAfterGet
<1>4. Used(h, u) \in 0 .. RingData BY <1>2, <1>3, Sizes
<1>5. d \in [Slots -> Cells \cup {NoCell}] BY DEF Data
<1>6. /\ Len(c) = Used(h, t)
      /\ \A i \in 1 .. Used(h, t) : c[i] = d[Slot(Advance(t, i - 1))]
  BY <1>2, ContentsType
<1>7. /\ Len(a) = n /\ a \in Seq(Cells \cup {NoCell})
      /\ \A i \in 1 .. n : a[i] = d[Slot(Advance(t, i - 1))]
  BY <1>2, <1>5, GetType
<1>8. /\ Len(r) = Used(h, u) /\ r \in Seq(Cells \cup {NoCell})
      /\ \A i \in 1 .. Used(h, u) : r[i] = d[Slot(Advance(u, i - 1))]
  BY <1>3, <1>4, ContentsType
<1> HIDE DEF c, r, a
<1>9. a \in Seq(Cells)
  <2>1. ASSUME NEW i \in 1 .. n PROVE a[i] \in Cells
    <3>1. i \in 1 .. Used(h, t) BY <1>2
    <3>2. c[i] \in Cells BY <1>1, <1>6, <3>1
    <3> QED BY <1>6, <1>7, <3>1, <3>2
  <2> QED BY <1>7, <2>1
<1>10. r \in Seq(Cells)
  <2>1. ASSUME NEW i \in 1 .. Used(h, u) PROVE r[i] \in Cells
    <3>1. n + i \in 1 .. Used(h, t) BY <1>2, <1>3, <1>4
    <3>2. i - 1 \in 0 .. RingData /\ n + (i - 1) <= RingData
      BY <1>2, <1>3, <1>4, Sizes
    <3>3. Advance(u, i - 1) = Advance(t, n + (i - 1))
      BY <1>2, <3>2, AdvanceTwice
    <3>4. n + (i - 1) = (n + i) - 1 BY <1>2
    <3>5. c[n + i] \in Cells BY <1>1, <1>6, <3>1
    <3>6. c[n + i] = d[Slot(Advance(t, (n + i) - 1))] BY <1>6, <3>1
    <3> HIDE DEF u
    <3>7. r[i] = c[n + i] BY <1>8, <3>3, <3>4, <3>6
    <3> QED BY <3>5, <3>7
  <2> QED BY <1>8, <2>1
<1>11. HoldsCells(d, h, u) BY <1>4, <1>10 DEF HoldsCells, r
<1> QED BY <1>3, <1>9, <1>11 DEF a

-----------------------------------------------------------------------------
(* The initial states.                                                     *)
LEMMA InitInv == Init => IInv
<1> SUFFICES ASSUME Init PROVE IInv OBVIOUS
<1>1. TypeOK
  <2>1. gdata \in [Slots -> Cells \cup {NoCell}] BY DEF Init
  <2>2. << >> \in Seq(Cells) /\ << >> \in Seq(Frames) OBVIOUS
  <2>3. 0 \in 0 .. MaxResets /\ 0 \in 0 .. MaxSpins BY Constants
  <2>4. /\ pc \in [Threads -> {"idle", "send", "spin", "spinning", "spun",
                               "kick", "kicking"}]
        /\ todo \in [Threads -> Seq(Frames)]
        /\ spins \in [Threads -> 0 .. MaxSpins]
        /\ contended \in [Threads -> 0 .. MaxSpins]
    BY <2>2, <2>3 DEF Init
  <2> QED BY <2>1, <2>2, <2>3, <2>4, Constants DEF Init, TypeOK
<1>2. HoldsCells(gdata, ghead, gtail) BY Constants, CellsEmpty DEF Init
<1>3. DrainOK /\ CallOK /\ NoStrandedEvent
  BY Constants DEF Init, DrainOK, CallOK, NoStrandedEvent
<1>4. \A t \in Threads : PaidFor(t) BY DEF Init, PaidFor
<1> QED BY <1>1, <1>2, <1>3, <1>4 DEF IInv

-----------------------------------------------------------------------------
(* The client changes nothing the invariant relates.                       *)
LEMMA Elsewhere ==
  ASSUME IInv, UNCHANGED <<up, ring, threads, drain>>
  PROVE  /\ HoldsCells(gdata, ghead, gtail)' /\ DrainOK' /\ CallOK'
         /\ (\A t \in Threads : PaidFor(t))' /\ NoStrandedEvent'
<1>1. UNCHANGED <<ghead, gtail, gdata, pc, todo, spins, contended, kicker,
                  dhead, dtail>>
  BY DEF ring, threads, drain
<1>2. HoldsCells(gdata, ghead, gtail)' BY <1>1 DEF IInv, HoldsCells
<1>3. DrainOK' BY <1>1 DEF IInv, DrainOK, HoldsCells
<1>4. CallOK' /\ NoStrandedEvent' BY <1>1 DEF IInv, CallOK, NoStrandedEvent
<1>5. (\A t \in Threads : PaidFor(t))' BY <1>1 DEF IInv, PaidFor
<1> QED BY <1>2, <1>3, <1>4, <1>5

LEMMA ClientStep ==
  ASSUME IInv, ClientRead \/ HangUp \/ Dial
  PROVE  IInv'
<1>1. UNCHANGED <<resets, up, ring, threads, drain>>
  BY DEF ClientRead, HangUp, Dial
<1>2. /\ sock' \in Seq(Cells) /\ last' \in Cells \cup {NoCell}
      /\ conn' \in BOOLEAN
  <2>1. CASE ClientRead
    <3>1. sock \in Seq(Cells) /\ sock # << >> BY <2>1 DEF ClientRead, IInv, TypeOK
    <3>2. Head(sock) \in Cells /\ Tail(sock) \in Seq(Cells) BY <3>1
    <3> QED BY <2>1, <3>2 DEF ClientRead, IInv, TypeOK
  <2>2. CASE HangUp
    <3>1. << >> \in Seq(Cells) OBVIOUS
    <3> QED BY <2>2, <3>1 DEF HangUp, IInv, TypeOK
  <2>3. CASE Dial
    BY <2>3 DEF Dial, IInv, TypeOK
  <2> QED BY <2>1, <2>2, <2>3
<1>3. TypeOK' BY <1>1, <1>2 DEF IInv, TypeOK, ring, threads, drain
<1> QED BY <1>1, <1>3, Elsewhere DEF IInv

-----------------------------------------------------------------------------
(* The guest.                                                              *)

LEMMA StackInitStep == ASSUME IInv, StackInit PROVE IInv'
<1> USE DEF IInv
<1>1. /\ kicker = NoThread /\ up' = TRUE /\ ghead' = 0 /\ gtail' = 0
      /\ UNCHANGED <<resets, conn, sock, last, gdata, pc, todo, spins,
                     contended, kicker, dhead, dtail>>
  BY DEF StackInit, GuestRuns, client, threads, drain
<1>2. TypeOK' BY <1>1, Constants DEF TypeOK
<1>3. HoldsCells(gdata, ghead, gtail)'
  <2>1. HoldsCells(gdata, 0, 0) BY Constants, CellsEmpty
  <2> QED BY <1>1, <2>1 DEF HoldsCells
<1>4. DrainOK' /\ CallOK' /\ NoStrandedEvent'
  BY <1>1 DEF DrainOK, CallOK, NoStrandedEvent
<1>5. (\A t \in Threads : PaidFor(t))' BY <1>1 DEF PaidFor
<1> QED BY <1>2, <1>3, <1>4, <1>5

LEMMA ResetStep == ASSUME IInv, Reset PROVE IInv'
<1> USE DEF IInv
<1>1. /\ kicker = NoThread /\ up' = FALSE /\ ghead' = 0 /\ gtail' = 0
      /\ resets' = resets + 1 /\ resets < MaxResets
      /\ gdata' = [s \in Slots |-> NoCell]
      /\ pc' = [t \in Threads |-> "idle"]
      /\ todo' = [t \in Threads |-> << >>]
      /\ spins' = [t \in Threads |-> 0]
      /\ contended' = [t \in Threads |-> 0]
      /\ UNCHANGED <<conn, sock, last, kicker, dhead, dtail>>
  BY DEF Reset, GuestRuns, client, drain
<1>2. TypeOK'
  <2>1. gdata' \in [Slots -> Cells \cup {NoCell}] BY <1>1
  <2>2. << >> \in Seq(Frames) OBVIOUS
  <2>3. 0 \in 0 .. MaxSpins /\ resets' \in 0 .. MaxResets
    BY <1>1, Constants DEF TypeOK
  <2>4. /\ pc' \in [Threads -> {"idle", "send", "spin", "spinning", "spun",
                                "kick", "kicking"}]
        /\ todo' \in [Threads -> Seq(Frames)]
        /\ spins' \in [Threads -> 0 .. MaxSpins]
        /\ contended' \in [Threads -> 0 .. MaxSpins]
    BY <1>1, <2>2, <2>3
  <2> QED BY <1>1, <2>1, <2>3, <2>4, Constants DEF TypeOK
<1>3. HoldsCells(gdata, ghead, gtail)'
  <2>1. HoldsCells(gdata', 0, 0) BY Constants, CellsEmpty
  <2> QED BY <1>1, <2>1 DEF HoldsCells
<1>4. DrainOK' /\ CallOK' /\ NoStrandedEvent'
  BY <1>1, Constants DEF DrainOK, CallOK, NoStrandedEvent
<1>5. (\A t \in Threads : PaidFor(t))' BY <1>1 DEF PaidFor
<1> QED BY <1>2, <1>3, <1>4, <1>5

LEMMA CallStep ==
  ASSUME IInv, NEW t \in Threads, NEW job \in Jobs, Call(t, job)
  PROVE  IInv'
<1> USE DEF IInv
<1>1. /\ kicker = NoThread /\ pc[t] = "idle"
      /\ pc' = [pc EXCEPT ![t] = "send"]
      /\ todo' = [todo EXCEPT ![t] = job]
      /\ UNCHANGED <<resets, conn, sock, last, up, ghead, gtail, gdata, spins,
                     contended, kicker, dhead, dtail>>
  BY DEF Call, GuestRuns, client, ring, drain
<1>2. job \in Seq(Frames) /\ job # << >> BY Constants
<1>3. TypeOK' BY <1>1, <1>2 DEF TypeOK
<1>4. HoldsCells(gdata, ghead, gtail)' BY <1>1 DEF HoldsCells
<1>5. DrainOK' BY <1>1, Constants DEF DrainOK, TypeOK
<1>6. CallOK' BY <1>1, <1>2 DEF CallOK, TypeOK
<1>7. NoStrandedEvent' BY <1>1 DEF NoStrandedEvent, TypeOK
<1>8. (\A u \in Threads : PaidFor(u))'
  <2>1. spins[t] = 0 BY <1>1 DEF CallOK
  <2> QED BY <1>1, <2>1 DEF PaidFor, TypeOK
<1> QED BY <1>3, <1>4, <1>5, <1>6, <1>7, <1>8

(* A frame is put: it is the others' turn to have been overtaken.          *)
LEMMA PutFrameStep ==
  ASSUME IInv, NEW t \in Threads, PutFrame(t)
  PROVE  IInv'
<1> USE DEF IInv
<1> DEFINE p == Bytes(Head(todo[t]))
<1>1. /\ kicker = NoThread /\ pc[t] = "send"
      /\ Space(ghead, gtail) >= FrameLen[Head(todo[t])]
      /\ gdata' = Put(gdata, ghead, p)
      /\ ghead' = Advance(ghead, FrameLen[Head(todo[t])])
      /\ NextFrame(t) /\ Contend(t)
      /\ UNCHANGED <<resets, conn, sock, last, up, gtail, kicker, dhead, dtail>>
  BY DEF PutFrame, GuestRuns, client, drain
<1>2. todo[t] \in Seq(Frames) /\ todo[t] # << >> BY <1>1 DEF CallOK, TypeOK
<1>3. /\ p \in Seq(Cells) /\ Len(p) = FrameLen[Head(todo[t])]
      /\ Tail(todo[t]) \in Seq(Frames)
      /\ Len(todo[t]) # 1 => Tail(todo[t]) # << >>
  BY <1>2, FrameToSend
<1>4. /\ pc' = [pc EXCEPT ![t] = IF Len(todo[t]) = 1 THEN "kick" ELSE "send"]
      /\ todo' = [todo EXCEPT ![t] = Tail(todo[t])]
      /\ spins' = [spins EXCEPT ![t] = 0]
  BY <1>1 DEF NextFrame, AfterFrame
<1>5. /\ contended' \in [Threads -> 0 .. MaxSpins]
      /\ \A u \in Threads : u # t =>
           contended'[u] = IF Retrying(u) THEN Min2(contended[u] + 1, MaxSpins)
                           ELSE contended[u]
      /\ contended'[t] = 0
  <2>1. \A u \in Threads : contended[u] \in 0 .. MaxSpins BY DEF TypeOK
  <2> QED BY <1>1, <2>1, Constants DEF Contend, Min2
<1>6. /\ HoldsCells(gdata', ghead', gtail') /\ ghead' \in Counter
      /\ gdata' \in [Slots -> Cells \cup {NoCell}]
  <2>1. /\ gdata \in Data /\ ghead \in Counter /\ gtail \in Counter
        /\ HoldsCells(gdata, ghead, gtail)
    BY DEF TypeOK, Data
  <2>2. Len(p) <= Space(ghead, gtail)
    <3>1. Len(p) \in Int /\ Space(ghead, gtail) \in Int
      BY <1>3, <2>1, UsedType, Sizes DEF Space
    <3> QED BY <1>1, <1>3, <3>1
  <2> HIDE DEF p
  <2> QED BY <1>1, <1>3, <2>1, <2>2, CellsPut DEF Data
<1> HIDE DEF p
<1>7. TypeOK' BY <1>1, <1>3, <1>4, <1>5, <1>6, Constants DEF TypeOK
<1>8. DrainOK' BY <1>1, <1>4, Constants DEF DrainOK, TypeOK
<1>9. CallOK' BY <1>3, <1>4 DEF CallOK, TypeOK
<1>10. NoStrandedEvent' BY <1>4 DEF NoStrandedEvent, TypeOK
<1>11. (\A u \in Threads : PaidFor(u))'
  <2> SUFFICES ASSUME NEW u \in Threads PROVE PaidFor(u)' OBVIOUS
  <2>1. CASE u = t
    BY <1>4, <1>5, <2>1, Constants DEF PaidFor, TypeOK
  <2>2. CASE u # t
    <3>1. /\ pc'[u] = pc[u] /\ spins'[u] = spins[u] /\ spins[u] \in 0 .. MaxSpins
          /\ contended[u] \in 0 .. MaxSpins
      BY <1>4, <2>2 DEF TypeOK
    <3>2. CASE Retrying(u)
      <4>1. contended'[u] = Min2(contended[u] + 1, MaxSpins)
        BY <1>5, <2>2, <3>2
      <4> QED BY <3>1, <4>1, Constants DEF PaidFor, Min2
    <3>3. CASE ~Retrying(u)
      <4>1. contended'[u] = contended[u] /\ spins[u] = 0
            /\ pc[u] \notin {"spin", "spinning", "spun"}
        BY <1>5, <2>2, <3>1, <3>3 DEF Retrying
      <4> QED BY <3>1, <4>1 DEF PaidFor
    <3> QED BY <3>2, <3>3
  <2> QED BY <2>1, <2>2
<1> QED BY <1>1, <1>6, <1>7, <1>8, <1>9, <1>10, <1>11

(* No room: a ring without room for a frame is not empty, so a retry has   *)
(* been paid for by a frame of another thread.                             *)
LEMMA RingFullStep ==
  ASSUME IInv, NEW t \in Threads, RingFull(t)
  PROVE  IInv'
<1> USE DEF IInv
<1>1. /\ kicker = NoThread /\ pc[t] = "send"
      /\ Space(ghead, gtail) < FrameLen[Head(todo[t])]
      /\ pc' = [pc EXCEPT ![t] = "spin"]
      /\ UNCHANGED <<resets, conn, sock, last, up, ghead, gtail, gdata, todo,
                     spins, contended, kicker, dhead, dtail>>
  BY DEF RingFull, GuestRuns, client, ring, drain
<1>2. ghead # gtail
  <2>1. todo[t] \in Seq(Frames) /\ todo[t] # << >> BY <1>1 DEF CallOK, TypeOK
  <2>2. FrameLen[Head(todo[t])] \in 1 .. RingData BY <2>1, FrameToSend
  <2>3. Used(ghead, gtail) \in Int BY UsedType, Sizes DEF TypeOK
  <2>4. Used(ghead, gtail) # 0 BY <1>1, <2>2, <2>3, Sizes DEF Space
  <2> QED BY <2>4, UsedZero DEF TypeOK
<1>3. TypeOK' BY <1>1 DEF TypeOK
<1>4. HoldsCells(gdata, ghead, gtail)' BY <1>1 DEF HoldsCells
<1>5. DrainOK' BY <1>1, Constants DEF DrainOK, TypeOK
<1>6. CallOK' BY <1>1 DEF CallOK, TypeOK
<1>7. NoStrandedEvent' BY <1>1 DEF NoStrandedEvent, TypeOK
<1>8. (\A u \in Threads : PaidFor(u))' BY <1>1, <1>2 DEF PaidFor, TypeOK
<1> QED BY <1>3, <1>4, <1>5, <1>6, <1>7, <1>8

(* stub_ipc_kick, from the loop or at the end of a call.                   *)
LEMMA KickStep ==
  ASSUME IInv, NEW t \in Threads, SpinKick(t) \/ Kick(t)
  PROVE  IInv'
<1> USE DEF IInv
<1>1. /\ kicker = NoThread /\ kicker' = t /\ dhead' = ghead /\ dtail' = gtail
      /\ \/ pc[t] = "spin" /\ pc' = [pc EXCEPT ![t] = "spinning"]
         \/ pc[t] = "kick" /\ pc' = [pc EXCEPT ![t] = "kicking"]
      /\ UNCHANGED <<resets, conn, sock, last, up, ghead, gtail, gdata, todo,
                     spins, contended>>
  BY DEF SpinKick, Kick, StartDrain, GuestRuns, client, ring
<1>2. TypeOK' BY <1>1 DEF TypeOK
<1>3. HoldsCells(gdata, ghead, gtail)' BY <1>1 DEF HoldsCells
<1>4. DrainOK'
  <2>1. HoldsCells(gdata, dhead, dtail)' BY <1>1 DEF HoldsCells
  <2>2. \A u \in Threads : pc[u] \notin {"spinning", "kicking"}
    BY <1>1, Constants DEF DrainOK
  <2> QED BY <1>1, <2>1, <2>2 DEF DrainOK, TypeOK
<1>5. CallOK' BY <1>1 DEF CallOK, TypeOK
<1>6. NoStrandedEvent' BY <1>1 DEF NoStrandedEvent, TypeOK
<1>7. (\A u \in Threads : PaidFor(u))' BY <1>1 DEF PaidFor, TypeOK
<1> QED BY <1>2, <1>3, <1>4, <1>5, <1>6, <1>7

LEMMA SpinAgainStep ==
  ASSUME IInv, NEW t \in Threads, SpinAgain(t)
  PROVE  IInv'
<1> USE DEF IInv
<1>1. /\ kicker = NoThread /\ pc[t] = "spun" /\ spins[t] < MaxSpins
      /\ spins' = [spins EXCEPT ![t] = spins[t] + 1]
      /\ pc' = [pc EXCEPT ![t] = "send"]
      /\ UNCHANGED <<resets, conn, sock, last, up, ghead, gtail, gdata, todo,
                     contended, kicker, dhead, dtail>>
  BY DEF SpinAgain, GuestRuns, client, ring, drain
<1>2. TypeOK'
  <2>1. spins[t] + 1 \in 0 .. MaxSpins BY <1>1, Constants DEF TypeOK
  <2> QED BY <1>1, <2>1 DEF TypeOK
<1>3. HoldsCells(gdata, ghead, gtail)' BY <1>1 DEF HoldsCells
<1>4. DrainOK' BY <1>1, Constants DEF DrainOK, TypeOK
<1>5. CallOK' BY <1>1 DEF CallOK, TypeOK
<1>6. NoStrandedEvent' BY <1>1 DEF NoStrandedEvent, TypeOK
<1>7. (\A u \in Threads : PaidFor(u))'
  <2> SUFFICES ASSUME NEW u \in Threads PROVE PaidFor(u)' OBVIOUS
  <2>1. /\ spins[u] \in 0 .. MaxSpins /\ contended[u] \in 0 .. MaxSpins
        /\ PaidFor(u)
    BY DEF TypeOK
  <2>2. CASE u = t
    <3>1. spins'[u] = spins[u] + 1 /\ pc'[u] = "send" /\ contended'[u] = contended[u]
      BY <1>1, <2>2 DEF TypeOK
    <3>2. \/ spins[u] < contended[u]
          \/ spins[u] = contended[u] /\ ghead = gtail
      <4>1. /\ spins[u] <= contended[u]
            /\ \/ spins[u] < contended[u]
               \/ spins[u] = MaxSpins
               \/ ghead = gtail
        BY <1>1, <2>1, <2>2 DEF PaidFor
      <4>2. spins[u] < MaxSpins BY <1>1, <2>2
      <4> QED BY <2>1, <4>1, <4>2, Constants
    <3> QED BY <1>1, <2>1, <3>1, <3>2, Constants DEF PaidFor
  <2>3. CASE u # t
    BY <1>1, <2>1, <2>3 DEF PaidFor, TypeOK
  <2> QED BY <2>2, <2>3
<1> QED BY <1>2, <1>3, <1>4, <1>5, <1>6, <1>7

LEMMA GiveUpStep ==
  ASSUME IInv, NEW t \in Threads, GiveUp(t)
  PROVE  IInv'
<1> USE DEF IInv
<1>1. /\ kicker = NoThread /\ pc[t] = "spun" /\ NextFrame(t)
      /\ contended' = [contended EXCEPT ![t] = 0]
      /\ UNCHANGED <<resets, conn, sock, last, up, ghead, gtail, gdata, kicker,
                     dhead, dtail>>
  BY DEF GiveUp, GuestRuns, client, ring, drain
<1>2. todo[t] \in Seq(Frames) /\ todo[t] # << >> BY <1>1 DEF CallOK, TypeOK
<1>3. /\ Tail(todo[t]) \in Seq(Frames)
      /\ Len(todo[t]) # 1 => Tail(todo[t]) # << >>
  BY <1>2, FrameToSend
<1>4. /\ pc' = [pc EXCEPT ![t] = IF Len(todo[t]) = 1 THEN "kick" ELSE "send"]
      /\ todo' = [todo EXCEPT ![t] = Tail(todo[t])]
      /\ spins' = [spins EXCEPT ![t] = 0]
  BY <1>1 DEF NextFrame, AfterFrame
<1>5. TypeOK' BY <1>1, <1>3, <1>4, Constants DEF TypeOK
<1>6. HoldsCells(gdata, ghead, gtail)' BY <1>1 DEF HoldsCells
<1>7. DrainOK' BY <1>1, <1>4, Constants DEF DrainOK, TypeOK
<1>8. CallOK' BY <1>3, <1>4 DEF CallOK, TypeOK
<1>9. NoStrandedEvent' BY <1>4 DEF NoStrandedEvent, TypeOK
<1>10. (\A u \in Threads : PaidFor(u))' BY <1>1, <1>4 DEF PaidFor, TypeOK
<1> QED BY <1>5, <1>6, <1>7, <1>8, <1>9, <1>10

-----------------------------------------------------------------------------
(* The device, inside the kick.                                            *)
LEMMA DrainMoves ==
  ASSUME IInv, DrainSend \/ DrainDiscard
  PROVE  IInv'
<1> USE DEF IInv
<1>1. /\ kicker # NoThread /\ dtail # dhead
      /\ UNCHANGED <<resets, conn, last, up, ghead, gtail, gdata, pc, todo,
                     spins, contended, kicker, dhead>>
  BY DEF DrainSend, DrainDiscard, GuestRuns, client, ring, threads
<1>2. /\ gdata \in Data /\ dhead \in Counter /\ dtail \in Counter
      /\ HoldsCells(gdata, dhead, dtail)
  BY <1>1 DEF TypeOK, DrainOK, Data
<1>3. Used(dhead, dtail) \in Nat BY <1>2, UsedType, Sizes
<1>4. PICK n \in 0 .. Used(dhead, dtail) :
        /\ dtail' = Advance(dtail, n)
        /\ sock' = sock \/ sock' = sock \o Get(gdata, dtail, n)
  <2>1. CASE DrainSend
    <3> DEFINE k == Min2(Min2(Used(dhead, dtail), Chunk), SocketCap - Len(sock))
    <3>1. Len(sock) \in Nat /\ Len(sock) < SocketCap BY <2>1 DEF DrainSend, TypeOK
    <3>2. k \in 0 .. Used(dhead, dtail) BY <1>3, <3>1, Constants DEF Min2
    <3>3. /\ dtail' = Advance(dtail, k)
          /\ sock' = sock \o Get(gdata, dtail, k)
      BY <2>1 DEF DrainSend
    <3> HIDE DEF k
    <3> QED BY <3>2, <3>3
  <2>2. CASE DrainDiscard
    <3> DEFINE k == Min2(Used(dhead, dtail), Chunk)
    <3>1. k \in 0 .. Used(dhead, dtail) BY <1>3, Constants DEF Min2
    <3>2. dtail' = Advance(dtail, k) /\ sock' = sock
      BY <2>2 DEF DrainDiscard, client
    <3> HIDE DEF k
    <3> QED BY <3>1, <3>2
  <2> QED BY <2>1, <2>2
<1>5. /\ Get(gdata, dtail, n) \in Seq(Cells) /\ dtail' \in Counter
      /\ HoldsCells(gdata, dhead, dtail')
  BY <1>2, <1>4, CellsGet
<1>6. sock' \in Seq(Cells)
  <2>1. sock \in Seq(Cells) BY DEF TypeOK
  <2>2. sock \o Get(gdata, dtail, n) \in Seq(Cells)
    BY <1>5, <2>1, ConcatProperties
  <2> QED BY <1>4, <2>1, <2>2
<1>7. TypeOK' BY <1>1, <1>5, <1>6 DEF TypeOK
<1>8. HoldsCells(gdata, ghead, gtail)' BY <1>1 DEF HoldsCells
<1>9. DrainOK'
  <2>1. HoldsCells(gdata, dhead, dtail)' BY <1>1, <1>5 DEF HoldsCells
  <2> QED BY <1>1, <2>1 DEF DrainOK
<1>10. CallOK' /\ NoStrandedEvent' BY <1>1 DEF CallOK, NoStrandedEvent
<1>11. (\A u \in Threads : PaidFor(u))' BY <1>1 DEF PaidFor
<1> QED BY <1>7, <1>8, <1>9, <1>10, <1>11

(* The kick returns with the ring empty.                                   *)
LEMMA DrainEndStep == ASSUME IInv, DrainEnd PROVE IInv'
<1> USE DEF IInv
<1>1. /\ kicker # NoThread /\ dtail = dhead /\ gtail' = dtail
      /\ pc' = [pc EXCEPT ![kicker] =
                  IF pc[kicker] = "spinning" THEN "spun" ELSE "idle"]
      /\ kicker' = NoThread
      /\ UNCHANGED <<resets, conn, sock, last, up, ghead, gdata, todo, spins,
                     contended, dhead, dtail>>
  BY DEF DrainEnd, GuestRuns, client
<1>2. kicker \in Threads /\ pc[kicker] \in {"spinning", "kicking"}
  BY <1>1 DEF TypeOK, DrainOK
<1>3. gtail' = ghead' BY <1>1 DEF DrainOK
<1>4. TypeOK' BY <1>1, <1>2 DEF TypeOK
<1>5. HoldsCells(gdata, ghead, gtail)'
  <2>1. HoldsCells(gdata, ghead, ghead) BY CellsEmpty DEF TypeOK
  <2> QED BY <1>1, <1>3, <2>1 DEF HoldsCells
<1>6. DrainOK'
  <2>1. \A u \in Threads : u # kicker => pc'[u] \notin {"spinning", "kicking"}
    BY <1>1, <1>2 DEF DrainOK, TypeOK
  <2>2. pc'[kicker] \in {"spun", "idle"} BY <1>1, <1>2 DEF TypeOK
  <2> QED BY <1>1, <2>1, <2>2, Constants DEF DrainOK
<1>7. CallOK' BY <1>1, <1>2 DEF CallOK, TypeOK
<1>8. NoStrandedEvent' BY <1>3 DEF NoStrandedEvent
<1>9. (\A u \in Threads : PaidFor(u))'
  <2> SUFFICES ASSUME NEW u \in Threads PROVE PaidFor(u)' OBVIOUS
  <2>1. PaidFor(u) OBVIOUS
  <2>2. CASE u = kicker
    <3>1. \/ pc[u] = "spinning" /\ pc'[u] = "spun"
          \/ pc'[u] = "idle"
      BY <1>1, <1>2, <2>2 DEF TypeOK
    <3> QED BY <1>1, <1>3, <2>1, <3>1 DEF PaidFor
  <2>3. CASE u # kicker
    <3>1. pc'[u] = pc[u] BY <1>1, <1>2, <2>3 DEF TypeOK
    <3> QED BY <1>1, <1>3, <2>1, <3>1 DEF PaidFor
  <2> QED BY <2>2, <2>3
<1> QED BY <1>4, <1>5, <1>6, <1>7, <1>8, <1>9

-----------------------------------------------------------------------------
LEMMA StepInv == IInv /\ [Next]_vars => IInv'
<1> SUFFICES ASSUME IInv, [Next]_vars PROVE IInv' OBVIOUS
<1>1. CASE StackInit BY <1>1, StackInitStep
<1>2. CASE \E t \in Threads : \E job \in Jobs : Call(t, job)
  BY <1>2, CallStep
<1>3. CASE \E t \in Threads : PutFrame(t) BY <1>3, PutFrameStep
<1>4. CASE \E t \in Threads : RingFull(t) BY <1>4, RingFullStep
<1>5. CASE \E t \in Threads : SpinKick(t) \/ Kick(t) BY <1>5, KickStep
<1>6. CASE \E t \in Threads : SpinAgain(t) BY <1>6, SpinAgainStep
<1>7. CASE \E t \in Threads : GiveUp(t) BY <1>7, GiveUpStep
<1>8. CASE DrainSend \/ DrainDiscard BY <1>8, DrainMoves
<1>9. CASE DrainEnd BY <1>9, DrainEndStep
<1>10. CASE Reset BY <1>10, ResetStep
<1>11. CASE ClientRead \/ HangUp \/ Dial BY <1>11, ClientStep
<1>12. CASE UNCHANGED vars
  <2>1. UNCHANGED <<resets, client, up, ring, threads, drain>>
    BY <1>12 DEF vars
  <2>2. TypeOK'
    BY <2>1 DEF IInv, TypeOK, client, ring, threads, drain
  <2> QED BY <2>1, <2>2, Elsewhere DEF IInv
<1> QED
  BY <1>1, <1>2, <1>3, <1>4, <1>5, <1>6, <1>7, <1>8, <1>9, <1>10, <1>11, <1>12
  DEF Next, Thread, Drain

LEMMA SpecInv == Spec => []IInv
<1>1. Init => IInv BY InitInv
<1>2. IInv /\ [Next]_vars => IInv' BY StepInv
<1> QED BY <1>1, <1>2, PTL DEF Spec

(***************************************************************************)
(* Types, in particular that both counters stay in range and only bytes of *)
(* frames reach the client.                                                *)
(***************************************************************************)
THEOREM TypeCorrect == Spec => []TypeOK
<1>1. IInv => TypeOK BY DEF IInv
<1> QED BY <1>1, SpecInv, PTL

(***************************************************************************)
(* The ring is drained only on a kick (halo_ble.c, doorbell_write), and    *)
(* that is enough: bytes in the ring always have a thread inside a call    *)
(* that has still to kick.                                                 *)
(***************************************************************************)
THEOREM EventsNeverStranded == Spec => []NoStrandedEvent
<1>1. IInv => NoStrandedEvent BY DEF IInv
<1> QED BY <1>1, SpecInv, PTL

(***************************************************************************)
(* stub_ipc_send retries at most as often as other threads' frames went    *)
(* ahead of its own, for the real bound of 1000000 as for any other.       *)
(***************************************************************************)
THEOREM RetriesPaid == Spec => []RetriesArePaidFor
<1>1. IInv => RetriesArePaidFor BY DEF IInv, PaidFor, RetriesArePaidFor
<1> QED BY <1>1, SpecInv, PTL


-----------------------------------------------------------------------------
(***************************************************************************)
(* The stream the client reads.  Three rows of whole frames: what the      *)
(* client last read with all that is under way to it; what is in the ring, *)
(* which a client that dials will begin with; and, between drains, what    *)
(* has been handed to the client, where a reset may cut the ring off.      *)
(***************************************************************************)
Bits8 == Cells \cup {NoCell}

FrameEnds(c) == c = NoCell \/ c[2] = FrameLen[c[1]] - 1

Unbroken(s) ==
  /\ s \in Seq(Bits8) /\ s # << >>
  /\ \A i \in 2 .. Len(s) : s[i] \in Cells
  /\ \A i \in 1 .. Len(s) - 1 : Follows(s[i], s[i + 1])
  /\ FrameEnds(s[Len(s)])

InRing == Contents(gdata, ghead, gtail)

StreamInv ==
  /\ ~conn => sock = << >>
  /\ Unbroken(<<NoCell>> \o InRing)
  /\ conn => Unbroken(<<last>> \o (sock \o Pending))
  /\ conn /\ GuestRuns => Unbroken(<<last>> \o sock)

LEMMA RowType ==
  ASSUME NEW s, Unbroken(s)
  PROVE  /\ s \in Seq(Bits8) /\ Len(s) \in Nat /\ Len(s) > 0
         /\ \A i \in 1 .. Len(s) : s[i] \in Bits8
BY DEF Unbroken

LEMMA BytesRow ==
  ASSUME NEW f \in Frames
  PROVE  LET b == Bytes(f) IN
         /\ b \in Seq(Bits8) /\ Len(b) = FrameLen[f] /\ Len(b) \in Nat
         /\ Len(b) > 0 /\ Starts(b[1]) /\ FrameEnds(b[Len(b)])
         /\ \A i \in 1 .. Len(b) : b[i] \in Cells
         /\ \A i \in 1 .. Len(b) - 1 : Follows(b[i], b[i + 1])
<1> DEFINE b == Bytes(f)
           n == FrameLen[f]
<1>1. b \in Seq(Cells) /\ Len(b) = n /\ n \in Nat /\ n > 0 BY BytesType
<1>2. \A i \in 1 .. n : b[i] = <<f, i - 1>> BY <1>1 DEF Bytes
<1>3. b \in Seq(Bits8) BY <1>1, SeqMonotonic DEF Bits8
<1>4. \A i \in 1 .. n : b[i] \in Cells BY <1>1
<1>5. Starts(b[1]) BY <1>1, <1>2 DEF Starts
<1>6. FrameEnds(b[n]) BY <1>1, <1>2 DEF FrameEnds
<1>7. ASSUME NEW i \in 1 .. n - 1 PROVE Follows(b[i], b[i + 1])
  <2>1. /\ i \in 1 .. n /\ i + 1 \in 1 .. n /\ (i + 1) - 1 = (i - 1) + 1
        /\ i - 1 # n - 1
    BY <1>1
  <2>2. b[i] = <<f, i - 1>> /\ b[i + 1] = <<f, (i - 1) + 1>> BY <1>2, <2>1
  <2>3. b[i] # NoCell BY <1>4, <2>1, Constants
  <2> HIDE DEF b
  <2> QED BY <2>1, <2>2, <2>3 DEF Follows
<1> QED BY <1>1, <1>3, <1>4, <1>5, <1>6, <1>7

(* A frame more.                                                           *)
LEMMA RowGrows ==
  ASSUME NEW s, Unbroken(s), NEW f \in Frames
  PROVE  Unbroken(s \o Bytes(f))
<1> DEFINE b == Bytes(f)
           r == s \o b
<1>1. /\ s \in Seq(Bits8) /\ Len(s) \in Nat /\ Len(s) > 0
      /\ \A i \in 2 .. Len(s) : s[i] \in Cells
      /\ \A i \in 1 .. Len(s) - 1 : Follows(s[i], s[i + 1])
      /\ FrameEnds(s[Len(s)])
  BY RowType DEF Unbroken
<1>2. /\ b \in Seq(Bits8) /\ Len(b) \in Nat
      /\ Len(b) > 0 /\ Starts(b[1]) /\ FrameEnds(b[Len(b)])
      /\ \A i \in 1 .. Len(b) : b[i] \in Cells
      /\ \A i \in 1 .. Len(b) - 1 : Follows(b[i], b[i + 1])
  BY BytesRow
<1> HIDE DEF b
<1>3. /\ r \in Seq(Bits8) /\ Len(r) = Len(s) + Len(b)
      /\ \A i \in 1 .. Len(s) + Len(b) :
           r[i] = IF i <= Len(s) THEN s[i] ELSE b[i - Len(s)]
  BY <1>1, <1>2, ConcatProperties
<1> HIDE DEF r
<1>4. \A i \in 2 .. Len(r) : r[i] \in Cells
  <2> SUFFICES ASSUME NEW i \in 2 .. Len(r) PROVE r[i] \in Cells OBVIOUS
  <2>1. CASE i <= Len(s) BY <1>1, <1>2, <1>3, <2>1
  <2>2. CASE i > Len(s)
    <3>1. i - Len(s) \in 1 .. Len(b) BY <1>1, <1>2, <1>3, <2>2
    <3>2. r[i] = b[i - Len(s)] BY <1>1, <1>2, <1>3, <2>2
    <3> QED BY <1>2, <3>1, <3>2
  <2> QED BY <1>1, <1>3, <2>1, <2>2
<1>5. ASSUME NEW i \in 1 .. Len(r) - 1 PROVE Follows(r[i], r[i + 1])
  <2>1. /\ i \in 1 .. Len(s) + Len(b) /\ i + 1 \in 1 .. Len(s) + Len(b)
        /\ i \in Nat
    BY <1>1, <1>2, <1>3
  <2>2. CASE i + 1 <= Len(s)
    <3>1. i \in 1 .. Len(s) - 1 BY <1>1, <2>1, <2>2
    <3>2. r[i] = s[i] /\ r[i + 1] = s[i + 1] BY <1>1, <1>3, <2>1, <2>2
    <3> QED BY <1>1, <3>1, <3>2
  <2>3. CASE i = Len(s)
    <3>1. (i + 1) - Len(s) = 1 BY <1>1, <2>3
    <3>2. r[i] = s[Len(s)] /\ r[i + 1] = b[1] BY <1>1, <1>3, <2>1, <2>3, <3>1
    <3> QED BY <1>1, <1>2, <3>2 DEF Follows, FrameEnds
  <2>4. CASE i > Len(s)
    <3>1. /\ i - Len(s) \in 1 .. Len(b) - 1
          /\ (i + 1) - Len(s) = (i - Len(s)) + 1
      BY <1>1, <1>2, <1>3, <2>1, <2>4
    <3>2. r[i] = b[i - Len(s)] /\ r[i + 1] = b[(i - Len(s)) + 1]
      BY <1>1, <1>3, <2>1, <2>4, <3>1
    <3> QED BY <1>2, <3>1, <3>2
  <2> QED BY <1>1, <2>1, <2>2, <2>3, <2>4
<1>6. FrameEnds(r[Len(r)])
  <2> DEFINE k == Len(s) + Len(b)
  <2>1. /\ k \in 1 .. Len(s) + Len(b) /\ ~(k <= Len(s))
        /\ k - Len(s) = Len(b)
    BY <1>1, <1>2
  <2> HIDE DEF k
  <2>2. r[k] = b[k - Len(s)] BY <1>3, <2>1
  <2>3. Len(r) = k BY <1>3 DEF k
  <2> QED BY <1>2, <2>1, <2>2, <2>3
<1>7. r # << >> BY <1>1, <1>2, <1>3
<1>8. Unbroken(r) BY <1>3, <1>4, <1>5, <1>6, <1>7 DEF Unbroken
<1> QED BY <1>8 DEF r, b

(* The client reads a byte of it.                                          *)
LEMMA RowShifts ==
  ASSUME NEW a \in Bits8, NEW s \in Seq(Bits8), s # << >>,
         Unbroken(<<a>> \o s)
  PROVE  Unbroken(s)
<1> DEFINE r == <<a>> \o s
<1>1. <<a>> \in Seq(Bits8) /\ Len(<<a>>) = 1 OBVIOUS
<1>2. /\ r \in Seq(Bits8) /\ Len(r) = 1 + Len(s)
      /\ \A i \in 1 .. 1 + Len(s) : r[i] = IF i <= 1 THEN <<a>>[i] ELSE s[i - 1]
  BY <1>1, ConcatProperties
<1>3. Len(s) \in Nat /\ Len(s) > 0 OBVIOUS
<1>4. /\ \A i \in 2 .. Len(r) : r[i] \in Cells
      /\ \A i \in 1 .. Len(r) - 1 : Follows(r[i], r[i + 1])
      /\ FrameEnds(r[Len(r)])
  BY DEF Unbroken
<1> HIDE DEF r
<1>5. \A i \in 1 .. Len(s) : s[i] = r[i + 1]
  <2> SUFFICES ASSUME NEW i \in 1 .. Len(s) PROVE s[i] = r[i + 1] OBVIOUS
  <2>1. i + 1 \in 1 .. 1 + Len(s) /\ ~(i + 1 <= 1) /\ (i + 1) - 1 = i BY <1>3
  <2> QED BY <1>2, <2>1
<1>6. \A i \in 2 .. Len(s) : s[i] \in Cells
  <2> SUFFICES ASSUME NEW i \in 2 .. Len(s) PROVE s[i] \in Cells OBVIOUS
  <2>1. i \in 1 .. Len(s) /\ i + 1 \in 2 .. Len(r) BY <1>2, <1>3
  <2> QED BY <1>4, <1>5, <2>1
<1>7. \A i \in 1 .. Len(s) - 1 : Follows(s[i], s[i + 1])
  <2> SUFFICES ASSUME NEW i \in 1 .. Len(s) - 1 PROVE Follows(s[i], s[i + 1])
    OBVIOUS
  <2>1. /\ i \in 1 .. Len(s) /\ i + 1 \in 1 .. Len(s)
        /\ i + 1 \in 1 .. Len(r) - 1
    BY <1>2, <1>3
  <2>2. Follows(r[i + 1], r[(i + 1) + 1]) BY <1>4, <2>1
  <2> QED BY <1>5, <2>1, <2>2
<1>8. FrameEnds(s[Len(s)])
  <2>1. Len(s) \in 1 .. Len(s) /\ Len(r) = Len(s) + 1 BY <1>2, <1>3
  <2> QED BY <1>4, <1>5, <2>1
<1> QED BY <1>6, <1>7, <1>8 DEF Unbroken

LEMMA RowOfNone == Unbroken(<<NoCell>>)
<1> DEFINE s == <<NoCell>>
<1>1. s \in Seq(Bits8) /\ s # << >> /\ Len(s) = 1 /\ s[1] = NoCell
  BY DEF Bits8
<1> HIDE DEF s
<1>2. /\ \A i \in 2 .. Len(s) : s[i] \in Cells
      /\ \A i \in 1 .. Len(s) - 1 : Follows(s[i], s[i + 1])
      /\ FrameEnds(s[Len(s)])
  BY <1>1 DEF FrameEnds
<1>3. Unbroken(s) BY <1>1, <1>2 DEF Unbroken
<1> QED BY <1>3 DEF s

-----------------------------------------------------------------------------
(* How each action moves what is under way.                                *)
LEMMA Rows ==
  ASSUME IInv
  PROVE  /\ InRing \in Seq(Cells) /\ Pending \in Seq(Cells)
         /\ sock \in Seq(Cells) /\ last \in Bits8
         /\ GuestRuns => Pending = InRing
<1>1. InRing \in Seq(Cells) BY DEF IInv, HoldsCells, InRing
<1>2. Pending \in Seq(Cells)
  <2>1. CASE GuestRuns BY <1>1, <2>1 DEF Pending, InRing
  <2>2. CASE ~GuestRuns
    <3>1. dhead = ghead /\ Contents(gdata, dhead, dtail) \in Seq(Cells)
      BY <2>2 DEF IInv, DrainOK, HoldsCells, GuestRuns
    <3> QED BY <2>2, <3>1 DEF Pending
  <2> QED BY <2>1, <2>2
<1> QED BY <1>1, <1>2 DEF IInv, TypeOK, Bits8, Pending, InRing

LEMMA EmptyRing ==
  ASSUME NEW d, NEW h \in Counter
  PROVE  Contents(d, h, h) = << >>
BY UsedZero DEF Contents, Get

LEMMA PutMoves ==
  ASSUME IInv, NEW t \in Threads, PutFrame(t)
  PROVE  \E f \in Frames :
           /\ InRing' = InRing \o Bytes(f) /\ Pending' = Pending \o Bytes(f)
           /\ GuestRuns /\ GuestRuns' /\ UNCHANGED client
<1> DEFINE f == Head(todo[t])
           p == Bytes(f)
<1>1. /\ kicker = NoThread /\ pc[t] = "send" /\ UNCHANGED <<client, kicker, gtail>>
      /\ Space(ghead, gtail) >= FrameLen[f]
      /\ gdata' = Put(gdata, ghead, p)
      /\ ghead' = Advance(ghead, FrameLen[f])
  BY DEF PutFrame, GuestRuns, drain
<1>2. todo[t] \in Seq(Frames) /\ todo[t] # << >>
  BY <1>1 DEF IInv, CallOK, TypeOK
<1>3. f \in Frames /\ p \in Seq(Cells) /\ Len(p) = FrameLen[f]
  BY <1>2, FrameToSend
<1>4. /\ gdata \in [Slots -> Bits8] /\ ghead \in Counter /\ gtail \in Counter
      /\ Used(ghead, gtail) <= RingData
  BY DEF IInv, TypeOK, HoldsCells, Bits8
<1>5. p \in Seq(Bits8) BY <1>3, SeqMonotonic DEF Bits8
<1>6. Len(p) <= Space(ghead, gtail)
  <2>1. Len(p) \in Int /\ Space(ghead, gtail) \in Int
    BY <1>3, <1>4, UsedType, Sizes DEF Space
  <2> QED BY <1>1, <1>3, <2>1
<1> HIDE DEF p
<1>7. Contents(Put(gdata, ghead, p), Advance(ghead, Len(p)), gtail)
        = Contents(gdata, ghead, gtail) \o p
  BY <1>4, <1>5, <1>6, PutAppends
<1>8. InRing' = InRing \o p BY <1>1, <1>3, <1>7 DEF InRing
<1>9. Pending' = Pending \o p BY <1>1, <1>8 DEF Pending, InRing, GuestRuns
<1> QED BY <1>1, <1>3, <1>8, <1>9 DEF p, GuestRuns

LEMMA DrainTakes ==
  ASSUME IInv, DrainSend \/ DrainDiscard
  PROVE  \E piece \in Seq(Cells) :
           /\ Pending = piece \o Pending' /\ InRing' = InRing
           /\ IF conn THEN sock' = sock \o piece ELSE sock' = sock
           /\ UNCHANGED <<conn, last>> /\ ~GuestRuns /\ ~GuestRuns'
<1>1. /\ kicker # NoThread
      /\ UNCHANGED <<conn, last, ghead, gtail, gdata, kicker, dhead>>
  BY DEF DrainSend, DrainDiscard, GuestRuns, client, ring
<1>2. /\ gdata \in Data /\ dhead \in Counter /\ dtail \in Counter
      /\ dhead = ghead /\ HoldsCells(gdata, dhead, dtail)
  BY <1>1 DEF IInv, TypeOK, DrainOK, Data
<1>3. Used(dhead, dtail) \in Nat /\ Used(dhead, dtail) <= RingData
  BY <1>2, UsedType, Sizes DEF HoldsCells
<1>4. PICK n \in 0 .. Used(dhead, dtail) :
        /\ dtail' = Advance(dtail, n)
        /\ IF conn THEN sock' = sock \o Get(gdata, dtail, n) ELSE sock' = sock
  <2>1. CASE DrainSend
    <3> DEFINE k == Min2(Min2(Used(dhead, dtail), Chunk), SocketCap - Len(sock))
    <3>1. Len(sock) \in Nat /\ Len(sock) < SocketCap
      BY <2>1 DEF DrainSend, IInv, TypeOK
    <3>2. k \in 0 .. Used(dhead, dtail) BY <1>3, <3>1, Constants DEF Min2
    <3>3. /\ dtail' = Advance(dtail, k) /\ conn
          /\ sock' = sock \o Get(gdata, dtail, k)
      BY <2>1 DEF DrainSend
    <3> HIDE DEF k
    <3> QED BY <3>2, <3>3
  <2>2. CASE DrainDiscard
    <3> DEFINE k == Min2(Used(dhead, dtail), Chunk)
    <3>1. k \in 0 .. Used(dhead, dtail) BY <1>3, Constants DEF Min2
    <3>2. dtail' = Advance(dtail, k) /\ ~conn /\ sock' = sock
      BY <2>2 DEF DrainDiscard, client
    <3> HIDE DEF k
    <3> QED BY <3>1, <3>2
  <2> QED BY <2>1, <2>2
<1>5. Get(gdata, dtail, n) \in Seq(Cells) BY <1>2, <1>4, CellsGet
<1>6. Contents(gdata, dhead, dtail)
        = Get(gdata, dtail, n) \o Contents(gdata, dhead, Advance(dtail, n))
  <2>1. gdata \in [Slots -> Bits8] BY <1>2 DEF Data, Bits8
  <2>2. n \in 0 .. RingData /\ n <= Used(dhead, dtail) BY <1>3, <1>4, Sizes
  <2> QED BY <1>2, <1>3, <2>1, <2>2, GetDrops
<1>7. Pending = Get(gdata, dtail, n) \o Pending'
  BY <1>1, <1>2, <1>4, <1>6 DEF Pending, GuestRuns
<1>8. InRing' = InRing BY <1>1 DEF InRing
<1> QED BY <1>1, <1>4, <1>5, <1>7, <1>8 DEF GuestRuns

(* The ring's bytes are forgotten.                                         *)
Emptied ==
  /\ InRing' = << >> /\ Pending' = << >>
  /\ GuestRuns /\ GuestRuns' /\ UNCHANGED client

LEMMA RestartEmpties == ASSUME IInv, StackInit \/ Reset PROVE Emptied
<1>1. /\ kicker = NoThread /\ kicker' = NoThread /\ ghead' = 0 /\ gtail' = 0
      /\ UNCHANGED client
  BY DEF StackInit, Reset, GuestRuns, drain
<1>2. Contents(gdata', 0, 0) = << >> BY Constants, EmptyRing
<1> QED BY <1>1, <1>2 DEF Emptied, InRing, Pending, GuestRuns

LEMMA DrainLeaves ==
  ASSUME IInv, DrainEnd
  PROVE  /\ InRing' = << >> /\ Pending = << >> /\ Pending' = << >>
         /\ ~GuestRuns /\ GuestRuns' /\ UNCHANGED client
<1>1. /\ kicker # NoThread /\ kicker' = NoThread /\ dtail = dhead
      /\ gtail' = dtail /\ UNCHANGED <<client, ghead, gdata>>
  BY DEF DrainEnd, GuestRuns
<1>2. dhead = ghead /\ ghead \in Counter BY <1>1 DEF IInv, DrainOK, TypeOK
<1>3. Contents(gdata, ghead, ghead) = << >> BY <1>2, EmptyRing
<1> QED BY <1>1, <1>2, <1>3 DEF InRing, Pending, GuestRuns

(* A step of a thread, or of the client, that leaves the rows as they are. *)
Quiet ==
  /\ InRing' = InRing /\ Pending' = Pending
  /\ GuestRuns' => GuestRuns

LEMMA ThreadQuiet ==
  ASSUME IInv, NEW t \in Threads,
         \/ \E job \in Jobs : Call(t, job)
         \/ RingFull(t) \/ SpinKick(t) \/ Kick(t) \/ SpinAgain(t) \/ GiveUp(t)
  PROVE  Quiet /\ UNCHANGED client
<1>1. CASE SpinKick(t) \/ Kick(t)
  <2>1. /\ kicker = NoThread /\ kicker' = t /\ dtail' = gtail
        /\ UNCHANGED <<client, ghead, gtail, gdata>>
    BY <1>1 DEF SpinKick, Kick, StartDrain, GuestRuns, ring
  <2> QED BY <2>1, Constants DEF Quiet, InRing, Pending, GuestRuns
<1>2. CASE \/ \E job \in Jobs : Call(t, job)
           \/ RingFull(t) \/ SpinAgain(t) \/ GiveUp(t)
  <2>1. UNCHANGED <<client, ghead, gtail, gdata, kicker, dhead, dtail>>
    BY <1>2 DEF Call, RingFull, SpinAgain, GiveUp, ring, drain
  <2> QED BY <2>1 DEF Quiet, InRing, Pending, GuestRuns
<1> QED BY <1>1, <1>2

LEMMA ClientQuiet ==
  ASSUME ClientRead \/ HangUp \/ Dial \/ UNCHANGED vars
  PROVE  Quiet /\ GuestRuns' = GuestRuns
<1>1. UNCHANGED <<ghead, gtail, gdata, kicker, dhead, dtail>>
  BY DEF ClientRead, HangUp, Dial, vars, ring, drain
<1> QED BY <1>1 DEF Quiet, InRing, Pending, GuestRuns

LEMMA StreamInitial == Init => StreamInv
<1> SUFFICES ASSUME Init PROVE StreamInv OBVIOUS
<1>1. /\ conn /\ sock = << >> /\ last = NoCell /\ ghead = 0 /\ gtail = 0
      /\ kicker = NoThread
  BY DEF Init
<1>2. Contents(gdata, 0, 0) = << >> BY Constants, EmptyRing
<1>3. InRing = << >> /\ Pending = << >> BY <1>1, <1>2 DEF InRing, Pending, GuestRuns
<1>4. <<NoCell>> \o << >> = <<NoCell>> /\ << >> \o << >> = << >> OBVIOUS
<1> QED BY <1>1, <1>3, <1>4, RowOfNone DEF StreamInv

(* An empty row at the end.                                                *)
LEMMA NoneMore ==
  ASSUME NEW a \in Bits8, NEW s \in Seq(Cells)
  PROVE  /\ s \o << >> = s /\ << >> \o s = s
         /\ <<a>> \in Seq(Bits8) /\ <<a>> \o << >> = <<a>>
         /\ s \in Seq(Bits8)
BY ConcatEmptySeq, SeqMonotonic DEF Bits8

LEMMA StreamPut ==
  ASSUME IInv, StreamInv, NEW t \in Threads, PutFrame(t)
  PROVE  StreamInv'
<1>1. PICK f \in Frames :
        /\ InRing' = InRing \o Bytes(f) /\ Pending' = Pending \o Bytes(f)
        /\ GuestRuns /\ GuestRuns' /\ UNCHANGED client
  BY PutMoves
<1>2. /\ InRing \in Seq(Bits8) /\ Pending \in Seq(Bits8) /\ sock \in Seq(Bits8)
      /\ last \in Bits8 /\ NoCell \in Bits8
  BY Rows, NoneMore DEF Bits8
<1>3. Bytes(f) \in Seq(Bits8) BY BytesRow
<1>4. <<NoCell>> \o (InRing \o Bytes(f)) = (<<NoCell>> \o InRing) \o Bytes(f)
  BY <1>2, <1>3, ConcatAssociative
<1>5. <<last>> \o (sock \o (Pending \o Bytes(f)))
        = (<<last>> \o (sock \o Pending)) \o Bytes(f)
  <2>1. sock \o (Pending \o Bytes(f)) = (sock \o Pending) \o Bytes(f)
    BY <1>2, <1>3, ConcatAssociative
  <2>2. sock \o Pending \in Seq(Bits8) BY <1>2, ConcatProperties
  <2>3. <<last>> \in Seq(Bits8) BY <1>2
  <2>4. <<last>> \o ((sock \o Pending) \o Bytes(f))
          = (<<last>> \o (sock \o Pending)) \o Bytes(f)
    BY <1>3, <2>2, <2>3, ConcatAssociative
  <2> QED BY <2>1, <2>4
<1>6. Unbroken(<<NoCell>> \o InRing') BY <1>1, <1>4, RowGrows DEF StreamInv
<1>7. conn => Unbroken(<<last>> \o (sock \o Pending'))
  BY <1>1, <1>5, RowGrows DEF StreamInv
<1> QED BY <1>1, <1>6, <1>7 DEF StreamInv, client

LEMMA StreamDrains ==
  ASSUME IInv, StreamInv, DrainSend \/ DrainDiscard
  PROVE  StreamInv'
<1>1. PICK piece \in Seq(Cells) :
        /\ Pending = piece \o Pending' /\ InRing' = InRing
        /\ IF conn THEN sock' = sock \o piece ELSE sock' = sock
        /\ UNCHANGED <<conn, last>> /\ ~GuestRuns /\ ~GuestRuns'
  BY DrainTakes
<1>2. IInv' BY DrainMoves
<1>3. Pending' \in Seq(Cells)
  <2>1. /\ ~GuestRuns' /\ (kicker # NoThread)'
        /\ (dhead = ghead)' /\ HoldsCells(gdata, dhead, dtail)'
    BY <1>1, <1>2 DEF IInv, DrainOK, GuestRuns
  <2> QED BY <2>1 DEF Pending, HoldsCells
<1>4. conn => sock' \o Pending' = sock \o Pending
  <2>1. sock \in Seq(Cells) BY Rows
  <2>2. (sock \o piece) \o Pending' = sock \o (piece \o Pending')
    BY <1>3, <2>1, ConcatAssociative
  <2> QED BY <1>1, <2>2
<1> QED BY <1>1, <1>4 DEF StreamInv

LEMMA StreamDrained == ASSUME IInv, StreamInv, DrainEnd PROVE StreamInv'
<1>1. /\ InRing' = << >> /\ Pending = << >> /\ Pending' = << >>
      /\ ~GuestRuns /\ GuestRuns' /\ UNCHANGED <<conn, sock, last>>
  BY DrainLeaves DEF client
<1>2. sock \o << >> = sock /\ <<NoCell>> \o << >> = <<NoCell>>
  BY Rows, NoneMore DEF Bits8
<1> QED BY <1>1, <1>2, RowOfNone DEF StreamInv

LEMMA StreamRestarts ==
  ASSUME IInv, StreamInv, StackInit \/ Reset
  PROVE  StreamInv'
<1>1. /\ InRing' = << >> /\ Pending' = << >>
      /\ GuestRuns /\ GuestRuns' /\ UNCHANGED <<conn, sock, last>>
  BY RestartEmpties DEF Emptied, client
<1>2. sock \o << >> = sock /\ <<NoCell>> \o << >> = <<NoCell>>
  BY Rows, NoneMore DEF Bits8
<1> QED BY <1>1, <1>2, RowOfNone DEF StreamInv

LEMMA StreamRead == ASSUME IInv, StreamInv, ClientRead PROVE StreamInv'
<1>1. /\ sock # << >> /\ last' = Head(sock) /\ sock' = Tail(sock)
      /\ UNCHANGED conn
  BY DEF ClientRead
<1>2. /\ InRing' = InRing /\ Pending' = Pending /\ GuestRuns' = GuestRuns
  BY ClientQuiet DEF Quiet
<1>3. conn BY <1>1 DEF StreamInv
<1>4. /\ sock \in Seq(Bits8) /\ Pending \in Seq(Bits8) /\ last \in Bits8
  BY Rows, NoneMore
<1>5. /\ Head(sock) \in Bits8 /\ Tail(sock) \in Seq(Bits8)
      /\ <<Head(sock)>> \o Tail(sock) = sock
  BY <1>1, <1>4
<1>6. <<Head(sock)>> \o (Tail(sock) \o Pending) = sock \o Pending
  <2>1. <<Head(sock)>> \in Seq(Bits8) BY <1>5
  <2> QED BY <1>4, <1>5, <2>1, ConcatAssociative
<1>7. sock \o Pending \in Seq(Bits8) /\ sock \o Pending # << >>
  BY <1>1, <1>4, ConcatProperties, ConcatEqualIffEmpty
<1>8. Unbroken(<<last'>> \o (sock' \o Pending'))
  BY <1>1, <1>2, <1>3, <1>4, <1>6, <1>7, RowShifts DEF StreamInv
<1>9. GuestRuns => Unbroken(<<last'>> \o sock')
  BY <1>1, <1>3, <1>4, <1>5, RowShifts DEF StreamInv
<1> QED BY <1>1, <1>2, <1>3, <1>8, <1>9 DEF StreamInv

LEMMA StreamQuiet ==
  ASSUME StreamInv, Quiet, UNCHANGED <<conn, sock, last>>
  PROVE  StreamInv'
BY DEF StreamInv, Quiet

LEMMA StreamStep == ASSUME IInv, StreamInv, [Next]_vars PROVE StreamInv'
<1>1. CASE StackInit \/ Reset BY <1>1, StreamRestarts
<1>2. CASE \E t \in Threads : PutFrame(t) BY <1>2, StreamPut
<1>3. CASE \E t \in Threads :
             \/ \E job \in Jobs : Call(t, job)
             \/ RingFull(t) \/ SpinKick(t) \/ Kick(t) \/ SpinAgain(t)
             \/ GiveUp(t)
  BY <1>3, ThreadQuiet, StreamQuiet DEF client
<1>4. CASE DrainSend \/ DrainDiscard BY <1>4, StreamDrains
<1>5. CASE DrainEnd BY <1>5, StreamDrained
<1>6. CASE ClientRead BY <1>6, StreamRead
<1>7. CASE HangUp
  <2>1. ~conn' /\ sock' = << >> BY <1>7 DEF HangUp
  <2> QED BY <1>7, <2>1, ClientQuiet DEF StreamInv, Quiet
<1>8. CASE Dial
  <2>1. /\ ~conn /\ GuestRuns /\ conn' /\ last' = NoCell /\ sock' = sock
    BY <1>8 DEF Dial
  <2>2. sock = << >> /\ Pending = InRing BY <2>1, Rows DEF StreamInv
  <2>3. << >> \o InRing = InRing /\ <<NoCell>> \o << >> = <<NoCell>>
    BY Rows, NoneMore DEF Bits8
  <2> QED BY <1>8, <2>1, <2>2, <2>3, RowOfNone, ClientQuiet DEF StreamInv, Quiet
<1>9. CASE UNCHANGED vars
  BY <1>9, ClientQuiet, StreamQuiet DEF vars, client
<1> QED BY <1>1, <1>2, <1>3, <1>4, <1>5, <1>6, <1>7, <1>8, <1>9
        DEF Next, Thread, Drain

LEMMA SpecStream == Spec => [](IInv /\ StreamInv)
<1>1. Init => IInv /\ StreamInv BY InitInv, StreamInitial
<1>2. IInv /\ StreamInv /\ [Next]_vars => (IInv /\ StreamInv)'
  BY StepInv, StreamStep
<1> QED BY <1>1, <1>2, PTL DEF Spec

(***************************************************************************)
(* Whoever emits, however the socket stalls, and across resets and         *)
(* reconnections, a client of halo_ble.c's chardev reads whole frames in a *)
(* row, from its first byte on: none is cut, mixed or overwritten.         *)
(***************************************************************************)
THEOREM FramesWhole == Spec => []FramesUnbroken
<1>1. ASSUME IInv, StreamInv PROVE FramesUnbroken
  <2> SUFFICES ASSUME conn
               PROVE  LET s == <<last>> \o sock \o Pending
                      IN  /\ NoCell \notin {s[i] : i \in 2 .. Len(s)}
                          /\ \A i \in 1 .. Len(s) - 1 : Follows(s[i], s[i + 1])
    BY DEF FramesUnbroken
  <2> DEFINE s == <<last>> \o sock \o Pending
  <2>1. s = <<last>> \o (sock \o Pending)
    <3>1. /\ sock \in Seq(Bits8) /\ Pending \in Seq(Bits8)
          /\ <<last>> \in Seq(Bits8)
      BY <1>1, Rows, NoneMore
    <3> QED BY <3>1, ConcatAssociative
  <2>2. Unbroken(s) BY <1>1, <2>1 DEF StreamInv
  <2> HIDE DEF s
  <2>3. \A i \in 2 .. Len(s) : s[i] # NoCell BY <2>2, Constants DEF Unbroken
  <2>4. \A i \in 1 .. Len(s) - 1 : Follows(s[i], s[i + 1]) BY <2>2 DEF Unbroken
  <2> QED BY <2>3, <2>4 DEF s
<1> QED BY <1>1, SpecStream, PTL

-----------------------------------------------------------------------------
(* Before ble_stack_init no thread is inside a call, so the ring is empty  *)
(* when it starts.                                                         *)
Asleep == ~up => \A t \in Threads : pc[t] = "idle"

LEMMA AsleepStep == ASSUME IInv, Asleep, [Next]_vars PROVE Asleep'
<1>1. CASE StackInit \/ Reset
  BY <1>1 DEF StackInit, Reset, Asleep
<1>2. CASE \E t \in Threads : \E job \in Jobs : Call(t, job)
  BY <1>2 DEF Call, Asleep
<1>3. CASE \E t \in Threads : PutFrame(t) \/ RingFull(t) \/ GiveUp(t)
  <2>1. PICK t \in Threads : /\ PutFrame(t) \/ RingFull(t) \/ GiveUp(t)
                             /\ pc[t] # "idle" /\ up' = up
    BY <1>3 DEF PutFrame, RingFull, GiveUp
  <2> QED BY <2>1 DEF Asleep
<1>4. CASE \E t \in Threads : SpinKick(t) \/ SpinAgain(t) \/ Kick(t)
  <2>1. PICK t \in Threads : pc[t] # "idle" /\ up' = up
    BY <1>4 DEF SpinKick, SpinAgain, Kick
  <2> QED BY <2>1 DEF Asleep
<1>5. CASE DrainEnd
  <2>1. kicker \in Threads /\ pc[kicker] # "idle" /\ up' = up
    BY <1>5 DEF DrainEnd, GuestRuns, IInv, TypeOK, DrainOK
  <2> QED BY <2>1 DEF Asleep
<1>6. CASE DrainSend \/ DrainDiscard \/ ClientRead \/ HangUp \/ Dial
  BY <1>6 DEF DrainSend, DrainDiscard, ClientRead, HangUp, Dial, threads, Asleep
<1>7. CASE UNCHANGED vars BY <1>7 DEF vars, threads, Asleep
<1> QED BY <1>1, <1>2, <1>3, <1>4, <1>5, <1>6, <1>7 DEF Next, Thread, Drain

LEMMA SpecAsleep == Spec => []Asleep
<1>1. Init => Asleep BY DEF Init, Asleep
<1>2. IInv /\ Asleep /\ [Next]_vars => Asleep' BY AsleepStep
<1> QED BY <1>1, <1>2, SpecInv, PTL DEF Spec

LEMMA BootFindsNothing ==
  ASSUME IInv, Asleep, StackInit PROVE Pending = << >>
<1>1. kicker = NoThread /\ ~up BY DEF StackInit, GuestRuns
<1>2. ghead = gtail /\ ghead \in Counter
  BY <1>1 DEF Asleep, IInv, NoStrandedEvent, TypeOK
<1>3. Contents(gdata, ghead, ghead) = << >> BY <1>2, EmptyRing
<1> QED BY <1>1, <1>2, <1>3 DEF Pending, GuestRuns

(* A piece that is handed over follows what was handed over before it.     *)
LEMMA HandedOver ==
  ASSUME NEW a \in Seq(Cells), NEW b \in Seq(Cells), NEW c \in Seq(Cells)
  PROVE  /\ Len(a \o b) \in Len(a) .. Len(a \o (b \o c))
         /\ Len(a \o b) = Len(a) => a \o b = a
<1>1. Len(a) \in Nat /\ Len(b) \in Nat /\ Len(c) \in Nat OBVIOUS
<1>2. /\ Len(a \o b) = Len(a) + Len(b)
      /\ Len(a \o (b \o c)) = Len(a) + (Len(b) + Len(c))
  BY ConcatProperties
<1>3. Len(b) = 0 => a \o b = a BY EmptySeq, ConcatEmptySeq
<1> QED BY <1>1, <1>2, <1>3

(* The refinement of EventStream: an action is an event emitted, bytes     *)
(* handed over, received or lost, or nothing to it.                        *)
LEMMA EventsInitial == Init => Events!Init
<1> SUFFICES ASSUME Init PROVE Events!Init OBVIOUS
<1>1. /\ conn = TRUE /\ last = NoCell /\ resets = 0 /\ sock = << >>
      /\ ghead = 0 /\ gtail = 0 /\ kicker = NoThread
  BY DEF Init
<1>2. Contents(gdata, 0, 0) = << >> BY Constants, EmptyRing
<1>3. Pending = << >> BY <1>1, <1>2 DEF Pending, GuestRuns
<1>4. << >> \o << >> = << >> /\ Len(<< >>) = 0 OBVIOUS
<1> QED BY <1>1, <1>3, <1>4 DEF Events!Init

LEMMA EventsStep ==
  ASSUME IInv, StreamInv, Asleep, [Next]_vars
  PROVE  [Events!Next]_Events!vars
<1> DEFINE q == sock \o Pending
<1>1. /\ sock \in Seq(Cells) /\ Pending \in Seq(Cells) /\ q \in Seq(Cells)
      /\ Len(sock) \in Nat
  BY Rows, ConcatProperties
<1>2. CASE \E t \in Threads : PutFrame(t)
  <2>1. PICK f \in Frames :
          /\ Pending' = Pending \o Bytes(f)
          /\ UNCHANGED <<conn, sock, last, resets>>
    BY <1>2, PutMoves DEF client, PutFrame
  <2>2. Bytes(f) \in Seq(Cells) BY BytesType
  <2>3. q' = q \o Bytes(f)
    <3>1. sock \o (Pending \o Bytes(f)) = (sock \o Pending) \o Bytes(f)
      BY <1>1, <2>2, ConcatAssociative
    <3> QED BY <2>1, <3>1
  <2>4. Events!Emit(f) BY <2>1, <2>3 DEF Events!Emit, Events!Bytes, Bytes
  <2> QED BY <2>4 DEF Events!Next
<1>3. CASE DrainSend \/ DrainDiscard
  <2>1. PICK piece \in Seq(Cells) :
          /\ Pending = piece \o Pending'
          /\ IF conn THEN sock' = sock \o piece ELSE sock' = sock
          /\ conn' = conn /\ last' = last /\ ~GuestRuns'
    BY <1>3, DrainTakes
  <2>2. resets' = resets BY <1>3 DEF DrainSend, DrainDiscard
  <2>3. Pending' \in Seq(Cells)
    <3>1. IInv' BY <1>3, DrainMoves
    <3>2. ~GuestRuns' /\ (kicker # NoThread)' BY <2>1 DEF GuestRuns
    <3>3. (dhead = ghead)' /\ HoldsCells(gdata, dhead, dtail)'
      BY <3>1, <3>2 DEF IInv, DrainOK
    <3> QED BY <3>2, <3>3 DEF Pending, HoldsCells, GuestRuns
  <2>4. CASE conn
    <3>1. (sock \o piece) \o Pending' = sock \o (piece \o Pending')
      BY <1>1, <2>3, ConcatAssociative
    <3>2. q' = q /\ sock' = sock \o piece BY <2>1, <2>4, <3>1
    <3>3. Len(sock') \in Len(sock) .. Len(q) /\ (Len(sock') = Len(sock) => sock' = sock)
      BY <1>1, <2>1, <2>3, <3>2, HandedOver
    <3>4. Len(sock') = Len(sock) \/ Len(sock') \in Len(sock) + 1 .. Len(q)
      BY <1>1, <3>3
    <3>5. CASE Len(sock') = Len(sock)
      BY <2>1, <2>2, <3>2, <3>5 DEF Events!vars
    <3>6. CASE Len(sock') \in Len(sock) + 1 .. Len(q)
      <4>1. Events!HandOver BY <2>1, <2>2, <2>4, <3>2, <3>6 DEF Events!HandOver
      <4> QED BY <4>1 DEF Events!Next
    <3> QED BY <3>4, <3>5, <3>6
  <2>5. CASE ~conn
    <3>1. sock = << >> /\ sock' = << >> BY <2>1, <2>5 DEF StreamInv
    <3>2. q = piece \o Pending' /\ q' = Pending'
      BY <1>1, <2>1, <2>3, <3>1, ConcatEmptySeq
    <3>3. Len(piece) \in 0 .. Len(q) /\ Drop(q, Len(piece)) = Pending'
      BY <2>3, <3>2, Ends
    <3>4. CASE Len(piece) = 0
      <4>1. q = q' BY <2>1, <2>3, <3>2, <3>4, EmptySeq, ConcatEmptySeq
      <4> QED BY <2>1, <2>2, <3>1, <4>1 DEF Events!vars
    <3>5. CASE Len(piece) # 0
      <4>1. Len(piece) \in 1 .. Len(q) BY <1>1, <3>3, <3>5
      <4>2. \E n \in 1 .. Len(q) : q' = Drop(q, n) BY <3>2, <3>3, <4>1
      <4>3. Events!Lose
        BY <2>1, <2>2, <2>5, <3>1, <4>2 DEF Events!Lose, Events!Drop, Drop
      <4> QED BY <4>3 DEF Events!Next
    <3> QED BY <3>4, <3>5
  <2> QED BY <2>4, <2>5
<1>4. CASE StackInit
  <2>1. Pending' = << >> /\ UNCHANGED <<sock, conn, last, resets>>
    BY <1>4, RestartEmpties DEF Emptied, client, StackInit
  <2>2. Pending = << >> BY <1>4, BootFindsNothing
  <2> QED BY <2>1, <2>2 DEF Events!vars
<1>5. CASE Reset
  <2>1. /\ Pending' = << >> /\ UNCHANGED <<sock, conn, last>>
        /\ resets' = resets + 1
    BY <1>5, RestartEmpties DEF Emptied, client, Reset
  <2>2. Take(q, Len(sock)) = sock BY <1>1, Ends
  <2>3. q' = sock BY <1>1, <2>1, ConcatEmptySeq
  <2>4. Events!Reset BY <2>1, <2>2, <2>3 DEF Events!Reset, Events!Take, Take
  <2> QED BY <2>4 DEF Events!Next
<1>6. CASE DrainEnd
  <2>1. Pending' = Pending /\ UNCHANGED <<sock, conn, last, resets>>
    BY <1>6, DrainLeaves DEF client, DrainEnd
  <2> QED BY <2>1 DEF Events!vars
<1>7. CASE \E t \in Threads :
             \/ \E job \in Jobs : Call(t, job)
             \/ RingFull(t) \/ SpinKick(t) \/ Kick(t) \/ SpinAgain(t)
             \/ GiveUp(t)
  <2>1. Pending' = Pending /\ UNCHANGED <<sock, conn, last>>
    BY <1>7, ThreadQuiet DEF Quiet, client
  <2>2. resets' = resets
    BY <1>7 DEF Call, RingFull, SpinKick, Kick, SpinAgain, GiveUp
  <2> QED BY <2>1, <2>2 DEF Events!vars
<1>8. CASE ClientRead
  <2>1. /\ sock # << >> /\ sock' = Tail(sock) /\ last' = Head(sock)
        /\ conn' = conn /\ conn /\ resets' = resets /\ Pending' = Pending
    BY <1>8, ClientQuiet DEF ClientRead, Quiet, StreamInv
  <2> DEFINE h == <<Head(sock)>>
  <2>2. /\ h \in Seq(Cells) /\ Len(h) = 1 /\ Tail(sock) \in Seq(Cells)
        /\ sock = h \o Tail(sock) /\ h[1] = Head(sock)
        /\ Len(sock) > 0 /\ Len(Tail(sock)) = Len(sock) - 1
    BY <1>1, <2>1
  <2> HIDE DEF h
  <2>3. q = h \o q'
    <3>1. (h \o Tail(sock)) \o Pending = h \o (Tail(sock) \o Pending)
      BY <1>1, <2>2, ConcatAssociative
    <3> QED BY <2>1, <2>2, <3>1
  <2>4. q' \in Seq(Cells) BY <1>1, <2>1, <2>2, ConcatProperties
  <2> HIDE DEF q
  <2>5. Head(q) = Head(sock) /\ Tail(q) = q'
    <3>1. q # << >> /\ q[1] = h[1] /\ Len(q) = 1 + Len(q')
      BY <1>1, <2>2, <2>3, <2>4, ConcatProperties
    <3>2. Drop(q, 1) = q' BY <2>2, <2>3, <2>4, Ends
    <3>3. Tail(q) = Drop(q, 1) BY <1>1, <3>1 DEF Drop
    <3> QED BY <1>1, <2>2, <3>1, <3>2, <3>3
  <2>6. Events!Receive BY <2>1, <2>2, <2>5 DEF Events!Receive, q
  <2> QED BY <2>6 DEF Events!Next
<1>9. CASE HangUp
  <2>1. /\ conn /\ conn' = FALSE /\ sock' = << >> /\ Pending' = Pending
        /\ UNCHANGED <<last, resets>>
    BY <1>9, ClientQuiet DEF HangUp, Quiet
  <2>2. Drop(q, Len(sock)) = Pending BY <1>1, Ends
  <2>3. q' = Pending /\ Len(sock') = 0 BY <1>1, <2>1, ConcatEmptySeq
  <2>4. Events!HangUp BY <2>1, <2>2, <2>3 DEF Events!HangUp, Events!Drop, Drop
  <2> QED BY <2>4 DEF Events!Next
<1>10. CASE Dial
  <2>1. /\ ~conn /\ conn' = TRUE /\ last' = NoCell /\ sock' = sock
        /\ resets' = resets /\ Pending' = Pending
    BY <1>10, ClientQuiet DEF Dial, Quiet
  <2>2. Events!Dial BY <2>1 DEF Events!Dial
  <2> QED BY <2>2 DEF Events!Next
<1>11. CASE UNCHANGED vars
  <2>1. Pending' = Pending /\ UNCHANGED <<sock, conn, last, resets>>
    BY <1>11, ClientQuiet DEF Quiet, vars, client
  <2> QED BY <2>1 DEF Events!vars
<1> QED
  BY <1>2, <1>3, <1>4, <1>5, <1>6, <1>7, <1>8, <1>9, <1>10, <1>11
  DEF Next, Thread, Drain

(***************************************************************************)
(* The ring of stub_ipc.c and the drain of halo_ble.c are one queue of     *)
(* bytes, whatever its size, the socket's and the threads: an event in the *)
(* ring reaches a client that stays, once and in order, unless a reset     *)
(* comes before it was handed over; a hang-up loses only what was.         *)
(***************************************************************************)
THEOREM QueueOfEvents == Spec => ImplementsEvents
<1>1. Init => Events!Init BY EventsInitial
<1>2. IInv /\ StreamInv /\ Asleep /\ [Next]_vars => [Events!Next]_Events!vars
  BY EventsStep
<1> QED BY <1>1, <1>2, SpecStream, SpecAsleep, PTL
        DEF Spec, ImplementsEvents, Events!Spec
=============================================================================
