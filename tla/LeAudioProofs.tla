--------------------------- MODULE LeAudioProofs ---------------------------
(***************************************************************************)
(* LE Audio for any ASEs, paths and buffers: what the firmware has agreed  *)
(* to bounds how far an ASE is, every SDU buffer has one owner, and, with  *)
(* no more paths than slots, a posted buffer can be found.                 *)
(***************************************************************************)
EXTENDS LeAudio, FiniteSetTheorems, TLAPS

-----------------------------------------------------------------------------
(* The control of the ASEs.                                                *)

AseInv == AseTypeOK /\ Granted /\ ReleasedIsClean /\ HostFollows

AseStates == Idle .. Releasing
AseRec == [used : BOOLEAN, state : AseStates,
           stream : StreamLids \cup {InvalidLid}, dp : BOOLEAN]
Edges  == {"codec", "qos", "enable"}

(* What the invariant says of one ASE: its record, event and grants.       *)
Good(r, s, g) ==
  /\ r.state \in Enabling .. Disabling => g = Edges
  /\ r.state = QosConfigured => {"codec", "qos"} \subseteq g
  /\ r.state = CodecConfigured => g = {"codec"}
  /\ ~r.used => r.state = Idle /\ ~r.dp /\ r.stream \in {0, InvalidLid}
  /\ s = r.state

(* An operation touches one ASE.                                           *)
Becomes(a, r, s, g) ==
  /\ ase' = [ase EXCEPT ![a] = r]
  /\ told' = [told EXCEPT ![a] = s]
  /\ granted' = [granted EXCEPT ![a] = g]
  /\ UNCHANGED configured

LEMMA Each ==
  AseInv => \A a \in Ases : /\ ase[a] \in AseRec
                           /\ told[a] \in AseStates
                           /\ granted[a] \in SUBSET Edges
                           /\ Good(ase[a], told[a], granted[a])
<1> SUFFICES ASSUME AseInv, NEW a \in Ases
             PROVE  /\ ase[a] \in AseRec
                    /\ told[a] \in AseStates
                    /\ granted[a] \in SUBSET Edges
                    /\ Good(ase[a], told[a], granted[a])
  OBVIOUS
<1>1. /\ ase[a] \in AseRec
      /\ told[a] \in AseStates
      /\ granted[a] \in SUBSET Edges
  BY DEF AseInv, AseTypeOK, AseRec, AseStates, Edges
<1>2. Good(ase[a], told[a], granted[a])
  BY DEF AseInv, Granted, ReleasedIsClean, HostFollows, Good, Edges
<1>3. QED BY <1>1, <1>2

LEMMA OneBecomes ==
  ASSUME AseInv, NEW a \in Ases, NEW r \in AseRec,
         NEW s \in AseStates, NEW g \in SUBSET Edges,
         Becomes(a, r, s, g), Good(r, s, g)
  PROVE  AseInv'
<1>1. AseTypeOK /\ \A b \in Ases : Good(ase[b], told[b], granted[b])
  BY Each DEF AseInv
<1>2. AseTypeOK' BY <1>1 DEF AseTypeOK, Becomes, AseRec, AseStates, Edges
<1>3. ASSUME NEW b \in Ases PROVE Good(ase'[b], told'[b], granted'[b])
  <2>1. CASE b = a BY <1>1, <2>1 DEF AseTypeOK, Becomes
  <2>2. CASE b # a
    <3>1. ase'[b] = ase[b] /\ told'[b] = told[b] /\ granted'[b] = granted[b]
      BY <1>1, <2>2 DEF AseTypeOK, Becomes
    <3> QED BY <1>1, <3>1
  <2> QED BY <2>1, <2>2
<1> QED BY <1>2, <1>3 DEF AseInv, Good, Granted, ReleasedIsClean, HostFollows,
                          Edges

LEMMA AseStep == AseInv /\ AseNext => AseInv'
<1> SUFFICES ASSUME AseInv, AseNext PROVE AseInv'
  OBVIOUS
<1>1. /\ AseTypeOK
      /\ \A a \in Ases : /\ ase[a] \in AseRec
                        /\ told[a] \in AseStates
                        /\ granted[a] \in SUBSET Edges
                        /\ Good(ase[a], told[a], granted[a])
  BY Each DEF AseInv
<1>2. CASE UcSrvConfigure
  BY <1>2 DEF UcSrvConfigure, AseInv, AseTypeOK, Granted, ReleasedIsClean,
              HostFollows
(* A grant, a refusal or a plain step is a Becomes.                        *)
<1>3. ASSUME NEW a \in Ases, NEW r \in AseRec, NEW s \in AseStates,
             NEW g \in SUBSET Edges, SetState(a, r, s), UNCHANGED configured,
             Grant(a, g) \/ (UNCHANGED granted /\ g = granted[a]),
             Good([used |-> r.used, state |-> s, stream |-> r.stream,
                   dp |-> r.dp], s, g)
      PROVE  AseInv'
  <2> DEFINE q == [used |-> r.used, state |-> s, stream |-> r.stream,
                   dp |-> r.dp]
  <2>1. q \in AseRec BY DEF AseRec
  <2>2. [r EXCEPT !.state = s] = q BY DEF AseRec
  <2>3. granted' = [granted EXCEPT ![a] = g] BY <1>1, <1>3 DEF Grant, AseTypeOK
  <2>4. Becomes(a, q, s, g) BY <1>3, <2>2, <2>3 DEF SetState, Becomes
  <2> HIDE DEF q
  <2>5. Good(q, s, g) BY <1>3 DEF q
  <2> QED BY <2>1, <2>4, <2>5, OneBecomes
<1>4. ASSUME NEW a \in Ases, NEW r \in AseRec, Refused(a, r),
             UNCHANGED configured, Good(r, told[a], granted[a])
      PROVE  AseInv'
  <2>1. Becomes(a, r, told[a], granted[a])
    BY <1>1, <1>4 DEF Refused, Becomes, AseTypeOK
  <2> QED BY <1>1, <1>4, <2>1, OneBecomes
<1> USE DEF Idle, CodecConfigured, QosConfigured, Enabling, Streaming,
        Disabling, Releasing, Good, Edges, AseStates
<1>5. ASSUME NEW a \in Ases, ConfigureCodec(a) PROVE AseInv'
  <2> DEFINE r == [used |-> TRUE, state |-> ase[a].state,
                   stream |-> InvalidLid, dp |-> ase[a].dp]
  <2>2. r \in AseRec /\ r.used /\ r.state = ase[a].state
    BY <1>1 DEF AseRec
  <2>3. \/ SetState(a, r, CodecConfigured) /\ Grant(a, {"codec"})
        \/ Refused(a, r)
    BY <1>5 DEF ConfigureCodec
  <2>4. UNCHANGED configured BY <1>5 DEF ConfigureCodec
  <2> HIDE DEF r
  <2>5. CASE SetState(a, r, CodecConfigured) /\ Grant(a, {"codec"})
    BY <1>3, <2>2, <2>4, <2>5
  <2>6. CASE Refused(a, r) BY <1>1, <1>4, <2>2, <2>4, <2>6
  <2> QED BY <2>3, <2>5, <2>6
<1>6. ASSUME NEW a \in Ases, NEW lid \in StreamLids, ConfigureQos(a, lid)
      PROVE  AseInv'
  <2> DEFINE r == [ase[a] EXCEPT !.stream = lid]
             g == granted[a] \cup {"qos"}
  <2>1. r = [used |-> ase[a].used, state |-> ase[a].state, stream |-> lid,
             dp |-> ase[a].dp]
    BY <1>1 DEF AseRec
  <2>2. r \in AseRec /\ r.used = ase[a].used /\ r.state = ase[a].state
        /\ r.dp = ase[a].dp
    BY <1>1, <2>1 DEF AseRec
  <2>3. \/ SetState(a, r, QosConfigured) /\ Grant(a, g)
        \/ Refused(a, r)
    BY <1>6 DEF ConfigureQos
  <2>4. UNCHANGED configured /\ ase[a].used
        /\ ase[a].state \in {CodecConfigured, QosConfigured}
    BY <1>6 DEF ConfigureQos
  <2>5. g \in SUBSET Edges /\ {"codec", "qos"} \subseteq g BY <1>1, <2>4
  <2> HIDE DEF r, g
  <2>6. CASE SetState(a, r, QosConfigured) /\ Grant(a, g)
    <3>1. Good([used |-> r.used, state |-> QosConfigured,
                stream |-> r.stream, dp |-> r.dp], QosConfigured, g)
      BY <2>2, <2>4, <2>5
    <3>2. QosConfigured \in AseStates /\ UNCHANGED configured BY <2>4
    <3> QED BY <1>3, <2>2, <2>5, <2>6, <3>1, <3>2
  <2>7. CASE Refused(a, r) BY <1>1, <1>4, <2>2, <2>4, <2>7
  <2> QED BY <2>3, <2>6, <2>7
<1>7. ASSUME NEW a \in Ases, Enable(a) PROVE AseInv'
  <2> DEFINE g == granted[a] \cup {"enable"}
  <2>1. g = Edges /\ ase[a].used /\ UNCHANGED configured
    BY <1>1, <1>7 DEF Enable
  <2>2. CASE SetState(a, ase[a], Enabling) /\ Grant(a, g)
    BY <1>1, <1>3, <2>1, <2>2
  <2>3. CASE Refused(a, ase[a]) BY <1>1, <1>4, <2>1, <2>3
  <2> QED BY <1>7, <2>2, <2>3 DEF Enable
<1>8. ASSUME NEW a \in Ases, StartReady(a) \/ Disable(a) PROVE AseInv'
  <2>1. /\ ase[a].used /\ granted[a] = Edges
        /\ UNCHANGED <<configured, granted>>
    BY <1>1, <1>8 DEF StartReady, Disable
  <2>2. CASE SetState(a, ase[a], Streaming) BY <1>1, <1>3, <2>1, <2>2
  <2>3. CASE SetState(a, ase[a], Disabling) BY <1>1, <1>3, <2>1, <2>3
  <2> QED BY <1>8, <2>2, <2>3 DEF StartReady, Disable
<1>9. ASSUME NEW a \in Ases, Release(a) PROVE AseInv'
  <2> DEFINE r == [used |-> FALSE, state |-> Idle, stream |-> InvalidLid,
                   dp |-> FALSE]
  <2>2. r \in AseRec /\ ~r.dp /\ r.stream = InvalidLid BY DEF AseRec
  <2>3. \/ SetState(a, r, Idle) /\ Grant(a, {})
        \/ Refused(a, ase[a])
    BY <1>9 DEF Release
  <2>4. UNCHANGED configured BY <1>9 DEF Release
  <2> HIDE DEF r
  <2>5. CASE SetState(a, r, Idle) /\ Grant(a, {})
    BY <1>3, <2>2, <2>4, <2>5
  <2>6. CASE Refused(a, ase[a]) BY <1>1, <1>4, <2>4, <2>6
  <2> QED BY <2>3, <2>5, <2>6
<1>10. ASSUME NEW a \in Ases, DpUpdate(a) PROVE AseInv'
  <2> DEFINE r == [ase[a] EXCEPT !.dp = ~@]
  <2>1. r = [used |-> ase[a].used, state |-> ase[a].state,
             stream |-> ase[a].stream, dp |-> ~ase[a].dp]
    BY <1>1 DEF AseRec
  <2>2. r \in AseRec /\ r.used = ase[a].used /\ r.state = ase[a].state
    BY <1>1, <2>1 DEF AseRec
  <2>3. ase' = [ase EXCEPT ![a] = r] /\ ase[a].used
        /\ UNCHANGED <<configured, told, granted>>
    BY <1>10 DEF DpUpdate
  <2> HIDE DEF r
  <2>4. Refused(a, r) BY <2>3 DEF Refused
  <2> QED BY <1>1, <1>4, <2>2, <2>3, <2>4
<1> QED
  BY <1>2, <1>5, <1>6, <1>7, <1>8, <1>9, <1>10 DEF AseNext

-----------------------------------------------------------------------------
(* The data path.                                                          *)

(* A path that is being posted on is an input, and has the buffer.         *)
PathOK ==
  \A d \in Dps :
    /\ post[d].pc = "idle" => post[d] = NoPost
    /\ post[d].pc # "idle" =>
         d \in Inputs /\ dpBuf[d] # None /\ post[d].buf = dpBuf[d]
    /\ dpBuf[d] # None => state[d] = "bound"

(* What the BLE task takes stays posted until it is filled.                *)
HostOK ==
  /\ host.pc = "idle" => host = Rest
  /\ host.pc # "idle" => host.dp \in Outputs
  /\ host.pc = "take" => host.buf = None /\ dpBuf[host.dp] # None
  /\ host.pc \in {"store", "fill"} =>
       dpBuf[host.dp] # None /\ host.buf = dpBuf[host.dp]
  /\ host.pc = "callback" => dpBuf[host.dp] = None /\ host.buf \in Bufs

Filled(d, b) == host.pc = "callback" /\ host.dp = d /\ host.buf = b
Holds(d, b)  == dpBuf[d] = b \/ Filled(d, b)

OwnerOK ==
  \A b \in Bufs :
    /\ \A d, e \in Dps : Holds(d, b) /\ Holds(e, b) => d = e
    /\ b \in free <=> ~ \E d \in Dps : Holds(d, b)

IsoInv == IsoTypeOK /\ PathOK /\ HostOK /\ OwnerOK

LEMMA IsoInitial == IsoInit => IsoInv
BY IsoAssumption
   DEF IsoInit, IsoInv, IsoTypeOK, PathOK, HostOK, OwnerOK, Holds, Filled,
       Rest, NoPost, BleTask, Dps

LEMMA TrackType ==
  ASSUME IsoTypeOK, NEW d \in Dps, Track(d)
  PROVE  slot' \in [1 .. NbSlots -> Dps \cup {None}]
BY DEF Track, IsoTypeOK

LEMMA IsoStep == IsoInv /\ IsoNext => IsoInv'
<1> SUFFICES ASSUME IsoInv, IsoNext PROVE IsoInv'
  OBVIOUS
<1> USE IsoAssumption DEF IsoInv, Dps, NoPost, Rest
<1>1. ASSUME NEW d \in Dps, DpInit(d) \/ DpBind(d) PROVE IsoInv'
  <2>1. dpBuf[d] = None /\ UNCHANGED <<time, host, post, seen, free>>
    BY <1>1 DEF DpInit, DpBind, PathOK
  <2>2. dpBuf' = dpBuf BY <1>1, <2>1 DEF DpInit, DpBind, IsoTypeOK
  <2>3. IsoTypeOK'
    BY <1>1, <2>1, <2>2, TrackType DEF DpInit, DpBind, IsoTypeOK
  <2>4. PathOK' BY <1>1, <2>1, <2>2 DEF DpInit, DpBind, PathOK, IsoTypeOK
  <2>5. HostOK' BY <2>1, <2>2 DEF HostOK
  <2>6. OwnerOK' BY <2>1, <2>2 DEF OwnerOK, Holds, Filled
  <2> QED BY <2>3, <2>4, <2>5, <2>6
<1>2. ASSUME NEW d \in Dps, DpUnbind(d) PROVE IsoInv'
  <2>1. host.pc = "idle" BY <1>2 DEF DpUnbind, AtRest
  <2>2. IsoTypeOK' BY <1>2 DEF DpUnbind, IsoTypeOK
  <2>3. PathOK' BY <1>2 DEF DpUnbind, AtRest, PathOK, IsoTypeOK
  <2>4. HostOK' BY <1>2, <2>1 DEF DpUnbind, HostOK
  <2>5. OwnerOK'
    BY <1>2, <2>1 DEF DpUnbind, OwnerOK, Holds, Filled, IsoTypeOK
  <2> QED BY <2>2, <2>3, <2>4, <2>5
<1>3. ASSUME NEW d \in Dps, NEW b \in Bufs, SetBuf(d, b) PROVE IsoInv'
  <2>1. dpBuf[d] = None /\ post[d] = NoPost /\ host.dp # d
    BY <1>3 DEF SetBuf, Lent
  <2>2. IsoTypeOK' BY <1>3 DEF SetBuf, IsoTypeOK
  <2>3. PathOK' BY <1>3 DEF SetBuf, PathOK, IsoTypeOK
  <2>4. HostOK' BY <1>3, <2>1 DEF SetBuf, HostOK, IsoTypeOK
  <2>5. OwnerOK'
    BY <1>3, <2>1 DEF SetBuf, OwnerOK, Holds, Filled, IsoTypeOK
  <2> QED BY <2>2, <2>3, <2>4, <2>5
<1>4. ASSUME NEW d \in Dps, SendSdu(d) \/ TickLoad(d) \/ TickStore(d)
      PROVE  IsoInv'
  <2>1. PICK pc \in {"tick", "store", "sent"} :
          post' = [post EXCEPT ![d].pc = pc] /\ post[d].pc # "idle"
    BY <1>4 DEF SendSdu, TickLoad, TickStore, Goto
  <2>2. UNCHANGED <<slot, state, dpBuf, host, free>>
    BY <1>4 DEF SendSdu, TickLoad, TickStore
  <2>3. time' \in Nat /\ seen' \in [Dps \cup {BleTask} -> Nat]
    BY <1>4 DEF SendSdu, TickLoad, TickStore, Load, Store, IsoTypeOK
  <2>4. /\ post' \in [Dps -> [pc : {"idle", "send", "tick", "store", "sent"},
                              buf : Bufs \cup {None}]]
        /\ \A e \in Dps : e # d => post'[e] = post[e]
        /\ post'[d].pc # "idle" /\ post'[d].buf = post[d].buf
    BY <2>1 DEF IsoTypeOK
  <2>5. IsoTypeOK' BY <2>2, <2>3, <2>4 DEF IsoTypeOK
  <2>6. PathOK' BY <2>1, <2>2, <2>4 DEF PathOK
  <2>7. HostOK' BY <2>2 DEF HostOK
  <2>8. OwnerOK' BY <2>2 DEF OwnerOK, Holds, Filled
  <2> QED BY <2>5, <2>6, <2>7, <2>8
<1>5. ASSUME NEW d \in Dps, Transmitted(d) PROVE IsoInv'
  <2>1. d \in Inputs /\ post[d].buf = dpBuf[d] /\ dpBuf[d] \in Bufs
    BY <1>5 DEF Transmitted, PathOK, IsoTypeOK
  <2>2. host.pc # "idle" => host.dp # d BY <2>1 DEF HostOK
  <2>3. IsoTypeOK' BY <1>5, <2>1 DEF Transmitted, IsoTypeOK
  <2>4. PathOK' BY <1>5 DEF Transmitted, PathOK, IsoTypeOK
  <2>5. HostOK' BY <1>5, <2>2 DEF Transmitted, HostOK, IsoTypeOK
  <2>6. OwnerOK'
    BY <1>5, <2>1, <2>2 DEF Transmitted, OwnerOK, Holds, Filled, IsoTypeOK
  <2> QED BY <2>3, <2>4, <2>5, <2>6
<1>6. CASE HostFind
  <2>1. PICK d \in Outputs :
          dpBuf[d] # None /\ host' = [pc |-> "take", dp |-> d, buf |-> None]
    BY <1>6 DEF HostFind, Found, Bound
  <2>2. IsoTypeOK' BY <1>6, <2>1 DEF HostFind, IsoTypeOK
  <2>3. PathOK' BY <1>6 DEF HostFind, PathOK
  <2>4. HostOK' BY <1>6, <2>1 DEF HostFind, HostOK
  <2>5. OwnerOK' BY <1>6 DEF HostFind, OwnerOK, Holds, Filled
  <2> QED BY <2>2, <2>3, <2>4, <2>5
<1>7. CASE HostTake
  <2>1. host.dp \in Outputs /\ dpBuf[host.dp] \in Bufs
    BY <1>7 DEF HostTake, HostOK, IsoTypeOK
  <2>2. UNCHANGED <<slot, state, dpBuf, time, post, free>>
        /\ host' = [pc |-> "store", dp |-> host.dp, buf |-> dpBuf[host.dp]]
        /\ seen' = [seen EXCEPT ![BleTask] = time]
    BY <1>7 DEF HostTake, Load
  <2>3. IsoTypeOK' BY <2>1, <2>2 DEF IsoTypeOK, BleTask
  <2>4. PathOK' BY <2>2 DEF PathOK
  <2>5. HostOK' BY <2>1, <2>2 DEF HostOK
  <2>6. OwnerOK' BY <1>7, <2>2 DEF HostTake, OwnerOK, Holds, Filled
  <2> QED BY <2>3, <2>4, <2>5, <2>6
<1>8. CASE HostTick
  <2>1. /\ host.dp \in Outputs /\ host.buf = dpBuf[host.dp]
        /\ dpBuf[host.dp] \in Bufs
    BY <1>8 DEF HostTick, HostOK, IsoTypeOK
  <2>2. /\ UNCHANGED <<slot, state, dpBuf, seen, post, free>>
        /\ host' = [pc |-> "fill", dp |-> host.dp, buf |-> host.buf]
        /\ time' \in Nat
    BY <1>8 DEF HostTick, Store, IsoTypeOK, BleTask
  <2>3. IsoTypeOK' BY <2>1, <2>2 DEF IsoTypeOK
  <2>4. PathOK' BY <2>2 DEF PathOK
  <2>5. HostOK' BY <2>1, <2>2 DEF HostOK
  <2>6. OwnerOK' BY <1>8, <2>2 DEF HostTick, OwnerOK, Holds, Filled
  <2> QED BY <2>3, <2>4, <2>5, <2>6
<1>9. CASE HostFill
  <2>1. host.dp \in Outputs /\ host.buf = dpBuf[host.dp] /\ host.buf \in Bufs
    BY <1>9 DEF HostFill, HostOK, IsoTypeOK
  <2>2. IsoTypeOK' BY <1>9 DEF HostFill, IsoTypeOK
  <2>3. PathOK' BY <1>9, <2>1 DEF HostFill, PathOK, IsoTypeOK
  <2>4. HostOK' BY <1>9, <2>1 DEF HostFill, HostOK, IsoTypeOK
  <2>5. OwnerOK'
    BY <1>9, <2>1 DEF HostFill, OwnerOK, Holds, Filled, IsoTypeOK
  <2> QED BY <2>2, <2>3, <2>4, <2>5
<1>10. CASE HostCallback
  <2>1. host.dp \in Outputs /\ dpBuf[host.dp] = None /\ host.buf \in Bufs
    BY <1>10 DEF HostCallback, HostOK
  <2>2. IsoTypeOK' BY <1>10, <2>1 DEF HostCallback, IsoTypeOK
  <2>3. PathOK' BY <1>10 DEF HostCallback, PathOK
  <2>4. HostOK' BY <1>10 DEF HostCallback, HostOK
  <2>5. OwnerOK'
    BY <1>10, <2>1 DEF HostCallback, OwnerOK, Holds, Filled, IsoTypeOK
  <2> QED BY <2>2, <2>3, <2>4, <2>5
<1> QED
  BY <1>1, <1>2, <1>3, <1>4, <1>5, <1>6, <1>7, <1>8, <1>9, <1>10 DEF IsoNext

-----------------------------------------------------------------------------
(* The slots.                                                              *)

EnoughSlots == IsFiniteSet(Dps) /\ Cardinality(Dps) <= NbSlots

SlotInv ==
  /\ \A i, j \in 1 .. NbSlots : slot[i] = slot[j] /\ slot[i] # None => i = j
  /\ \A d \in Dps : state[d] = "bound" => \E i \in 1 .. NbSlots : slot[i] = d

(* A path that is not in a slot leaves one empty.                          *)
LEMMA RoomForOne ==
  ASSUME EnoughSlots, IsoTypeOK, SlotInv, NEW d \in Dps,
         \A i \in 1 .. NbSlots : slot[i] # d
  PROVE  \E i \in 1 .. NbSlots : slot[i] = None
<1> SUFFICES ASSUME \A i \in 1 .. NbSlots : slot[i] # None PROVE FALSE
  OBVIOUS
<1>1. slot \in [1 .. NbSlots -> Dps \ {d}] BY DEF IsoTypeOK
<1>2. /\ IsFiniteSet(1 .. NbSlots)
      /\ Cardinality(1 .. NbSlots) = NbSlots
  BY FS_Interval, IsoAssumption
<1>3. /\ IsFiniteSet(Dps \ {d})
      /\ Cardinality(Dps \ {d}) = Cardinality(Dps) - 1
  BY FS_RemoveElement DEF EnoughSlots
<1>4. Cardinality(Dps) \in Nat BY FS_CardinalityType DEF EnoughSlots
<1>5. Cardinality(Dps \ {d}) < Cardinality(1 .. NbSlots)
  BY <1>2, <1>3, <1>4, IsoAssumption DEF EnoughSlots
<1>6. \E x, y \in 1 .. NbSlots : x # y /\ slot[x] = slot[y]
  <2> DEFINE S == 1 .. NbSlots
             T == Dps \ {d}
  <2>1. IsFiniteSet(S) /\ IsFiniteSet(T) /\ Cardinality(T) < Cardinality(S)
    BY <1>2, <1>3, <1>5
  <2>2. slot \in [S -> T] BY <1>1
  <2> HIDE DEF S, T
  <2>3. \E x, y \in S : x # y /\ slot[x] = slot[y]
    BY <2>1, <2>2, FS_PigeonHole, Zenon
  <2> QED BY <2>3 DEF S
<1> QED BY <1>6 DEF SlotInv

(* iso_track puts the path in a slot of its own, and moves no other.       *)
LEMMA TrackSlots ==
  ASSUME EnoughSlots, IsoTypeOK, SlotInv, NEW d \in Dps, Track(d)
  PROVE  /\ \A i, j \in 1 .. NbSlots :
              slot'[i] = slot'[j] /\ slot'[i] # None => i = j
         /\ \E i \in 1 .. NbSlots : slot'[i] = d
         /\ \A e \in Dps : (\E i \in 1 .. NbSlots : slot[i] = e)
                          => (\E i \in 1 .. NbSlots : slot'[i] = e)
<1>1. DOMAIN slot = 1 .. NbSlots BY DEF IsoTypeOK
<1>2. None \notin Dps BY IsoAssumption DEF Dps
<1>3. CASE \E i \in DOMAIN slot : slot[i] = d
  BY <1>1, <1>3 DEF Track, SlotInv
<1>4. CASE \A i \in DOMAIN slot : slot[i] # d
  <2>1. \E i \in 1 .. NbSlots : slot[i] = None BY <1>1, <1>4, RoomForOne
  <2>2. PICK i \in 1 .. NbSlots :
          slot[i] = None /\ slot' = [slot EXCEPT ![i] = d]
    BY <1>1, <1>4, <2>1 DEF Track
  <2>3. slot'[i] = d /\ \A j \in 1 .. NbSlots : j # i => slot'[j] = slot[j]
    BY <1>1, <2>2
  <2> QED BY <1>1, <1>2, <1>4, <2>2, <2>3 DEF SlotInv
<1> QED BY <1>3, <1>4

LEMMA SlotStep ==
  ASSUME EnoughSlots
  PROVE  IsoInv /\ SlotInv /\ IsoNext => SlotInv'
<1> SUFFICES ASSUME IsoInv, SlotInv, IsoNext PROVE SlotInv'
  OBVIOUS
<1>1. ASSUME NEW d \in Dps, DpInit(d) \/ DpBind(d) PROVE SlotInv'
  <2>1. Track(d) /\ IsoTypeOK BY <1>1 DEF DpInit, DpBind, IsoInv
  <2>2. \A e \in Dps : e # d => state'[e] = state[e]
    BY <1>1, <2>1 DEF DpInit, DpBind, IsoTypeOK
  <2> QED BY <2>1, <2>2, TrackSlots DEF SlotInv
<1>2. ASSUME NEW d \in Dps, DpUnbind(d) PROVE SlotInv'
  <2>1. /\ \A i \in 1 .. NbSlots :
             slot'[i] = IF slot[i] = d THEN None ELSE slot[i]
        /\ state' = [state EXCEPT ![d] = "initialized"]
    BY <1>2 DEF DpUnbind, IsoInv, IsoTypeOK
  <2>2. \A e \in Dps : state'[e] = IF e = d THEN "initialized" ELSE state[e]
    BY <2>1 DEF IsoInv, IsoTypeOK
  <2> QED BY <2>1, <2>2 DEF SlotInv
<1>3. CASE UNCHANGED <<slot, state>> BY <1>3 DEF SlotInv
<1> QED
  BY <1>1, <1>2, <1>3
  DEF IsoNext, SetBuf, SendSdu, TickLoad, TickStore, Transmitted, HostFind,
      HostTake, HostTick, HostFill, HostCallback

-----------------------------------------------------------------------------
IInv == AseInv /\ IsoInv

LEMMA InitInv == Init => IInv /\ SlotInv
<1> SUFFICES ASSUME Init PROVE IInv /\ SlotInv OBVIOUS
<1>1. AseInv
  <2> USE DEF Idle, CodecConfigured, QosConfigured, Enabling, Streaming,
              Disabling, Releasing
  <2>1. \A a \in Ases :
          /\ ase[a] = [used |-> FALSE, state |-> 0, stream |-> 0, dp |-> FALSE]
          /\ told[a] = 0 /\ granted[a] = {}
    BY DEF Init, AseInit
  <2>2. AseTypeOK
    <3> DEFINE rec == [used |-> FALSE, state |-> 0, stream |-> 0, dp |-> FALSE]
    <3>1. rec \in [used : BOOLEAN, state : 0 .. 6,
                   stream : StreamLids \cup {InvalidLid}, dp : BOOLEAN]
      BY AseAssumption
    <3>2. ase = [a \in Ases |-> rec] BY DEF Init, AseInit
    <3> HIDE DEF rec
    <3>3. ase \in [Ases -> [used : BOOLEAN, state : 0 .. 6,
                           stream : StreamLids \cup {InvalidLid},
                           dp : BOOLEAN]]
      BY <3>1, <3>2
    <3> QED BY <3>3 DEF Init, AseInit, AseTypeOK
  <2>3. ASSUME NEW a \in Ases PROVE ase[a].state = 0 /\ ase[a].stream = 0
    <3> DEFINE r == ase[a]
    <3>1. r = [used |-> FALSE, state |-> 0, stream |-> 0, dp |-> FALSE]
      BY <2>1
    <3> HIDE DEF r
    <3>2. r.state = 0 /\ r.stream = 0 BY <3>1
    <3> QED BY <3>2 DEF r
  <2>4. Granted
    <3>1. ASSUME NEW a \in Ases
          PROVE  /\ ase[a].state \notin Enabling .. Disabling
                 /\ ase[a].state # QosConfigured
                 /\ ase[a].state # CodecConfigured
      BY <2>3
    <3> QED BY <3>1 DEF Granted
  <2>5. ReleasedIsClean /\ HostFollows
    BY <2>1, <2>3 DEF ReleasedIsClean, HostFollows
  <2> QED BY <2>2, <2>4, <2>5 DEF AseInv
<1>2. IsoInv BY IsoInitial DEF Init
<1>3. SlotInv BY DEF Init, IsoInit, SlotInv
<1> QED BY <1>1, <1>2, <1>3 DEF IInv

LEMMA StepInv == IInv /\ [Next]_vars => IInv'
<1> SUFFICES ASSUME IInv, [Next]_vars PROVE IInv' OBVIOUS
<1>1. UNCHANGED aseVars => AseInv'
  BY DEF IInv, AseInv, AseTypeOK, Granted, ReleasedIsClean, HostFollows,
         aseVars
<1>2. UNCHANGED isoVars => IsoInv'
  BY DEF IInv, IsoInv, IsoTypeOK, PathOK, HostOK, OwnerOK, Holds, Filled,
         isoVars
<1>3. CASE AseOp BY <1>2, <1>3, AseStep DEF AseOp, IInv
<1>4. CASE IsoNext /\ UNCHANGED aseVars BY <1>1, <1>4, IsoStep DEF IInv
<1>5. CASE UNCHANGED vars BY <1>1, <1>2, <1>5 DEF vars, IInv
<1> QED BY <1>3, <1>4, <1>5 DEF Next

LEMMA SpecInv == Spec => []IInv
<1>1. Init => IInv BY InitInv
<1>2. IInv /\ [Next]_vars => IInv' BY StepInv
<1> QED BY <1>1, <1>2, PTL DEF Spec

(***************************************************************************)
(* Types: a stream of the central, an input path never taken for an output *)
(* and, since hstub_gapi_isooshm_dp_unbind hands back only a buffer there  *)
(* is, never a null pointer among the firmware's buffers.                  *)
(***************************************************************************)
THEOREM TypeCorrect == Spec => []TypeOK
<1>1. IInv => TypeOK BY DEF IInv, AseInv, IsoInv, TypeOK
<1> QED BY <1>1, SpecInv, PTL

(***************************************************************************)
(* No ASE is past an edge the firmware has not agreed to since its codec   *)
(* was configured (the cfm calls of stub_ase.c), for any number of ASEs.   *)
(***************************************************************************)
THEOREM EdgesGranted == Spec => []Granted
<1>1. IInv => Granted BY DEF IInv, AseInv
<1> QED BY <1>1, SpecInv, PTL

(***************************************************************************)
(* stub_ase_release leaves an idle ASE with its data path shut and without *)
(* a stream of the central's, for any number of ASEs.  (One whose first    *)
(* codec was refused is in use, and not meant.)                            *)
(***************************************************************************)
THEOREM ReleasedLeavesNothing == Spec => []ReleasedIsClean
<1>1. IInv => ReleasedIsClean BY DEF IInv, AseInv
<1> QED BY <1>1, SpecInv, PTL

(***************************************************************************)
(* ase_set_state announces every change: between operations the central    *)
(* knows the state of every ASE.                                           *)
(***************************************************************************)
THEOREM CentralFollows == Spec => []HostFollows
<1>1. IInv => HostFollows BY DEF IInv, AseInv
<1> QED BY <1>1, SpecInv, PTL

(***************************************************************************)
(* An SDU buffer that dp_set_buf has taken is on one path until a callback *)
(* or dp_unbind gives it back, for any number of paths and buffers and     *)
(* whatever the audio threads and the BLE task do at the same time.        *)
(***************************************************************************)
THEOREM BufferOwned == Spec => []BufferHasOneOwner
<1>1. IInv => BufferHasOneOwner
  <2> SUFFICES ASSUME IInv, NEW b \in Bufs
               PROVE  Cardinality(HeldBy(b)) = IF b \in free THEN 0 ELSE 1
    BY DEF BufferHasOneOwner
  <2>1. \A d \in Dps : d \in HeldBy(b) <=> Holds(d, b)
    BY IsoAssumption
       DEF IInv, IsoInv, IsoTypeOK, PathOK, HostOK, HeldBy, Holds, Filled,
           NoPost, Rest
  <2>2. HeldBy(b) \subseteq Dps BY DEF HeldBy
  <2>3. CASE b \in free
    <3>1. HeldBy(b) = {} BY <2>1, <2>2, <2>3 DEF IInv, IsoInv, OwnerOK
    <3> QED BY <2>3, <3>1, FS_EmptySet
  <2>4. CASE b \notin free
    <3>1. PICK d \in Dps : Holds(d, b) BY <2>4 DEF IInv, IsoInv, OwnerOK
    <3>2. HeldBy(b) = {d}
      BY <2>1, <2>2, <3>1 DEF IInv, IsoInv, OwnerOK
    <3> QED BY <2>4, <3>2, FS_Singleton
  <2> QED BY <2>3, <2>4
<1> QED BY <1>1, SpecInv, PTL

(***************************************************************************)
(* Where the firmware has no more paths than STUB_MAX_DP, a path on which  *)
(* an output buffer is posted is in one slot, and iso_find returns it      *)
(* while no other output path is open.                                     *)
(***************************************************************************)
THEOREM PostedFound == EnoughSlots => (Spec => []PostedIsReachable)
<1> SUFFICES ASSUME EnoughSlots PROVE Spec => []PostedIsReachable OBVIOUS
<1>1. Init => IInv /\ SlotInv BY InitInv
<1>2. IInv /\ SlotInv /\ [Next]_vars => (IInv /\ SlotInv)'
  <2> SUFFICES ASSUME IInv, SlotInv, [Next]_vars PROVE (IInv /\ SlotInv)'
    OBVIOUS
  <2>1. IInv' BY StepInv
  <2>2. IsoNext => SlotInv' BY SlotStep DEF IInv
  <2>3. UNCHANGED isoVars => SlotInv' BY DEF isoVars, SlotInv
  <2> QED BY <2>1, <2>2, <2>3 DEF Next, AseOp, vars
<1>3. IInv /\ SlotInv => PostedIsReachable
  <2> SUFFICES ASSUME IInv, SlotInv, NEW d \in Outputs, dpBuf[d] # None
               PROVE  \E i \in DOMAIN slot :
                        /\ slot[i] = d
                        /\ \A j \in DOMAIN slot \ {i} : slot[j] # d
                        /\ OnlyOpen(d) => Found(i)
    BY DEF PostedIsReachable
  <2>1. state[d] = "bound" BY DEF IInv, IsoInv, PathOK, Dps
  <2>2. PICK i \in 1 .. NbSlots : slot[i] = d BY <2>1 DEF SlotInv, Dps
  <2>3. DOMAIN slot = 1 .. NbSlots BY DEF IInv, IsoInv, IsoTypeOK
  <2>4. \A j \in DOMAIN slot \ {i} : slot[j] # d
    BY <2>2, <2>3, IsoAssumption DEF SlotInv
  <2>5. ASSUME OnlyOpen(d) PROVE Found(i)
    <3>1. Bound(i) BY <2>1, <2>2 DEF Bound
    <3>2. \A j \in DOMAIN slot : Bound(j) => j = i
      BY <2>4, <2>5 DEF Bound, OnlyOpen
    <3> QED BY <2>3, <3>1, <3>2 DEF Found
  <2> QED BY <2>2, <2>3, <2>4, <2>5
<1> QED BY <1>1, <1>2, <1>3, PTL DEF Spec
=============================================================================
