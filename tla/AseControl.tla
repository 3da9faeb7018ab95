----------------------------- MODULE AseControl -----------------------------
(***************************************************************************)
(* The BAP unicast server of the ROM stub (stub_ase.c): the audio stream   *)
(* endpoints (ASEs), driven by a central that the host fabricates with     *)
(* HALO_BLE_OP_ASE_* frames.  At three of the edges, at the release and    *)
(* for the data path the firmware is asked; its answer arrives on the      *)
(* caller's thread, inside the callback, so that an operation is one step  *)
(* of the BLE task.  A frame for an ASE the stub does not have is ignored. *)
(***************************************************************************)
EXTENDS Naturals

CONSTANTS
  Ases,       (* the ASEs: STUB_MAX_ASE                                    *)
  StreamLids, (* stream_lid                                                *)
  InvalidLid  (* GAF_INVALID_LID                                           *)

ASSUME AseAssumption == 0 \in StreamLids /\ InvalidLid \notin StreamLids

VARIABLES
  configured, (* uc_srv_configured: the firmware's callbacks are there     *)
  ase,        (* struct stub_ase of each                                   *)
  told,       (* the state the last EVT_ASE_STATE of each reported         *)
  granted     (* history: the edges the firmware has agreed to             *)

aseVars == <<configured, ase, told, granted>>

Idle == 0
CodecConfigured == 1
QosConfigured == 2
Enabling == 3
Streaming == 4
Disabling == 5
Releasing == 6

AseInit ==
  /\ configured = FALSE
  /\ ase = [a \in Ases |->
              [used |-> FALSE, state |-> Idle, stream |-> 0, dp |-> FALSE]]
  /\ told = [a \in Ases |-> Idle]
  /\ granted = [a \in Ases |-> {}]

-----------------------------------------------------------------------------
(* ase_set_state: a record in its new state, and the event.                *)
SetState(a, rec, s) ==
  /\ ase' = [ase EXCEPT ![a] = [rec EXCEPT !.state = s]]
  /\ told' = [told EXCEPT ![a] = s]

(* A refusal, of an operation that has made the record rec.                *)
Refused(a, rec) ==
  /\ ase' = [ase EXCEPT ![a] = rec]
  /\ UNCHANGED <<told, granted>>

Grant(a, edges) == granted' = [granted EXCEPT ![a] = edges]

(* hstub_bap_uc_srv_configure.                                             *)
UcSrvConfigure ==
  /\ configured' = TRUE
  /\ UNCHANGED <<ase, told, granted>>

(* stub_ase_configure_codec asks in whatever state the ASE is.             *)
ConfigureCodec(a) ==
  LET rec == [used |-> TRUE, state |-> ase[a].state, stream |-> InvalidLid,
              dp |-> ase[a].dp] IN
  /\ configured
  /\ \/ SetState(a, rec, CodecConfigured) /\ Grant(a, {"codec"})
     \/ Refused(a, rec)
  /\ UNCHANGED configured

(* Mutant: the firmware is asked without a look at the state.              *)
ConfigureQosAnyState(a, lid) ==
  LET rec == [ase[a] EXCEPT !.stream = lid] IN
  /\ configured /\ ase[a].used
  /\ \/ SetState(a, rec, QosConfigured) /\ Grant(a, granted[a] \cup {"qos"})
     \/ Refused(a, rec)
  /\ UNCHANGED configured

ConfigureQos(a, lid) ==
  LET rec == [ase[a] EXCEPT !.stream = lid] IN
  /\ configured /\ ase[a].used
  /\ ase[a].state \in {CodecConfigured, QosConfigured}
  /\ \/ SetState(a, rec, QosConfigured) /\ Grant(a, granted[a] \cup {"qos"})
     \/ Refused(a, rec)
  /\ UNCHANGED configured

Enable(a) ==
  /\ configured /\ ase[a].used
  /\ ase[a].state = QosConfigured
  /\ \/ SetState(a, ase[a], Enabling) /\ Grant(a, granted[a] \cup {"enable"})
     \/ Refused(a, ase[a])
  /\ UNCHANGED configured

StartReady(a) ==
  /\ ase[a].used
  /\ ase[a].state = Enabling
  /\ SetState(a, ase[a], Streaming)
  /\ UNCHANGED <<configured, granted>>

Disable(a) ==
  /\ ase[a].used
  /\ ase[a].state \in {Enabling, Streaming}
  /\ SetState(a, ase[a], Disabling)
  /\ UNCHANGED <<configured, granted>>

(* Mutant: the data path's mark outlives the stream.                       *)
ReleaseKeepsPath(a) ==
  LET rec == [used |-> FALSE, state |-> Idle, stream |-> InvalidLid,
              dp |-> ase[a].dp] IN
  /\ configured /\ ase[a].used
  /\ ase[a].state # Idle
  /\ \/ SetState(a, rec, Idle) /\ Grant(a, {})
     \/ Refused(a, ase[a])
  /\ UNCHANGED configured

(* By way of Releasing, or not: the events of both end in Idle.            *)
Release(a) ==
  LET rec == [used |-> FALSE, state |-> Idle, stream |-> InvalidLid,
              dp |-> FALSE] IN
  /\ configured /\ ase[a].used
  /\ ase[a].state # Idle
  /\ \/ SetState(a, rec, Idle) /\ Grant(a, {})
     \/ Refused(a, ase[a])
  /\ UNCHANGED configured

(* The firmware accepts a start or a stop, and dp_started is inverted.     *)
DpUpdate(a) ==
  /\ configured /\ ase[a].used
  /\ ase' = [ase EXCEPT ![a].dp = ~@]
  /\ UNCHANGED <<configured, told, granted>>

AseNext ==
  \/ UcSrvConfigure
  \/ \E a \in Ases :
       \/ ConfigureCodec(a)
       \/ \E lid \in StreamLids : ConfigureQos(a, lid)
       \/ Enable(a) \/ StartReady(a) \/ Disable(a)
       \/ Release(a) \/ DpUpdate(a)
-----------------------------------------------------------------------------
(* Properties.                                                             *)

AseTypeOK ==
  /\ configured \in BOOLEAN
  /\ ase \in [Ases -> [used : BOOLEAN, state : Idle .. Releasing,
                       stream : StreamLids \cup {InvalidLid}, dp : BOOLEAN]]
  /\ told \in [Ases -> Idle .. Releasing]
  /\ granted \in [Ases -> SUBSET {"codec", "qos", "enable"}]

(***************************************************************************)
(* "The server asking permission at each of the first three edges": an ASE *)
(* is past an edge only if the firmware has agreed to it, and to those     *)
(* before it, since the codec was last configured, whatever the firmware   *)
(* refused and the host repeated in between.                               *)
(***************************************************************************)
Granted ==
  \A a \in Ases :
    /\ ase[a].state \in Enabling .. Disabling =>
         granted[a] = {"codec", "qos", "enable"}
    /\ ase[a].state = QosConfigured => {"codec", "qos"} \subseteq granted[a]
    /\ ase[a].state = CodecConfigured => granted[a] = {"codec"}

(***************************************************************************)
(* An ASE that is not in use is idle, has its data path shut and no stream *)
(* of the central's, only the zero it was made with: nothing of a stream   *)
(* that was released is met by the next one.                               *)
(***************************************************************************)
ReleasedIsClean ==
  \A a \in Ases : ~ase[a].used =>
    /\ ase[a].state = Idle
    /\ ~ase[a].dp
    /\ ase[a].stream \in {0, InvalidLid}

(***************************************************************************)
(* "Let the host follow the state machine it is driving": between          *)
(* operations the central knows the state of every ASE.                    *)
(***************************************************************************)
HostFollows == \A a \in Ases : told[a] = ase[a].state
=============================================================================
