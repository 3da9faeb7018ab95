------------------------------ MODULE AvBridge ------------------------------
(***************************************************************************)
(* The web bridge (tools/av_bridge.py): the phone whose microphone and     *)
(* camera it feeds to the emulator, and the pages it mirrors the panel to. *)
(* Its coroutines take turns: a step here is what one of them does between *)
(* two awaits.  The emulator loops the WAV file it was given last; a QMP   *)
(* call that was cut off is made again, and any call may fail.             *)
(***************************************************************************)
EXTENDS Naturals, FiniteSets

CONSTANTS
  Phones,    (* handlers of /ws/phone that may run at a time               *)
  Viewers,   (* handlers of /ws/display                                    *)
  None,      (* no phone                                                   *)
  BufChunks, (* MIC_BUF_MS: chunks mic_buf holds                           *)
  MaxPanel   (* bound: changes of the panel                                *)

ASSUME AvAssumption == IsFiniteSet(Viewers) /\ BufChunks \in Nat

VARIABLES
  phone,    (* where each handler of a phone is                            *)
  phoneWs,  (* phone_ws                                                    *)
  closed,   (* the sockets that a newer phone has closed                   *)
  micLoop,  (* mic_loop: where it is, _mic_active, _mic_idx, mic_buf;      *)
            (* missed is history: a call failed, and none has mended it    *)
  quiet,    (* no audio came for 1.5 chunks                                *)
  looping,  (* the file that the emulator loops, or None                   *)
  panel,    (* the emulator's picture                                      *)
  page,     (* display_loop: where it is, last_crc, display_dirty, ...     *)
  clients,  (* display_clients                                             *)
  shown     (* what each viewer has got                                    *)

avVars == <<phone, phoneWs, closed, micLoop, quiet, looping, panel, page,
            clients, shown>>
phoneVars == <<phone, phoneWs, closed>>
soundVars == <<micLoop, quiet, looping>>
viewVars == <<panel, page, clients, shown>>

AvInit ==
  /\ phone = [p \in Phones |-> "none"] /\ phoneWs = None /\ closed = {}
  /\ micLoop = [at |-> "sleep", active |-> FALSE, idx |-> 0, buf |-> 0,
                missed |-> FALSE]
  /\ quiet = TRUE /\ looping = None
  /\ panel = 0 /\ clients = {}
  /\ page = [at |-> "sleep", crc |-> 0, dirty |-> TRUE, todo |-> {},
             size |-> 0, cut |-> FALSE]
  /\ shown = [v \in Viewers |-> 0]

-----------------------------------------------------------------------------
(* ws_phone: "newest phone wins".                                          *)
Connect(p) ==
  /\ phone[p] = "none"
  /\ IF phoneWs = None
     THEN /\ phone' = [phone EXCEPT ![p] = "loop"] /\ phoneWs' = p
          /\ UNCHANGED closed
     ELSE /\ phone' = [phone EXCEPT ![p] = "evict"]
          /\ closed' = closed \cup {phoneWs}
          /\ UNCHANGED phoneWs
  /\ UNCHANGED <<soundVars, viewVars>>

Evicted(p) ==
  /\ phone[p] = "evict"
  /\ phone' = [phone EXCEPT ![p] = "loop"] /\ phoneWs' = p
  /\ UNCHANGED <<closed, soundVars, viewVars>>

(* A message tagged 0x01; the oldest is dropped beyond the cap.            *)
Audio(p) ==
  /\ phone[p] = "loop" /\ p \notin closed
  /\ micLoop' = [micLoop EXCEPT !.buf = IF @ < BufChunks THEN @ + 1 ELSE @]
  /\ quiet' = FALSE
  /\ UNCHANGED <<phoneVars, looping, viewVars>>

(* The handler's end, and its finally clause.                              *)
Leave(p) ==
  /\ phone[p] = "loop"
  /\ phone' = [phone EXCEPT ![p] = "none"]
  /\ phoneWs' = IF phoneWs = p THEN None ELSE phoneWs
  /\ closed' = closed \ {p}
  /\ UNCHANGED <<soundVars, viewVars>>

Quiet == quiet' = TRUE /\ UNCHANGED <<phoneVars, micLoop, looping, viewVars>>

-----------------------------------------------------------------------------
(* mic_loop: "alternate paths".                                            *)
Swapping(m) == [m EXCEPT !.at = "set", !.idx = 1 - @, !.buf = @ - 1]

MicStep(m, file) == micLoop' = m /\ looping' = file
                    /\ UNCHANGED <<quiet, phoneVars, viewVars>>

MicWake ==
  /\ micLoop.at = "sleep"
  /\ \/ /\ micLoop.buf > 0
        /\ MicStep(IF micLoop.active THEN [micLoop EXCEPT !.at = "ask"]
                   ELSE Swapping(micLoop), looping)
     \/ /\ micLoop.buf = 0 /\ micLoop.active /\ quiet
        /\ MicStep([micLoop EXCEPT !.at = "hush"], looping)

(* The guest has consumed the chunk, or the wall clock says so, or not yet.*)
MicAsked ==
  /\ micLoop.at = "ask"
  /\ \/ MicStep(Swapping(micLoop), looping)
     \/ MicStep([micLoop EXCEPT !.at = "sleep"], looping)

(* AsyncWire.call: it succeeds, is made a second time, or raises, with or  *)
(* without its effect.  Whatever raises, _mic_idx stays as it was turned   *)
(* and _mic_active as it was.                                              *)
MicSet ==
  /\ micLoop.at = "set"
  /\ \/ \E at \in {"set", "count"} :
          MicStep([micLoop EXCEPT !.at = at], micLoop.idx)
     \/ MicStep([micLoop EXCEPT !.at = "sleep", !.missed = TRUE], looping)

MicCount ==
  /\ micLoop.at = "count"
  /\ \/ MicStep([micLoop EXCEPT !.at = "sleep", !.active = TRUE,
                               !.missed = FALSE], looping)
     \/ MicStep([micLoop EXCEPT !.at = "sleep", !.missed = TRUE], looping)

(* What the call for silence raises is swallowed.                          *)
MicHush ==
  /\ micLoop.at = "hush"
  /\ \E missed \in BOOLEAN, file \in {looping, None} :
       /\ missed \/ file = None
       /\ MicStep([micLoop EXCEPT !.at = "sleep", !.active = FALSE,
                                 !.missed = missed], file)

-----------------------------------------------------------------------------
(* display_loop, ws_display and _broadcast.                                *)
PanelChanges ==
  /\ panel < MaxPanel /\ panel' = panel + 1
  /\ UNCHANGED <<page, clients, shown, phoneVars, soundVars>>

(* Mutant: a page that joins gets the next picture that is another.        *)
JoinUnnoticed(v) ==
  /\ v \notin clients
  /\ clients' = clients \cup {v}
  /\ shown' = [shown EXCEPT ![v] = 0]
  /\ UNCHANGED <<panel, page, phoneVars, soundVars>>

Join(v) ==
  /\ v \notin clients
  /\ clients' = clients \cup {v}
  /\ page' = [page EXCEPT !.dirty = TRUE]
  /\ shown' = [shown EXCEPT ![v] = 0]
  /\ UNCHANGED <<panel, phoneVars, soundVars>>

Part(v) ==
  /\ v \in clients /\ clients' = clients \ {v}
  /\ UNCHANGED <<panel, page, shown, phoneVars, soundVars>>

PageStep(p) == page' = p /\ UNCHANGED <<panel, clients, phoneVars, soundVars>>

Dump ==
  /\ page.at = "sleep" /\ (panel # page.crc \/ page.dirty) /\ clients # {}
  /\ PageStep([page EXCEPT !.at = "send", !.crc = panel, !.dirty = FALSE,
                           !.todo = clients, !.size = Cardinality(clients)])
  /\ UNCHANGED shown

(* The iteration raises if the set's size is not what it was.              *)
SendTo(v) ==
  /\ page.at = "send" /\ Cardinality(clients) = page.size
  /\ v \in page.todo \cap clients
  /\ PageStep([page EXCEPT !.todo = @ \ {v}])
  /\ shown' = [shown EXCEPT ![v] = page.crc]

Raise ==
  /\ page.at = "send" /\ Cardinality(clients) # page.size
  /\ PageStep([page EXCEPT !.at = "sleep", !.todo = {},
                           !.cut = @ \/ Cardinality(clients) < page.size])
  /\ UNCHANGED shown

Sent1 ==
  /\ page.at = "send" /\ Cardinality(clients) = page.size
  /\ page.todo \cap clients = {}
  /\ PageStep([page EXCEPT !.at = "sleep", !.todo = {}, !.cut = FALSE])
  /\ UNCHANGED shown

AvPhoneNext ==
  \/ \E p \in Phones : Connect(p) \/ Evicted(p) \/ Audio(p) \/ Leave(p)
  \/ Quiet
  \/ MicWake \/ MicAsked \/ MicSet \/ MicCount \/ MicHush

AvPageNext ==
  \/ PanelChanges \/ Dump \/ Raise \/ Sent1
  \/ \E v \in Viewers : Join(v) \/ Part(v) \/ SendTo(v)

AvTypeOK ==
  /\ phone \in [Phones -> {"none", "evict", "loop"}]
  /\ phoneWs \in Phones \cup {None} /\ closed \subseteq Phones
  /\ micLoop.at \in {"sleep", "ask", "set", "count", "hush"}
  /\ micLoop.buf \in 0..BufChunks /\ looping \in {None, 0, 1}
  /\ clients \subseteq Viewers

(* What the emulator loops is the bridge's own to silence, or is being     *)
(* taken over, and the next chunk is written to the other file; but for a  *)
(* call that failed, until a chunk or a silence is set with no failure.    *)
LoopIsOwned ==
  /\ looping # None => \/ micLoop.active \/ micLoop.missed
                       \/ micLoop.at \in {"set", "count"}
  /\ micLoop.at \in {"sleep", "ask"} =>
       looping \in {None, micLoop.idx} \/ micLoop.missed

(* A page that has not got the panel's picture is going to, with no change *)
(* of the picture: whoever joins or leaves in the middle of a broadcast,   *)
(* but for one that was cut short by a page that left.                     *)
PanelIsShown == \A v \in clients :
  shown[v] # panel => \/ panel # page.crc \/ page.dirty
                      \/ page.at = "send" /\ v \in page.todo
                      \/ page.at = "send" /\ Cardinality(clients) < page.size
                      \/ page.cut

(* The bridge knows what the emulator loops, and a page that lacks the     *)
(* panel's picture is to be sent it: but for a call that has failed, and   *)
(* for a broadcast cut short.                                              *)
BridgeIsCurrent == LoopIsOwned /\ PanelIsShown
=============================================================================
