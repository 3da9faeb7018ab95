# Verification of halo-emu

halo-emu runs the unmodified firmware of the Halo glasses in QEMU.  The chip's
Bluetooth controller and its ROM are not emulated: a *ROM stub* linked at the
ROM's addresses stands in for them and talks to the host over a mailbox in
shared memory, the *doorbell*, which a QEMU device connects to a socket.  A
bridge on the host serves the firmware's Lua REPL to clients over that socket.

The rest of the chip is the machine `halo.c` builds: its devices, which the
host drives through a control socket, and a web bridge that plays them the
microphone and the camera of a phone.

The modules here are TLA+ models of the path of the REPL, from a client's
socket down to the firmware's callbacks and back; of the ROM stub's GATT server
and LE Audio services; of the machine's devices, each with the driver that uses
it, under the machine's reset; and of the web bridge.  TLC checks them on small
instances; TLAPS proves the central invariants for every value of the
constants.  The paths below are relative to `src/`.

## 1. The system

| Component | State | Operations | Interacts by |
|---|---|---|---|
| Doorbell device, `patches/files/hw/arm/halo_ble.c` | reassembly buffer, `rx_blocked` and its retry timer, ring headers | chardev can-read/read, `h2g_push`, retry, `g2h_drain` on a kick, machine reset | socket with the host; rings, interrupt and MMIO with the guest |
| Ring protocol of the stub, `rom-stub/src/stub_ipc.c`, `halo_rom_ipc.h` | head and tail counters of both rings | init, receive, send with a bounded retry, kick | shared memory, MMIO |
| ROM entry and BLE task, `stub_core.c` | stack state, posted event | interrupt handler, `rwip_process`, dispatch of host ops | firmware's semaphore and hooks |
| Link, `stub_gapc.c` | connected, bonded, security | connect, security, disconnect from either side | host ops, firmware callbacks, events |
| GAP manager, `stub_gapm.c` | configured, advertising, identity, users, services | configure, advertise, reset | firmware calls, events |
| GATT server, `stub_gatt.c`, and buffer pool, `stub_cobuf.c` | pending confirmation and token, ten buffers | register, host write, host read, confirm, notify; allocate, acquire, release | host ops, firmware callbacks and threads |
| LE Audio, `stub_ase.c`, `stub_gaf.c`, `stub_iso.c` | ASE states, data-path slots, posted buffers, clock | the ASE operations and confirmations; init, bind, set_buf, unbind, host SDU | host ops, audio threads |
| LC3 codec, `stub_lc3.c` | none of its own | encode, decode | firmware calls |
| REPL bridge, `tools/ble_bridge.py` | client slot, handles, three events | accept, attach, forward, handle events, drop | doorbell socket, TCP clients, threads under one lock |
| Machine, `patches/files/hw/arm/halo.c` | whether the TCMs are kept | reset, the host's inputs | every device; control socket |
| Watchdog, `halo_wdog.c`; secure enclave, `halo_se.c` | lock, latched expiry, delayed reset; mailbox channels | injected expiry, arming, feeding; requests | NMI, interrupts, the machine's reset |
| RTC, `halo_rtc.c`; GPIO, `halo_gpio.c`; ADC and PWM, `halo_adc.c`, `halo_utimer.c` | counter's base, match and timer; a pin's registers and latch; conversions, duty | MMIO, timer, the host's buttons and battery | interrupts |
| I2C, `hw/i2c/designware_i2c.c`; sensors, `halo_bma580.c`, `halo_qmc6308.c`, `halo_pag7982.c` | command state, RX FIFO, thresholds; register pointers and banks | commands of one byte, injected samples and events | the I2C bus, INT1 as a GPIO pin |
| Speaker, `halo_i2s.c`; microphone, `halo_pdm.c`; WAV files, `halo_wav.c` | FIFOs, drain and tick timers, resampling, the file's buffer | MMIO, ticks, DMA beats, the host's files | interrupts, the DMA's stall line, files |
| Camera, `halo_lpcam.c`; display, `halo_cdc200.c`, `halo_dsi.c` | a frame under way, its source; LINE, the framebuffer shown | start, stop, tick; swap, scanout | interrupts, the guest's memory, the host's window |
| Web bridge, `tools/av_bridge.py` | the phone, what the emulator loops, the pages | coroutines | websockets, QMP, files |
| Launcher, `halo-emu` | child process | verbs, signals | control socket |
| Camera sources, web pages, shim, scripts, build | - | - | files |

What is hard about it:

* **Three schedulers share memory.**  QEMU's main loop, the guest's CPU and the
  bridge's threads.  Only MMIO and main-loop callbacks exclude one another (the
  big lock); the guest's loads and stores to the rings exclude nobody.
* **Both directions block.**  Host to guest, a frame that does not fit is
  parked and the chardev throttled until a timer finds room.  Guest to host,
  the drain blocks the CPU until the client reads.
* **Everything restarts on its own.**  A client comes and goes at any byte, the
  machine is reset at any instruction, and neither tells the others.
* **One link, several parties.**  The firmware, the pairing, the bridge and a
  reset can all end the link; each has its own idea of whose client is served.
* **Firmware threads are not locked out** of anything but the buffer pool and
  the ring's producer side.
* **Devices keep half of a transaction**: a word read in two beats, a register
  address received without its value, a sample due a fraction of a time more, a
  deadline computed from registers written later.  A driver may stop, the host
  may change what is played, and the machine may be reset in the middle of it.
* **Some state survives the reset**: the TCMs after a watchdog's expiry, what
  the world holds a pin at, the injected samples and files, the bus.

What makes each part correct: no byte lost, doubled or overtaken and no frame
cut (rings); no frame left without a wakeup and no event without a kick; a
parked frame is polled for; a client is served with a link behind it or about
to be told; notifications without gaps; every buffer with one owner; an
operation reported with its own status and data; no stream past an edge the
firmware has not granted; no driver that waits for an interrupt which is not
coming, no press missed, no sample lost, doubled or torn, no screen of two
frames, no firmware up without the services the stub must have.  The list of what can go wrong, line by line, is
under `hazards` in `PROJECT.json`.

## 2. The modules

### The doorbell

`IpcRing` is a ring: free-running counters modulo `CounterMod` (2^32 in the
code), slots by masking, and its contents as a sequence.  `FrameCells` gives
frames as cells `<<frame, position>>` and says what a reader that starts at a
cell takes for a length: at a frame's first cell its true length, elsewhere
whatever the bytes happen to spell (`StrayLen`).  So losing the frame
boundaries is a state the model can be in, not something it rules out.

`H2GPath` is the host-to-guest half:

| Model | Code |
|---|---|
| `ClientConnect`, `ClientSend`, `ClientCrash`; `wire`, `conn` | the chardev's socket and who is at its other end |
| `RxChunk` | `chr_can_receive`, `chr_receive` |
| `DeliverOversized`, `DeliverPark`, `DeliverDone` | the loop of `rx_deliver`: a bad length, a full ring, nothing whole left |
| `PushBytes`, `PushHead`, `PushSignal` | `h2g_push`: data, then head, then the interrupt |
| `RetryFire` | `rx_retry_cb` |
| `Reset` | `halo_ble_reset` with the guest's RAM and threads |
| `StackInitLoad`, `StackInitStore`, `RwipInit` | `stub_ipc_init`'s `tail = head`, and the interrupt's unmasking |
| `CaptureIsr` | the interrupt handler: clear, then post |
| `TaskTakeEvent`, `TaskWfi` | a BLE task that blocks on its event, or the test firmware's WFI loop |
| `RecvNothing`, `RecvCopy`, `RecvRetire`, `Dispatch` | `stub_ipc_recv` and the loop of `rwip_process` |

`FrameStream` is what that half promises: one queue of bytes of which the guest
takes whole frames from the front, each once and in order; bytes leave any
other way only when the guest goes down (a prefix), the client hangs up (a
suffix), or a length that no frame has is met.  `H2GPath` implements it by the
mapping `Stream`: ring, then reassembly buffer, then socket.

`G2HPath` is the other half.  Each firmware thread is in `Call`, `PutFrame`,
`RingFull`, `SpinKick`, `SpinAgain`, `GiveUp` and `Kick` (`stub_ipc_send` and
its loop; the lock is held within `PutFrame` and given up between the others);
`DrainSend`, `DrainDiscard` and `DrainEnd` are `g2h_drain` within the kick's
MMIO write, which holds the only CPU.  `EventStream` is its promise: one queue
of bytes, of which a front part (`sent`) has been handed to the client's socket.
An event that is in the ring arrives at a client that stays, once and in order,
unless the machine is reset before the event was handed over (`Reset` takes
exactly what was not, and is counted, so that it is a step of the machine's
reset and of no other); a hang-up (`HangUp`) takes exactly what the socket
held.  With no client connected a drain discards from the front (`Lose`).

### The bridge

`ReplBridge` composes the three kinds of thread of `ble_bridge.py` with the
stub's link.  The doorbell is two short queues of frames here: that is what the
two modules above establish.  `Accept` and `StartThread` are `_serve`: the slot
is taken under the lock, the client's socket set up and its thread started
after it.  `WaitDatabase` ..
`Subscribe` is `_attach_client`; `LoopReceive` and `LoopForward` the client's
loop and `FinallySlot` .. `FinallyGoodbye` its finally clause, with the lock
released between them as in the code; `HandleSvc` .. `HandleNotify`,
`SendToClient` and `HardClose` are `_handle_evt`, and `ReaderLeaves` is the end
of `_doorbell_loop` once the bridge has stopped (`Stopped`).  `GuestConnect`,
`GuestAnnounce`, `GuestPair`, `GuestDisconnect`, `FirmwareDrops`,
`FirmwareTests` and `FirmwareNotifies` are `stub_gapc.c` and the notification
path of `stub_gatt.c`, with its unlocked test of `connected`.

Between `Accept` and `StartThread` the doorbell thread may take the client out
of the slot and close it: an EVT_DISCONNECTED of the session before, or a
reboot.  `setsockopt` (481) then raises, `_serve` ends, and `run`'s finally
clause stops the bridge, although the docstring of `ble_bridge.py` (36-38) has
it re-arm for the next connection.  The model has this end (`unserved`,
`Stopped`, `ReaderLeaves`), and the properties say what holds until and after
it: no socket stays open and no slot taken (`SocketsOwned`), and sessions end as
long as the bridge runs (`SessionsEnd`).

### The GATT server

`GattServer`: a host write or read arms the pending confirmation (three plain
stores, `ArmPending`, `ArmToken`, `ArmStatus`), calls the firmware, and
`Collect`s what was confirmed.  The firmware confirms within the callback
(`AppConfirm`, `AppRead` ..) or leaves it to another thread, whose
`hstub_gatt_srv_att_val_set_cfm` is a test of the token and later the stores
(`LateTest`, `LateStore`).  Other threads notify from the same pool.  The pool
is locked, the confirmation is not.

### LE Audio

`AseControl` is `stub_ase.c`: one action per operation, the firmware's answer
within it.  `IsoDatapath` is `stub_iso.c`: the paths' slots and states, an SDU
from the host in the steps of `stub_iso_host_sdu` and a buffer posted by an
audio thread in those of `dp_set_buf`.  `LeAudio` puts both under the BLE task,
which is in one of them at a time.

### The board

Each device is a module with its registers, its timers as "pending" and when
they expire, what the host does to it, and the driver (external) that programs
it in the order the firmware must: a register is written by an action of the
driver's, through the operator that is the device's handler.

| Module | Code | State and actions |
|---|---|---|
| `SecureEnclave` | `halo_se.c` | `mhu`; `ChSet` serves a request within its write, `SeWrite` the interrupt's enables and clears |
| `Watchdog` | `halo_wdog.c`, `halo_sram_reset` of `halo.c` | `wdog`, `nmi`, `preserve` and the firmware's `magics`; `Fire`, `Expired`, `WdogWrite`, and the firmware from `BootFlagged` / `BootClean` to `Register`, `Feed` and `Lock` |
| `Rtc` | `halo_rtc.c` | `rtc`, the clock, the timer's `deadline`; every write re-arms (`Rearm`), `Match` when the main loop comes to it |
| `Gpio` | `halo_gpio.c` | each pin's registers and latch; `InputSet` by the world, `WriteReg`, `Eoi`, `ReadExt` by the driver |
| `I2cBus` | `designware_i2c.c` as patched, with any set of targets on the bus: the three sensors and the TPS65132 (`halo_i2c_regfile.c`) | `DataCmd` is a command in the order of its steps (`Started`, `Addressed`, `Moved`, `Stopped`); a start on a busy bus reaches whoever holds it; `Taken`, `Write` and `Read` the register files; `Tap`, `SetDrdy`, `Inject` the host |
| `Speaker` | `halo_i2s.c`, the writer of `halo_wav.c` | `Update` after every access, `Push`, `FlushTx`, `Drain1` on the timer with the resampling and `Written` |
| `Microphone` | `halo_pdm.c`, the reader of `halo_wav.c` | `Tick` from a file, a tone or the host; `Port` is a 16-bit beat; `Burst` and `Beat` are the DMA (external) |
| `Camera` | `halo_lpcam.c` | `WriteCtrl`, `SwReset`, `FrameTick` with `Deliver`, `LoadSource` |
| `Display` | `halo_cdc200.c`, `halo_dsi.c` | `ScanStart`, `ScanLine`, `ScanEnd` on the UI's thread, `LineTick`, `CdcWrite`; `DrawLine` and `SwapFb` are the firmware |
| `Analog` | `halo_adc.c`, `halo_utimer.c` | `WriteControl` converts within the write; `SetBattery` |
| `AvBridge` | `av_bridge.py` | `Connect` .. `Leave` are `ws_phone`, `MicWake` .. `MicHush` are `mic_loop`, `Dump` .. `Sent1` are `display_loop` and `_broadcast`; a step is what a coroutine does between two awaits, and every QMP call of `mic_loop` may fail, with or without its effect |
| `Board` | `halo.c` | the composition |

Between resets the devices do not meet, but for INT1 of the accelerometer, which
is a GPIO pin, and the requests for a reset.  `Board` therefore lets one part
move in a behaviour (`part`, chosen at the beginning), together with what it
does meet, and has `MachineReset` at any moment of it reset all of them: what
all interleavings of independent parts would add is the product of their
states.  The web bridge is another process and is not reset.

Histories (`want`, `due`, `hung`, `played`, `caught`, `shown`, and `missed` of
`micLoop`) record what was meant, broken off, played, captured, got or failed;
no action's guard reads one.

### Kept out

Payload bytes, lengths beyond what framing needs, handles, uuids, sequence
numbers, logging.  A lock is modelled by the atomicity it gives and nothing
else: what is tested or taken outside one is a step of its own.

## 3. The runs

| Run | What it asks | Answer |
|---|---|---|
| `h2g` | two kinds of frame, counters that wrap, a frame whose op is 0, the test firmware's WFI loop: is the ring ever overrun, is the path a `FrameStream`? | holds, 0.4 M states |
| `h2g_faults` | a crash of the client and a reset at any step, a task that blocks: wakeups, parking, whole frames, loss only as `FrameStream` has it, and progress | holds, 66 k states |
| `h2g_frames` | are frames only ever frames a client sent? | `FramesAreFrames` fails |
| `g2h` | two emitters, full ring, slow socket, hang-ups, a reset: stranded events, retries, unbroken frames, order, and every call returns | holds, 0.2 M states |
| `bridge` | two clients, a reboot, a firmware that drops links and notifies | holds, 2.2 M states |
| `bridge_live` | a guest slower than the timeouts: sessions end | holds, 0.15 M states |
| `bridge_orphan` | is the guest told that its client went away? | `GuestToldOfLeave` fails |
| `gatt` | writes, reads and notifications from three threads, late answers | holds, 0.4 M states |
| `gatt_read` | is what a read reports what it was answered with? | `ReadIsItsAnswer` fails |
| `le_audio` | an ASE, two output paths and an input, refusals, rebinding | holds, 0.2 M states |
| `le_audio_clock` | the clock the stub promises to keep monotonic | `ClockNeverGoesBack` fails |
| `board` | every device with its driver and the host, the web bridge, and a reset at any moment | holds, 0.42 M states |

`board` asks, of each part:

* `NeverUnserved`: whatever expiries, resets of the host's and of the Enclave's
  meet, a firmware that is up has registered its services with the stub it is
  up with.
* `DriversAreAnswered`: no driver waits for an answer, a conversion, a frame,
  a frame's moment or room for samples with nothing under way to give it.
* `AlarmOnTime`: an armed RTC that has not fired has a timer pending that
  expires within a tick of the match, though both conversions truncate.
* `InputsAreSeen`: after an acknowledgement and a reading, either the reading
  is still the level or an edge is latched.
* `TransfersIntact`: a transfer changes and reads the registers the driver
  named, whatever was given up or reset before it, and is made with the target
  the driver addressed.  The exception is the code's: an abort (or a reset) in
  the middle of a transfer is not told to the bus core, and until a STOP has come
  the next start reaches the target of the broken one, whatever its address
  (`hung`).  On both buses of the machine that may be another chip.  The property
  says that there is no other way to it, and that it ends with the next STOP.
* `PlaybackIntact`, `CaptureIntact`: samples are neither lost (but where the
  device says so), doubled, reordered nor torn, at rates that do not divide,
  and the file is complete whenever the speaker is idle.
* `ScanIntact`: the screen is one frame, though the firmware draws without a
  lock.
* `BridgeIsCurrent`: what the emulator loops is the bridge's to silence, and
  never the file the next chunk is written to; a page with an old picture is
  owed the new one or is being sent it.  Two exceptions are the code's.  A call of
  `mic_loop` that fails leaves `_mic_idx` turned and `_mic_active` as it was, or
  cleared: until a chunk or a silence is set without a failure (`missed`), a
  chunk may loop with nobody to silence it, although the docstring (33-34) says
  that a stalled phone never loops stale audio, and the next chunk may be
  written over the file in use, although the comment at 506-507 says it never
  is.  And a broadcast that a leaving page cuts short (`cut`) leaves its pages
  with the old picture until the next change.

### What the failing runs show

They state what a comment of the source says and the code does not do; the
lines are quoted under `findings`.

* `h2g_frames`: a client that closes within a frame leaves its part in the
  reassembly buffer, in front of the next client's bytes; a reset within a
  frame does the converse.
* `bridge_orphan`: a client that takes the slot before the answer to the last
  one's leaving is dropped by that answer, and nobody says OP_DISCONNECT for it.
* `gatt_read`: EVT_READ_RSP is filled after the firmware has released the
  buffer; another thread may have it by then.
* `le_audio_clock`: an unlocked read-modify-write on two threads.

### Bounds

A ring of 3 or 4 bytes with counters modulo 6 or 8 holds one long frame, or two
short ones, or one and a part: full, empty, wrapped in the middle of a frame
and wrapped in the counters all occur within a few frames.  A frame of 2 cells
is a header and nothing else, one of 3 has a payload; a socket of 2 or 3 cells
cuts frames at every position.  Two emitters suffice for every interleaving of
one call with the others' steps (the lock admits one at a time); the retry
bound of 1 makes the drop reachable, which the real bound of a million leaves
to the theorem.  Resets and crashes are counted (`MaxResets`, `MaxCrashes`): one
of each, at any step, and the state after one is a state the code starts from.
In the bridge each session is used once, and two of them already give every
overlap of an arrival with a departure; the queues' bound `Cap` only throttles
the guest.  Reboots and notifications are bounded by 1 and 2: the second
notification is what makes a gap visible.  The GATT token wraps at 4 with
`MaxLate` = 2 late answers, so that an old token can come round.  The iso clock
stops at `MaxTicks`, after which the paths still open, shut and hand back.  One
ASE does for LE Audio: all that two would share is whether the service is
configured, and the theorems take any number; but of the output paths there are
two, since `iso_find` returns the first in the slots that is open.
On the board the I2C bus has the accelerometer alone, the magnetometer alone, or
the camera sensor with the TPS65132, which is I2C1 but for the panel; the two on
I2C0 together are left to the theorem, which takes any targets.  The RTC counts
modulo 8 and time passes by less than a tick or by
one, so that the counter wraps and a write falls on either side of a match.
The FIFOs are as short as their triggers allow, so that full and empty are one
burst apart; rates are 2 or 3 to 4 and 2 or 7 to 3, neither multiples nor
divisors, so that a remainder is carried both ways; `UpRatio` = 2 stands for the
`HALO_WAV_RATE / 8000` of `halo_i2s_sink`'s array `up[]`, what one sample of the
lowest rate becomes.  `MaxSamples` = 5 and
`MaxCaptured` = 6 fill each FIFO, wrap the file and are still running after a
stop; three lines give the panel a first, a middle and a last, and three drawn
frames use both buffers again.  Two phones are one that is evicted and one that
evicts; two pages are one that is being sent to and one that joins or leaves
meanwhile.  Of the pins one has both edges and is the host's, one is a level
and a sensor's.  Resets are not counted: a reset leads back to states the run
has.

Symmetry is declared only for sets whose members the code does not tell apart
and only in runs without liveness properties.

### Deadlock and fairness

Deadlock is checked everywhere, on the board too, but in the bridge's runs, whose sessions are used
once: when both are over and the guest is quiet nothing is left to do.

`Board` states safety only.  What "must come" there is a state predicate: the
timer is pending or the line is up; that a pending timer expires is QEMU's.

`H2GPath`: weak fairness of the main loop's callbacks and of the guest's boot,
interrupt and task: QEMU polls its sources and its timer, and the CPU runs.
`G2HPath`: strong fairness of each firmware thread, since a drain stops the only
CPU and with it disables them all again and again; weak fairness of the drain
and of a client that reads.  Without a reading client the design blocks, and
nothing is claimed.  `ReplBridge`: weak fairness of the guest and of the
bridge's doorbell thread and acceptor, strong fairness of a client's thread,
which competes for the lock and the doorbell.  Clients, firmware, crashes and
resets owe nothing anywhere.

## 4. What is proved

Every theorem is proved to the last leaf, from the modules' named assumptions
alone (`RingAssumption`, `FrameAssumption`, `H2GAssumption`, `G2HAssumption`,
`BridgeAssumption`, `GattAssumption`, `AseAssumption`, `IsoAssumption`,
`RtcAssumption`, `GpioAssumption`, `AnaAssumption`, `BusAssumption`,
`SpkAssumption`, `MicAssumption`, `CamAssumption`, `DispAssumption`,
`AvAssumption`), for any sizes, frames, threads and bounds.

* `DoorbellLemmas`: `PutAppends`, `PutKeeps`, `GetDrops`: storing at head
  appends to the ring's contents and moving the tail drops from its front,
  wherever the counters wrap; and the lemmas on whole frames and on queues.
  `Remainders` has the arithmetic of remainders and quotients that this and the
  audio devices rest on, and `SetInduction`: a set of naturals with 0 and every
  successor is `Nat`, which stands in for the induction over formulas that the
  provers cannot instantiate.
* `H2GPathProofs`: `TypeCorrect`, `RingNeverOverrun`, `GuestFindsWholeFrames`,
  `ParkedFramesArePolled`.  None is inductive.  The invariant `IInv` adds that
  from the tail on the ring is a row of whole frames and room is left for the
  frame being pushed; that the same holds from the tail `stub_ipc_init` is
  about to store, since its load and its store are apart; and that the
  reassembly buffer's length is bounded.  "Whole frames" here is in terms of
  what the reader parses: it survives the loss of the client's boundaries,
  which is why the ring keeps its framing even where `FramesAreFrames` fails.
  `WakeupNeverLost` needs `NoBusyTest`: a task that blocks on its event and no
  frame with op 0.  Both are necessary.  The test firmware (`fw_blesmoke.c`)
  tests its flag and then executes WFI with interrupts on: an interrupt between
  the two is slept through.  And op 0 ends `rwip_process`'s loop early.  Run
  `h2g` has both, and does not claim `NoLostWakeup`.
  `QueueOfFrames` is the whole refinement of `FrameStream`: `GotOK` says that a
  frame copied and not retired is still the ring's front, and each step is then
  a step of the queue or none.  `h2g_push` and `stub_ipc_recv` move bytes
  between rows whose concatenation stays; the store of `stub_ipc_init` drops a
  prefix while the guest is down; an oversized frame cuts from its header on.
* `G2HPathProofs`: `TypeCorrect`, `EventsNeverStranded`, `RetriesPaid`.  The
  invariant says that a drain has the ring to itself and that a thread waiting
  for room was overtaken as often as it retried, or its last kick left the ring
  empty (`PaidFor`).  So the event that is dropped after a million retries
  needs a million frames of other threads.  `FramesWhole` and `QueueOfEvents`
  rest on `StreamInv`: what the client has yet to read with what is on its way,
  and the ring from its tail, are rows of whole frames; so a client that dials
  in between two drains starts at a frame.  From it follow that no frame is cut
  or mixed, and the whole refinement of `EventStream`, where `sent` is what the
  socket holds and `resets` the machine's count.
* `ReplBridgeProofs`: `BridgeTypes`, `NoSocketLeaks`, `OneServed`,
  `NotificationsWhole`, `ServedIsTold`: every invariant of run `bridge`, for any
  clients, queues and reboots and a guest of any speed.  `SlotInv` has the
  slot's holder open and running, or accepted and its thread about to be
  started, and a socket outlive its place only to be closed.  `Taken` has the queue hold exactly the notifications after the last
  one taken, in order, and the served client hold all before it; a client that
  has received any keeps its handles, since what forgets them takes the slot.
  `LinkInv` is why stale answers do no harm.  An EVT_CONNECTED or EVT_PAIRED is
  *alive* while the link is up or its end is announced behind it.  Either may be
  dead: the firmware may drop the link during `le_connection_req`, or before
  EVT_PAIRED.  But of a connected and a paired that one client sees, the first
  is alive (`Answers`): after a dead connected no pairing starts, and between a
  dead paired and the next connected the link's end is announced, which takes
  the slot.
* `GattServerProofs`: `GattTypes`, `PoolBalances`, `BuffersStayIntact`,
  `StatusBelongs`: every invariant of run `gatt`.  `Holders` ties who holds a
  buffer to where each party is, `OneHolder` says that a buffer is in use when
  somebody holds it and that nobody else does; the sum in `PoolAccounts` is then
  that of one holder.  For the status, `TokensApart` says that no confirmation
  still to be tested bears the token of the operation under way, `NoneStale`
  that none past its test does harm unless it was there when the token was
  stored.
* `LeAudioProofs`: `TypeCorrect`, `EdgesGranted`,
  `ReleasedLeavesNothing`, `CentralFollows`, `BufferOwned`, `PostedFound`.
  `AseInv` ties each ASE's state to what was granted and to what was last
  reported.  `IsoInv` has a poster's buffer on its path until the
  callback and the BLE task's posted until it is filled, from which a buffer
  has one owner.  `PostedFound` assumes `EnoughSlots`, no more paths than
  `STUB_MAX_DP`: a path that is not tracked then leaves an empty slot (by the
  pigeonhole principle).

* `BoardProofs`: `PowerInvariant` and, from it, `FirmwareServed` and
  `EnclaveAnswers`.  That a magic outlives the stub's database only together
  with "fired" takes the whole chain as its invariant: a pending expiry means a
  latched one, a latched one with its interrupt enabled means an NMI pending or
  "fired" set, and memories about to be kept mean the same; so a boot that
  keeps "ble_lua" stops, asks for a cold reset, and starts without either.
  `PressesSeen`: per pin, a reading that is not the level has a latch beside
  it, through every register's write, acknowledgement and reset.
  `WokenOnTime`: two truncations at 32768 Hz lose less than a tick, for any
  modulus, wait and time.  `BatteryAnswers`.  `TransfersStayIntact`: where the
  driver stands between two commands says what the controller's state, the
  register pointer of the target that is reached and the FIFO are; that target
  is the one addressed, or the one that holds a bus nobody has freed
  (`BusHeld`); and nothing an abort or a reset leaves behind reaches past the
  next STOP; for any set of targets, FIFO depth and register contents.
  And of the media devices `CameraDelivers`, `FramesShownWhole`,
  `CommitsCarriedOut`, `SpeakerKeptFed`, `BridgeStaysCurrent`; and
  `NoDriverWaitsInVain`, which joins them.  Each invariant says how far the driver and the
  device are in step: which bits are set where the driver stands, that the
  buffer drawn to is not the one shown while a scan is under way, that a FIFO
  asked to be filled has the room, which pages a broadcast still owes.
  `PlaybackRecorded`: the file, its buffer and the FIFO hold, in this order, the
  samples taken and no other (`Kept`); the frames written for the ones popped
  are `popped * WavRate div rate` and the fraction carried is the remainder
  (`FractionCarried`); the header counts what is on disk, and an idle speaker's
  buffer is empty.  It rests on
  `ResamplingExact`, which is about the recursive function `Upsampled`: by
  `SetInduction` over the samples taken so far, every one of them comes out, in
  order and nothing else, and the array is never the shorter (`UpArithmetic`).
  `CaptureKept`: the samples made are, in order, those in the words the firmware
  got, the port's held half and the FIFO, less those counted lost
  (`Accounted`); a word is two halves of one sample; a burst never finds the
  FIFO empty, since the watermark it starts at is its size; and the file stands
  at `reads * rate div MicRate`.  `BoardTypesOK` collects the types.

Model-checked only: liveness (`EverythingConsumed`, `ParkingEnds`,
`CallsReturn`, `SessionsEnd`), which TLAPS cannot prove under fairness.  Every
invariant and every step property of a passing run is a theorem.

### Known limits

* Frames are cells: a length that is neither a frame's nor one of `StrayLen` is
  not explored by TLC (the theorems take any).
* The memory is sequentially consistent.  The code has barriers where it
  publishes; what a weaker memory would add is not modelled.
* The bridge's handshake may complete on the answers to an earlier session's
  OP_CONNECT; the model contains it, and the client is dropped by the event
  that follows (`ServedOrTold`).
* `StatusIsItsOwn` excepts a confirmation that was past its token test when the
  next operation armed its own (`overtaken`): the token cannot catch it.
* `IsoDatapath` takes the firmware's side from the contract in `gapi_isooshm.h`:
  it unbinds in a callback of the BLE task with none of its threads posting.
* `AseControl` has the firmware answer within the callback, as the comment at
  the head of `stub_ase.c` says.
* The drivers on the board are external: what is shown is that the devices
  serve a driver that keeps these orders.  The speaker's has its running flag
  set before the first drain (a drain period is long against it) and disables
  the I2S with an empty FIFO; it asks for no rate above the file's, nor for one
  below `WavRate / UpRatio`, where the code's array would cut samples off.
  A WAV file played to the microphone has at least one sample.  The camera's
  buffers are in memory: the DMA write that fails (`halo_lpcam.c` 339-346),
  after which STOP is raised all the same, is left out.  The display's clears its
  buffers when it starts, and a reset does not fall within a scanout: both are
  under QEMU's lock.
* `DropLink` has the link cleared and its end announced in one step, where
  `stub_gapc.c` has a few instructions between them.
* The PWM's registers (`pwm`, `LedSet`) are there for the reset and for the
  types; the LED they drive is read by nobody in the model.

## 5. Not modelled, and the plan

`components` in `PROJECT.json` lists every part with its status.  What would
come next:

1. `StubGap`: configuration, advertising, bonding and `gapm_reset`
   (`stub_gapm.c`, the rest of `stub_gapc.c`), composed with the bridge's
   detection of a reboot and with the ASEs, which outlive their link.
2. The two halves of the doorbell composed: a guest whose BLE task is blocked in
   a drain does not empty the other ring.
3. LE Audio: the `stream_lid` of OP_ISO_SDU, which the stub ignores, against
   two output paths at a time; answers of the firmware after the callback.
4. The web bridge's camera, speaker and status loops; the launcher's child and
   signals.
5. The I2S receiver, and the panel's register file with its two address bytes.

Out of scope: image decoding and the pages (data, no protocol), the conversion
of pixels, LC3 (a codec), QEMU's live audio voices, build files and scripts.

## 6. Running it

    tlc -workers 2 -config MCH2GPath.cfg MCH2GPath      # a run: module and cfg
    tlapm LeAudioProofs.tla                             # a module of proofs

`PROJECT.json` lists the runs with their modules and configurations, the
mutants (a mutated action beside the one it stands for, which the property must
reject), the lines each definition models and the theorems.
