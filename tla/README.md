# Verification of XboxHeadsetBridge

TLA+ models of the parts of XboxHeadsetBridge whose correctness depends on the
order of things: two processes sharing a ring without locks, USB completions,
retries, an authentication exchange that may fail half way, a menu bar app that
polls a thread, a virtual device with a clock. TLC checks every model on a small
instance; TLAPS proves the safety properties of every component for all values
of the constants that satisfy the stated assumptions. Liveness is TLC's alone.

Paths below are relative to the repository. `tlc -config X.cfg MCM.tla` checks a
model, `tlapm M_proofs.tla` checks proofs.

## 1. Inventory

The headset's dongle is opened by **the bridge** (`gip-bridge`, or a thread of
the menu bar app), which talks GIP over USB. Applications play to and record
from **the HAL plug-in**, which lives in `coreaudiod`. The two meet in a shared
memory **ring**. The **menu bar app** runs and watches the bridge.

| Part | State | Operations | Meets others through | What must be true |
|---|---|---|---|---|
| Ring buffer, `shared/ring.h` | two counters and an array of slots for each direction | `ring_out_write`, `ring_out_read`, `ring_in_write`, `ring_in_read`, `ring_trim` | shared memory, two processes, no lock | what is read is what was published; in order, nothing twice; the counters never cross; the latency stays bounded and normal operation loses nothing |
| Ring creation, `shared/ring.h` | the shared memory object, its size, mode, magic | `ring_map`, `ring_init`, `ring_reset_status` | system calls of the bridge, the plug-in and the readers of the status, each of which may initialise the ring and may die between two | nobody maps part of a ring; a valid ring is kept; what one crash or failure left of a ring, the next start completes |
| HAL plug-in, `plugin/XboxHeadset.c` | `gIOCount`, `gRing`, `gVolumeScalar`, `gMuted`, `gAnchorHostTime`, `gTimeStampCount` under `gMutex` | `StartIO`, `StopIO`, `GetZeroTimeStamp`, `DoIOOperation`, `SetPropertyData` and the getters, `Initialize`, `EnsureRing` | calls of `coreaudiod` on several threads; writes playback and reads capture; **StartIO stores the reader's counter, which the bridge owns** | a client hears nothing recorded before it came; what the ring says of the plug-in's I/O is so; time stamps are in time and on one time line; a control that was set is heard and shown |
| Playback, `fill_out_xfer` in `src/bridge.c` | `prev_short`, the last sample | one call per transfer | reads the ring, reads `out_io_running` | every break of the stream is faded, and only starvation counts as an underrun |
| Transfers, `src/bridge.c` | `NUM_XFERS` transfers a direction; `streaming`, `restarting_capture`, `dev_disconnected`; `next_out_frame`, `next_in_frame` | submit, completion callbacks, abort, drain | callbacks run while the run loop is polled; IOKit completes at any time | no transfer is lost but by two refusals of it, none is submitted twice, no bus frame claimed twice; a late thread costs nothing until the queue is empty; silence and a session end |
| Session and reconnect loop, `run_session` and `bridge_run` | `stop`, the attempt, `reenumerate_next`, `device_online` | connect, stream, back off, stop | signals, the menu, the device | it always comes back, ends when told to, does not hammer the device, says the truth of the headset |
| Authentication, `src/gip_auth.c`, `auth_*` of `src/bridge.c`, the control reader of `src/gipusb.c` | last command, transcript, the record being sent, the record being assembled | `gip_auth_process`, `auth_send`, `auth_send_next_chunk`, the AUTHENTICATE and ACKNOWLEDGE branches of `on_rx` | control packets both ways; writes may fail, the reader may end | records arrive whole; the transcripts agree; audio waits for the exchange; nobody waits for ever |
| Header codec, `src/gip.c` | none | `gip_encode_header`, `gip_decode_header` | every packet | a header survives the wire, is even, leaves room for its payload |
| Headset status, `on_rx`, `src/menubar/ringshim.c`, `HeadsetStatus.swift`, `src/status.c` | `mic_muted`, `vol_out`, `vol_gain_out`, `vol_seen` | stores of the bridge, loads of a reader, all single | shared memory | what is shown was reported by this headset, and the last report is what is shown in the end |
| Menu bar controller, `BridgeController.swift` | `state`, `startsAutomatically` | poll, start, stop, quit, end of a bridge thread | globals of `src/bridge.c`, a queue to the main thread | one bridge; the panel shows what the bridge does; failures are seen |
| USB access, `src/gipusb.c` | handles | open, reset, read, write | IOKit | only what it returns matters to the rest |
| Panel, login item, diagnostics, `probe.c`, `tone.c`, `mic.c`, icon generator | | | | not modelled, see section 7 |

**What is hard here.** Interleavings of two processes with no lock (ring, status,
creation); counters stored by a process that does not own them; crashes of either
process at any point, with the ring surviving both; callbacks that resubmit while
the session submits too; retries that start on the state of an abandoned attempt;
flags read by a poll before the thread they describe has set them; frame numbers
taken while the bus goes on. `PROJECT.json` lists each at its line, with what
covers it.

## 2. Modules

| Module | Models | Used by |
|---|---|---|
| `RingWindow` | arithmetic of `ring.h`: slot of a frame, `ring_trim`, the window of a read | `RingChannel`, `RingBacklog` |
| `RingChannel` | one direction of the ring, store by store | `Playback`, the proofs |
| `LossyFifo` | abstract: what a listener of the ring is promised | refined by `RingChannel` |
| `Playback` | `RingChannel` with the plug-in as writer and `fill_out_xfer` as reader | |
| `RingBacklog` | the latency of playback with the real constants | |
| `RingMapping` | creation and sharing of the ring | |
| `IsoTransfers` | one session's isochronous transfers | |
| `IsoSchedule` | the bus frames that the transfers of one direction claim | |
| `BridgeRun` | the bridge process, connect to exit; abstract of a session | refined by `IsoTransfers` |
| `GipHeader` | the header codec, operators only | `AuthHandshake` |
| `AuthHandshake` | the authentication exchange with the headset | |
| `HalObjects` | the objects of the virtual device, operators only | `HalDevice` |
| `HalDevice` | the clock and the controls of the virtual device | |
| `StatusSnapshot` | stores and loads of the status fields | |
| `BridgeController` | the app's main thread and its bridge threads | |
| `Ring_proofs` | the theorems about `RingChannel`, `RingBacklog` and `Playback` | |
| `AuthHandshake_proofs` | about `GipHeader` and `AuthHandshake` | |
| `MenuBar_proofs` | about `StatusSnapshot` and `BridgeController` | |
| `RingMapping_proofs`, `IsoTransfers_proofs`, `IsoSchedule_proofs`, `BridgeRun_proofs`, `HalDevice_proofs` | about the module each is named after | |
| `MC...` | the instance of each that TLC checks | |

An operator such as `WritePublishEarly` or `MapAfresh` stands before the
definition it varies: the same step with a plausible mistake in it. No
specification uses one; `PROJECT.json` names the property that each refutes, so
that every property is known to be able to fail.

### RingChannel and LossyFifo

A frame is its absolute position in the stream; a slot holds a frame, or `Noise`
for a mixture. `WriteBegin`, `WriteFrame`, `WritePublish` and `ReadBegin`,
`ReadWindow`, `ReadFrame`, `ReadPublish` are the atomic accesses of
`ring_*_write` and `ring_*_read`: the counters are atomic, the slots are plain
memory, so the stores of one write and the loads of one read happen one frame at
a time and in any order, and a load under a store may return `Noise`.
`StartIOLoad` and `StartIOStore` are the two halves of StartIO's
`read := write`. `BridgeRestart` and `CoreaudiodRestart` kill a process inside an
operation: `ring_map` keeps a valid ring, so only locals are lost, and the frames
a dead writer stored without publishing them become `Noise`. `HalReads` says which end
the plug-in holds: the plug-in's read and write run inside its I/O cycle
(`WriterMayRun`, `ReaderMayRun`), the bridge's at any time.

`LossyFifo` is the promise to a capture client: it hears runs of frames in
order, none twice, none before it is published, some dropped, and an arriving
listener may find frames dropped. The mapping is `published <- writeFrames`,
`consumed <- readFrames`, `listening <- halIO`, `hearing <-` what the read in
progress has copied. A writer that dies publishes nothing.

### Playback

`FillBegin` loads the counter (`before`), `FillRead`/`FillReadDone` are
`ring_out_read`, `FillConceal` loads the counter again and decides on the fade,
`FillAccount` counts underruns. The sound itself is abstracted to how a transfer
joins the one before it: `smooth`, `faded` or `click`. The history variables
`heardTo`, `moved` and `ioRan` record what the code cannot see.

### RingBacklog

Only the distance of the counters. `Jitter` bounds how far one clock may be ahead
of the other; a `Stall` is a time in which only the plug-in runs. It uses
`WindowStart` and `WindowEnd` of `RingWindow` unchanged, with the real sizes.

### IsoTransfers

A session is `setup`, `auth`, `abort`, `stream`, `drain`, `over`. `pending` counts
for each transfer how often IOKit has accepted it and not completed it,
`completed` how often it has completed it, with which result, and not delivered it.
`Deliver` runs a callback, which is possible only in the phases in which
`run_session` polls the run loop; everything between two polls is one action,
because the bridge has one thread. `Submit` is the submission with its one retry
at a rebased frame: IOKit may refuse either try, on a device that is there too, and
a transfer refused twice is dropped, which `refused` remembers. `AbortCapture`
completes the pending capture transfers as aborted; `in_xfer_done` submits them
again in the polling that follows, and `StartStreaming` submits all of them once
more, so that a capture transfer is outstanding twice from then on
(`HandedOver`). `Authenticate` stands for the whole exchange of `AuthHandshake`.

**The composition.** `SessionOfRun` says that a session, seen from `bridge_run`,
is one of `BridgeRun`: the mapping `RunPhase` takes `setup` and `auth` to
`handshake`, `auth` once authenticated and `abort` to `authenticated`, `stream` and
`drain` to `streaming`, and the end, by the result of `run_session`, to `exited`,
`backoff` or `lost`. So what `BridgeRun` assumes of a session (it streams only after
authentication; it reports a disconnect only if the device is gone and nobody
asked for a stop; it fails only before audio) is what the transfers do.

### IsoSchedule

Frames are counted from the one the bus is in, which is always 0: `Frame` takes 1
off every claim. A transfer whose last frame is past is due, and its callback
(`Succeeded`, `Failed` or `Lost`) runs when the thread next polls; it may wait for up
to `MaxHold` frames. `Submit` is the refusal of a frame that is not in the
future and the rebasing to `LeadFrames` ahead that follows. `Failed` is a
completion that failed, or a submission that was refused for another reason than
its frame: both rebase the schedule, at any callback and as often as they like,
whatever is queued then. `Lost` is the second refusal.

`StartCapture` has the doubled queue that `transfers_double` is about: the
aborted completions, of which any number is delivered while `run_session` polls,
each rebase `next_in_frame` and submit their transfer, all at the same frame;
the loop then submits all six from one frame on; and at last `next` is set a
little after that, among frames already claimed. The submissions that
`run_session` itself makes are taken to be accepted here, and so is one callback
for each aborted transfer; what a refusal does to them is in `IsoTransfers`.

`since` is history: how many of the queued transfers were submitted after the last
failure or refusal. Across one, frames *are* claimed twice: two failures in one poll
both rebase to the same frame, which may also lie among those queued before. What
IOKit makes of the second claim is outside this source.

### BridgeRun

`main`, `bridge_run` and the outline of `run_session`; the details of its phases
are in the two other modules. The result 0, 1 or 2 decides in `NextWait` about
the backoff and the port reset, as the code does. `device` is what the user did to
the headset, `attached` whether the dongle is on the bus: `ResetPort` takes it off,
`Reattach` brings it back, in time for the open (`ReattachInTime`) or after it has
failed. `handle` is whether the device this session opened is still there.
`OpenFails`, `OpenAudioFails` and `HandshakeFails` need no reason: each may happen in
front of a device that is there and a headset that is on. `Disconnected` leaves
`streaming` for `lost`, which takes a completion that reports the device gone, and
nothing obliges it to happen: refused submissions end nothing
(`MCIsoUnplug`).

### AuthHandshake and GipHeader

Records are named, fragments are their offsets; `out` is `auth_out_*`, `in` is
`auth_in_*`. Each write may fail, up to `MaxFaults` times in all, with the rest of
the record left for the next acknowledgement as in `auth_send_next_chunk`. The
headset is external. It speaks one of three dialects that the comments of
`gip_auth.c` describe: `pdp` acknowledges the request for its finish and sends
none, `finish` sends it, `v2` asks for the second version. In `v2` the headset is
taken to send its hello unasked, the only continuation the code handles. Every
authentication packet is run through `EncodeHeader` and `DecodeHeader`. `reader`
is the control reader: `ReaderFails` ends it at any time before the last
attempt, nothing reports it, and the next attempt starts another. `Retry` begins
that attempt, from any point of the one before it: one that failed or one that
streamed and lost its device.

### HalObjects and HalDevice

`HalObjects` has the answers of the getters that depend on each other: owners, lists
of streams and controls, what can be read and set, what a change reports.
`HalDevice` adds the state. `lag` is the age of the zero time stamp returned last
and `since` the time since the HAL asked for it: what `GetZeroTimeStamp` computes
from `gAnchorHostTime` and `gTimeStampCount` depends on their difference alone.
`Tick` lets the HAL leave the clock alone for `Often` at most, and for up to
`MaxPause` in a pause. `SetValue` is `SetPropertyData` under `gMutex`, `Report` its
notification after the unlock; a listener that was told reads later. `BeginBlock` and
`ApplyGain` are the two unlocked loads of `VolumeGain`. Volume is a number of
steps, the decibels a linear image of it, as the taper is.

### RingMapping

Three processes run `ring_map`: the bridge with `create` (`Create` to `MapInit`),
the plug-in under `gMutex` (`Open` to `Mapped`) whenever it needs a ring it has
not got, and a reader of the status (`ringshim.c`, `status.c`). One action is one
system call; the magic is read in one (`Map`, `Mmap`, `ReaderMaps`) and `ring_init`
is three more (`Initialise`: the memset, the magic, the fields), so that two or all
three may find no magic and initialise the ring in turns. Each may die between
any two; `ftruncate` may fail (`TruncateFails`). `object` is the shared memory:
whether it exists, may be opened by coreaudiod, has its size, its magic, the I/O
flag, the published volume. A second bridge at the same time and failures of
fstat and mmap, which end the call as a death does and leave the object as it was, are
left out.

### StatusSnapshot and BridgeController

In `StatusSnapshot` the stores of a volume packet, of `ring_reset_status` and
the loads of a reading are steps of their own. `BridgeController` has one action
per method or closure run on the main thread, and the statements of `bridge_run`
that touch `running` and `stop` on each bridge thread; a stopped bridge's thread
reports back through `BridgeThreadFinished`. Its specification is
`ControllerSpec`, and that of `RingBacklog` is `BacklogSpec`, so that one module
can hold the theorems about several.

## 3. Runs

| Run | Question | Bounds, and why they suffice |
|---|---|---|
| `capture` | Do the counters stay in order, is what is read what was published, does a client hear only what came after it, is this a `LossyFifo`? | 4 slots, 8 frames, reads and writes of 1 or 2, target 1, trim 1: the ring is lapped twice, each of trimming, lapping and a short read happens, a read is lapped inside its copy |
| `playback` | Is every break that the bridge makes faded? | 3 slots, 6 frames, writes of 1 and 3, transfers of 2, target 0: laps, trims and shortage between consecutive transfers |
| `backlog` | Does normal operation lose nothing, and does latency come down after a stall? | the real 32768, 1536 and 64 frames; cycles of 512 and transfers of 384; stalls of 4096, 20480 and 40960 frames (the last laps the ring), two of them |
| `transfers` | Is a transfer lost otherwise than by two refusals, or doubled; does a session drain and end, is it one of `BridgeRun`? | 2 transfers a direction instead of 6: one is being resubmitted, refused or lost while another is pending or has failed |
| `transfers_double` | "do not submit the same xfer objects a second time while they are pending" | refuted, see below |
| `schedule` | Is a bus frame claimed twice after the last failure, how late may the thread be, how long is silence, does the drain outlast the queue? | the constants scaled down to 3 transfers of 2 frames, a lead of 8, a drain of 37 (the real 6, 8, 64 and 300 are out of TLC's reach with failures in any order; the theorems cover them); callbacks wait up to 7 frames, more than the whole queue; 3 failures in any order, enough for two in one poll and one after them; 1 transfer lost |
| `bridge_run` | Does the bridge always come back, stop when told, leave a sleeping headset alone? | no bound on the attempts, the failures and the time a dongle takes to come back; resets are counted to 2, enough to tell one from many |
| `handshake` | Are records and headers whole, transcripts in order, does audio wait, do the two sides ever wait for each other, does the exchange complete? | 3 attempts, 2 failed writes, a control reader that dies, the three dialects, client records of 3 fragments; the host's records have their real lengths |
| `plugin` | Are time stamps in time and on one line, does a control take effect? | 2 clients; periods of 2, a pause of 5, so that more than one period is missed; full volume and silence with values beyond either; 2 calls at once on each control; listeners for the volume and for the decibels |
| `controller` | Does the panel follow the bridge, is a failure shown? | 3 threads: two inside `bridge_run` and one more |
| `ring` | Does creation survive crashes and failures, does a valid ring survive whoever maps it? | with and without a ring to begin with, a umask that denies coreaudiod, 2 clients, 3 crashes in all: one of each process; any number of failed ftruncates |
| `status` | Is what is shown this bridge's, and in the end the last report? | 2 positions, none of them a seeded value, 2 packets, 2 starts of a bridge: a reading may span two packets, or a death and a start |

The `Max...` constants are the only bounds; each appears in a guard.
Deadlock is checked except in the handshake, whose exchange ends.

### What holds

* **Ring.** A read returns what was
  published at each position; only a writer that has gone a whole ring further
  since can replace a frame, and then by a newer or a torn one
  (`IntactUnlessLapped`). Capture sessions are a `LossyFifo` and start fresh
  (`FreshCapture`, `CaptureIsLossyFifo`).
* **Playback.** Neither counter overtakes the other, whatever StartIO does to
  the reader's in the middle of a read (`ReadNotAhead`). A trim, a lap and the
  end of a silence are always faded; only a
  StartIO since the last read is not (`JoinsConcealed`).
* **Latency.** No frame is dropped as long as nothing stalls; after any stalls
  the backlog comes back under `RING_TARGET_BACKLOG` for good
  (`NormalOperationLossless`, `LatencySettles`).
* **Transfers.** Until a session is asked to stop or told that the device is
  gone, each transfer is outstanding exactly as often as `run_session` handed it
  over, less one for each time both tries to submit it were refused
  (`QueuesStayFull`): failed completions, missed frames, the abort and the restart
  of capture lose nothing. What is refused twice stays lost; the code has no third
  try. No playback transfer is submitted while it is pending
  (`OutSubmittedOnce`); a stop, or a disconnect that a completion reports, ends the
  session with nothing pending (`SessionEnds`); to `bridge_run` it is a session
  of `BridgeRun` (`SessionOfRun`).
* **Schedule.** The transfers submitted since the last failure or refusal claim
  frames of their own, those of capture's second queue included
  (`OneTransferPerFrame`): a queue of callbacks after the last failure no frame is
  claimed twice. Across a failure frames may be. Playback does not run dry before any
  failure while callbacks wait less than the other transfers last, 40 frames
  (`NeverDry`). Silence after that, or after any failures in any order, lasts no
  longer than the lead and one hold of the thread, as long as a transfer is left
  (`GapBounded`). The drain outlasts every transfer that may be queued when
  streaming ends, the doubled ones too, and a hold of the thread on top
  (`DrainOutlastsQueue`).
* **Reconnecting.** A headset that comes on and stays is streamed from, after any
  number of resets, opens and handshakes that failed, provided no session is left
  streaming to a device that is gone, which nothing in the code rules out
  (`HeadsetOnStreams`, and `MCIsoUnplug` below); a stop ends the loop
  (`StopEndsBridge`); a sleeping headset is retried ever more slowly and its port
  reset at most once (`AsleepRetriedSlower`, `AsleepNotReset`); from the first
  retry on the status is honest (`OnlineHonestAfterRetry`).
* **Authentication.** No hole in a record and no message with another's bytes
  (`RecordsIntact`), headers survive (`HeadersSurvive`), the finish is computed
  over the right transcript (`TranscriptOrder`), audio waits for the host's finish
  (`AudioAfterFinish`); as long as no write has failed, host and headset never
  both wait (`NobodyWaits`), and the last attempt completes once writes succeed,
  whatever the earlier ones left behind (`HandshakeCompletes`).
* **Virtual device.** A zero time stamp is never in the future and never a whole
  period old when the HAL asks once a period (`ClockInTime`), follows the last by
  one period whoever starts and stops (`TimeLineKept`), and after a pause catches
  up by one period a call (`ClockCatchesUp`). What was set last is in the end what
  scales the blocks and what every listener shows (`ControlsTakeEffect`).
* **Creation.** Nobody maps part of a ring (`MappedIsSized`). A ring that has its
  magic while no process is initialising it is never initialised again, and from
  then on only the plug-in changes its flag and its volume (`PeerUndisturbed`); while
  two processes initialise one between them a live peer *is* disturbed
  (`MCRingWiped`). The ring says what I/O runs and at which volume for clients of
  which the first got a valid ring (`PublishedWhileIO`). What a death or a failed
  ftruncate left of a ring a later bridge completes, and the plug-in gets it,
  unless the death came between shm_open and fchmod (`PluginGetsRing`).
* **Status and panel.** Dials are this bridge's and settle on the last report
  (`DialsOfThisBridge`, `RingShowsLast`, `ShowsLastReport`); the panel settles on
  what the bridge does and a failure to map the ring is reported
  (`StateFollowsBridge`, `FailureShown`).

### What does not

`transfers_double` refutes a claim of the source: the capture transfers that
AbortPipe aborts are resubmitted by `in_xfer_done`, and `run_session` submits all
of them too. The comment that this must not be done stands a few lines below. In
the counterexample an armed transfer is aborted, the loop of `run_session` submits
it, and `in_xfer_done`, run for the aborted completion, submits it again (or the
other way round): it is then pending twice. (What was never delivered before the
loop does not count: the property is about `pending` alone.)

The other configurations state further claims the models refute, each with a short
counterexample, one property each. They are kept for reference and are *not*
among the runs of `PROJECT.json`:

| Configuration | Claim | Counterexample |
|---|---|---|
| `MCPlaybackClick` | a hard step is always faded (`bridge.c:372-380`) | StartIO stores the counter between two transfers, before `before` is loaded |
| `MCPlaybackUnderrun` | an idle device counts no underrun (`bridge.c:391-395`) | coreaudiod dies with its I/O running: nobody clears `out_io_running` |
| `MCIsoUnplug` | the session of an unplugged device ends (`README.md:17-18`) | every transfer ends by refused submissions, none by a completion with kIOReturnNoDevice |
| `MCIsoScheduleClaim` | the thread may be held off for 48 ms (`bridge.c:48-51`) | 40: the transfer that ended carries none of the next frames. With the real sizes and no failures; with `Tolerated = 40` it passes |
| `MCBridgeBackoff` | "the delay grows to a half minute and stays there" (`bridge.c:1024-1026`) | a failed open returns 2, which restarts the backoff: without the dongle the bridge retries every two seconds for ever |
| `MCBridgeStop` | bridge_stop is safe in a handler (`bridge.h:25-26`) | a signal before `stop = 0` of `bridge_run` is lost |
| `MCAuthLate` | nothing is sent before Start (`bridge.c:815-816`) | a late answer to the abandoned attempt is processed by the next one |
| `MCControllerOne` | "There is exactly one bridge per process" (`bridge.h:6`) | a poll between `Thread.start` and `running = 1` shows the bridge as stopped; a second press starts a second `bridge_run` |
| `MCRingWiped` | a bridge does not disturb a live peer (`bridge.c:1010-1011`) | the bridge has mapped the ring it created; the plug-in maps it, finds no magic, initialises it and starts I/O; then the bridge clears it |
| `MCRingIoFlag` | the flag is up while I/O runs (`bridge.c:391`) | the ring is first mapped by a volume change in the middle of I/O |
| `MCStatusSeeded` | a dial shown was reported (`HeadsetStatus.swift:8-9`) | `vol_out` is loaded before the first packet and `vol_seen` after it |
| `MCHalGain` | a torn read is at worst one stale gain (`XboxHeadset.c:52-53`) | a block takes the volume from before two changes and the mute from after them: a gain that was never set |

Two more are refuted by a change of a line. `PluginAlwaysGetsRing` in place of
`PluginGetsRing` in `MCRingMapping.cfg`: with the usual umask a bridge that dies
between shm_open and fchmod leaves an object coreaudiod may not open, and no later
bridge repeats the fchmod. `HeadsetOnStreams` without `SF_vars(ReattachInTime)`: a
failed open asks for another port reset, which takes the dongle off the bus again,
so that one that needs more than the two seconds is never reached.

## 4. Fairness

Only what schedules the code is assumed, and that what may fail does not fail
always; never that the user, a crash or a fault does anything.

* `RingBacklog`: the plug-in's cycle and the bridge's transfers go on while I/O
  runs (both are clocked).
* `IsoTransfers`: the bridge's thread runs, the run loop delivers what IOKit
  queued, IOKit completes what it accepted. `EndSession` waits for `Drained`
  in place of real time: that 0.3 s are enough is `DrainOutlastsQueue` of
  `IsoSchedule`, for the frames the transfers claim. Buffers freed under a
  completion that comes later than its frame are not shown here.
* `BridgeRun`: the bridge's thread runs; every wait in it is bounded but that for
  the end of a streaming session, so `Disconnected` is not fair. Strongly fair
  are `ReattachInTime`, `Open` and `Authenticate`: each may fail in any number of
  attempts, but not in all. For `Authenticate`, `HandshakeCompletes` of
  `AuthHandshake` is what justifies it, for attempts whose writes succeed; that a
  dongle comes back within two seconds in some attempt, and that IOKit lets it be
  opened in some, are assumptions about what is outside this source.
* `AuthHandshake`: the run loop delivers, the reader reads and the headset answers;
  the time-out of an attempt is *not* fair, and the last attempt's six seconds are
  taken to be enough for a headset that answers. The reader lives through that
  attempt.
* `HalDevice`: time passes, the HAL asks for the clock and runs its cycles while
  a client does I/O, calls end, listeners read what they were told of.
* `BridgeController`: the timer fires, threads run, queued closures run.
* `RingMapping`: the bridge is started again (login item, or by hand) until it is
  up, calls of the plug-in end, and ftruncate does not fail for ever (`Truncate`
  and `Existing` are strongly fair). That `ring_map` of a reader ends is not
  needed.
* `StatusSnapshot`: a living bridge finishes its stores, the reader polls.

`RingChannel`, `Playback` and `IsoSchedule` have safety properties alone and no
fairness.

## 5. Proofs

### The ring: `Ring_proofs`

Proved for every `Capacity`, target, trim, set of sizes,
direction and stream length that satisfy `WindowAssumption` (the capacity is
positive, the others natural numbers) and `ChannelAssumption` (no read or write is
longer than the ring):

| Theorem | Statement |
|---|---|
| `Invariance` | `Spec => []IInv` |
| `TypeCorrect` | `Spec => []TypeOK` |
| `NeverAhead` | `Spec => []ReadNotAhead` |
| `Intact` | `Spec => []IntactUnlessLapped` |
| `Fresh` | `Spec => []FreshCapture` |
| `CaptureRefinement` | with `HalReads`, `Spec => CaptureIsLossyFifo` |

**Why an inductive invariant.** `ReadNotAhead` says nothing of a read or a StartIO
in progress, either of which carries an old value of the writer's counter that it will
store later. `CountersInv` and `ReadInv` bound those by the counter as it is now,
which only grows. `IntactUnlessLapped` needs to know what the slots hold:
`SlotInv` says that a slot holds the frame of its position unless a write a whole ring
further was begun (`frontier` is how far writes ever got, published or not), and
after that never an older one; `WriteInv` keeps the frames of the write in progress
between the counter and `wEnd`, less than a ring apart, so that two of
them never share a slot. That is `SlotsDistinct`, the arithmetic lemma all this
rests on: two numbers less than `Capacity` apart differ modulo `Capacity`; it is
proved from `DivMod` and `Multiples`, as the solver has no theory of the remainder
by a variable. `CaptureInv` says that nothing moves the counter under a capture
read, since StartIO and the I/O cycle exclude each other; it is what `Fresh` and the
refinement need, and what playback lacks.

**Layout.** Lemmas on slots and on the window of a read come first, then one
lemma for each part of `IInv` with one step per action. The refinement maps
`WritePublish` to `Publish`, `ReadFrame` to `Hear`, `ReadPublish` to `EndRun`,
`StartIOStore` to `Arrive`, `StopIO` and `CoreaudiodRestart` to `Leave`, and the
rest to stuttering.

### Latency: `Ring_proofs`

For every ring, cycle and transfer that satisfy `BacklogAssumption` (positive
sizes, a transfer that fits in the ring):

| Theorem | Statement |
|---|---|
| `BacklogTypes` | `BacklogSpec => []BacklogTypeOK` |
| `Lossless` | with `JitterAbsorbed`, `BacklogSpec => []NormalOperationLossless` |

`JitterAbsorbed` is the design rule behind `RING_TARGET_BACKLOG`: the clocks may
be apart by `Jitter` either way, which makes a backlog of at most `2 * Jitter`,
so it must hold that `2 * Jitter <= XferFrames + TargetBacklog` and
`2 * Jitter <= Capacity`. With the real sizes, 1536 <= 384 + 1536. The invariant
bounds the backlog by `lead + Jitter`: a read that runs short takes what there is and
only brings the two closer.

### Creation: `RingMapping_proofs`

For any number of clients and crashes, with and without a ring, and any umask
(`MappingAssumption`), with `ring_init` open to the others at each of its steps:

| Theorem | Statement |
|---|---|
| `MappingInvariance` | `Spec => []IInv` |
| `MappingTypes` | `Spec => []TypeOK` |
| `NobodyMapsPart` | `Spec => []MappedIsSized` |
| `Published` | `Spec => []PublishedWhileIO` |
| `Undisturbed` | `Spec => PeerUndisturbed` |

`CreationInv` is the order of creation: nobody gets as far as mapping an object
that does not exist or has not its size. `PeerUndisturbed` says that `Valid` (the
magic is there, and nobody has begun or is bound to initialise the ring) is never
lost: whoever maps a valid ring reads its magic in the step that could make
`Valid` false, and nothing takes the size of an object away. `PublishedWhileIO`
is not inductive: `ServedInv` adds that a ring that served its clients is still
valid and still mapped, without which a clearing under way would lose the flag. A
volume change must find the flag up, which is `FirstClientInv` (the ring is opened
with no client running) and `EnsureInv` (only a plug-in that has no ring
initialises one).

### Playback: `Ring_proofs`

With some transfer size (`ReadSizes # {}`), and on top of the theorems about the channel:

| Theorem | Statement |
|---|---|
| `PlaybackTypes` | `FillSpec => []FillTypeOK` |
| `PlaybackNotAhead` | `FillSpec => []ReadNotAhead` |
| `Concealed` | `FillSpec => JoinsConcealed` |

Every step of `FillNext` is one of the channel or leaves it alone, so `IInv`
carries over. `JoinInv` adds that, as long as StartIO has not moved it, the
counter is where the last transfer left it: at the end of what was heard, unless
that transfer fell short, and at `before` plus what the read in progress takes.
A step that is not faded then needs a StartIO.

### Transfers: `IsoTransfers_proofs`

For every `NumXfers` and every result of transfers to a device that is gone
(`IsoAssumption`):

| Theorem | Statement |
|---|---|
| `TransferTypes` | `Spec => []TypeOK` |
| `SessionRefinement` | `Spec => SessionOfRun` |
| `SubmittedOnce` | `Spec => []OutSubmittedOnce` |
| `NoneLost` | `Spec => []QueuesStayFull` |

`Account` of a transfer is how often it was accepted or refused for good and is
not delivered yet. A completion moves one from `pending` to `completed`, the abort
moves all of them, and a callback that submits takes one off and puts one back, accepted or
refused; only a callback that does not submit lowers it, and none of those runs as
long as the session is fed. `AccountInv` compares it with `HandedOver`.
`SessionInv` relates the result to the flags for the refinement.

### Schedule: `IsoSchedule_proofs`

For all sizes and any number of failures and losses, at any callbacks
(`ScheduleAssumption`), with the design rule each needs; `Slack` is
`(NumXfers - 1) * AudioPkts`, `Horizon` is `LeadFrames + 2 * (NumXfers * AudioPkts)`:

| Theorem | Statement |
|---|---|
| `ScheduleTypes` | `Spec => []TypeOK` |
| `OneTransferPerFrameTheorem` | `Spec => []OneTransferPerFrame` |
| `NeverDryTheorem` | `Tolerated <= Slack => (Spec => []NeverDry)` |
| `DrainTheorem` | `Horizon + MaxHold <= DrainFrames => (Spec => []DrainOutlastsQueue)` |
| `GapTheorem` | `AbortPoll <= LeadFrames + MaxHold => (Spec => []GapBounded)` |

The sizes of the source satisfy the rules: 40 <= 40; 64 + 96 + `MaxHold` <= 300 for a
thread held off for up to 140 ms; 20 <= 64. So what TLC checks with small sizes
holds for them.

`Ordered` says that the transfers of the current schedule lie in order before the
next frame to claim; no claim is made for older ones, which is why a failure may
come at any time. While nothing is disturbed the playback queue is unbroken, each
transfer beginning where the one before it ends, which is why one period of the
queue is what a thread may be late (`Steady`). For the drain, each callback may
move `next` on by one transfer, also when the queue is in disorder: `KeepsUp(k)`
says that the last `k` transfers account for where `next` is, and that the others
can move it no further than `Horizon`. For `GapBounded`, `NextFollows` and
`EachFollows` bound `next` and each claim by the lead and by the claims before it,
`NotReached` that playback's first transfers are still to come before it has
begun, `Held` how late a callback can be; the invariant adds the silence so far to
the wait for the transfer that will end it.

### Reconnecting: `BridgeRun_proofs`

For any number of resets counted (`BridgeRunAssumption`): `RunTypes`, `OneReset`
(`AsleepNotReset`), `OnlineHonest` (`OnlineHonestAfterRetry`) and `SlowerRetries`
(`AsleepRetriedSlower`). The opens may fail and the dongle be away for whatever
reason. `ResetInv` ties the reset that is asked for to whether an attempt could
open the dongle; that the delays are a table indexed by the attempt makes the
third a matter of the attempt only growing.

### Virtual device: `HalDevice_proofs`

For all constants that satisfy `HalAssumption` (the HAL asks once a period unless
it pauses):

| Theorem | Statement |
|---|---|
| `ObjectTree` | owners and owned objects agree where both are answered (streams answer no owned objects), the output and the input share none |
| `SettableIsAccepted` | what `IsPropertySettable` allows is what `SetPropertyData` takes, can be read and is reported |
| `ClockInTimeTheorem` | `Spec => []ClockInTime` |
| `TimeLineTheorem` | `Spec => TimeLineKept` |
| `HalTypes` | `Spec => []TypeOK` |

### Handshake: `AuthHandshake_proofs`

For any length of the headset's records that needs a start, a rest and an end
(`ClientLen > 58`, the payload of one packet), any number of attempts and of
failing writes, and any of the three dialects (`HandshakeAssumption`):

| Theorem | Statement |
|---|---|
| `HandshakeTypes` | `Spec => []TypeOK` |
| `HeadersOnTheWire` | `Spec => []HeadersSurvive` |
| `ConversationKept` | `Spec => []ConversationInv` |
| `FirstAttempt` | in the first attempt the four properties below hold: `Spec => [](session = 1 => ...)` |
| `NoMutualWait` | with `~LateAnswers`, `Spec => []NobodyWaits` |
| `NoHoles` | with `~LateAnswers`, `Spec => []RecordsIntact` |
| `SecretFirst` | with `~LateAnswers`, `Spec => []TranscriptOrder` |
| `FinishBeforeAudio` | with `~LateAnswers`, `Spec => []AudioAfterFinish` |

**Why the assumption.** `LateAnswers` lets a packet that the headset sent to an
abandoned attempt be read by the next one. Nothing in the code tells the two
apart, and TLC refutes all four of these with it (`MCAuthLate` is the
configuration to change), so what is proved in full is what the exchange does
as long as an attempt hears its own answers only: always in the first attempt,
and in later ones if the headset has gone quiet during the backoff. That records
stay within their bounds and headers survive needs no such thing.

**The argument.** None of the properties says whose packet comes next, and a
single packet at a wrong moment breaks all of them. `Conversation` says it: the
exchange is over; or silent, before it began or after a write that failed; or the
headset is about to speak and nothing is under way to the host; or the host is,
and nothing is under way to the headset. With each turn goes what was sent: the
packets of a record that are under way are the fragments between what the receiver
has and what the sender has left, up to one that asks for an acknowledgement and
nothing after it. From this follow the transcript (`Transcribed`), what the
headset has heard (`FinishHeard`) and that no record is torn. There is one lemma
for each kind of packet that host and headset read. The fragments are given by
their offsets; `FragmentsCover`, `FragmentsCount` and `SomeFragments` say of them
what the steps need, without induction. `HeadersOnTheWire` is the codec:
`EncodeShort`, `EncodeLong` and their inverses `DecodeShort`, `DecodeLong` for one
and two bytes of a length, joined for the three shapes of a header on the wire.

### Status and controller: `MenuBar_proofs`

For all positions, subcommands and numbers of packets and starts
(`StatusAssumption`), and any set of bridge threads (`ControllerAssumption`):

| Theorem | Statement |
|---|---|
| `StatusTypes` | `Spec => []TypeOK` |
| `DialsReported` | `Spec => DialsOfThisBridge` |
| `LastStored` | `Spec => []RingShowsLast` |
| `ControllerTypes` | `ControllerSpec => []ControllerTypeOK` |

`StatusInv` lists which stores may be left (`ResetLeft`, `PacketLeft`): in the
middle of a reset nothing is known of the ring, after it every field holds its
seed or what was reported, and `vol_seen` is set only after the main dial it
vouches for. `ReadInv` says the same of what a reading has loaded, as long as it
found `vol_seen` set and no bridge has started since. `LastInv` looks ahead:
each field will be (`Becomes`) what the headset reported last, because it is
among the stores to do, each once, or is not and has been stored.
`RingShowsLast` is what is left of it when there is nothing to store; a packet
without the chat dial needs it, since what it leaves alone was said by an
earlier one.

### What is only model-checked

Liveness, and with it every property under fairness, is out of the prover's
reach (it needs ENABLED): `LatencySettles`, `SessionEnds`, `HeadsetOnStreams`,
`StopEndsBridge`, `HandshakeCompletes`, `StateFollowsBridge`, `FailureShown`,
`PluginGetsRing`, `ShowsLastReport`, `ClockCatchesUp`, `ControlsTakeEffect`. Every
invariant and action property of a passing run is also a theorem, the handshake's
under the assumption above. Type invariants that a theorem states are not
checked by a run again, nor is `ReadNotAhead` for capture.

## 6. Plan

Done: the ring, playback, latency, creation, transfers, schedule, reconnect loop,
handshake, plug-in, status, panel and the theorems of section 5.

Next, in the order in which it matters:

* the handshake with answers that outlive their attempt as its normal case
  (`MCAuthLate` is the configuration to start from);
* the capture samples (`process_incoming_mic`) between the transfers and the
  ring;
* the app around the reconnect loop: `BridgeController` with `BridgeRun` as its
  bridge threads;
* proofs: which properties of the handshake survive late answers, and the safety
  half of the other liveness properties, as `RingShowsLast` and `NobodyWaits`
  are: what must hold for the next step to be possible.

## 7. What is not modelled

* Sample values: conversion, gain beyond the choice of one, the shape of a fade,
  the parsing of capture packets. No property is about them; what a fade is needed
  for is.
* Real time. Time-outs are choices; what they must outlast is said above. Bus
  frames and the clock of the virtual device are the exceptions.
* Memory order beyond what `ring.h` asks for: its acquire loads and release
  stores are taken at their word. The 64-bit counters are unbounded: they do
  not wrap in a lifetime of frames.
* Keys, certificates and hashes of the handshake, and with them the failure returns
  for malformed records and a failed encryption; sequence numbers, which nothing
  compares.
* Failures of fstat and mmap in `ring_map`, and a second bridge process beside the
  first.
* The plug-in's constant properties (names, formats) and its reference count, of
  an object that is static and never freed.
* IOKit itself: enumeration and endpoint discovery, and what it does with
  transfers of an interface being closed or a bus frame asked for twice.
* The panel, the login item, diagnostics (presentation and single calls of system
  services), the development tools `probe.c`, `tone.c`, `mic.c` (sequential
  programs that repeat parts of the bridge) and the icon generator.
