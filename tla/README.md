# Free Harvest: TLA+ models, model checks and proofs

Free Harvest is the firmware of a USB dongle (ESP32-S3, ESP-IDF, FreeRTOS, C)
that takes the place of the Harvest Right Wi-Fi adapter.  It speaks the dryer's
line protocol over USB CDC, keeps a log of every frame, a logbook of batches
and a graph of the current run, and serves them over HTTP and MQTT.  This
directory holds TLA+ modules translated from its source, the TLC configurations
that check them on small instances, and proofs checked by TLAPS.

`PROJECT.json` lists the components, the runs, the source lines each definition
stands for, the hazards, the disagreements found and the theorems.  Paths below
are relative to the repository.

## 1. Inventory

### The tasks

| task | code | what it does to shared state |
|---|---|---|
| USB receive | `hr_usb.c`, `hr_stream_feed`, `on_inbound` in `main.c` | reassembles frames; under `s_hist_lock` notes the dryer's state, adds to history, series and batch tracker; queues a copy for the capture log; hands file answers to `hr_dryerfiles` |
| main loop, 4 times a second | `main.c` | session ticks, file-transfer ticks, closing of graph buckets, resume and saving of the graph, logbook (resume, records, checkpoints), update confirmation, compatibility switch |
| capture writer | `writer_task` in `hr_capture.c` | takes queued frames, collapses runs, rotates segments, under `s_lock` |
| boot mount | `cap_mount` in `hr_capture.c` | mounts the partition, makes the log fit, sets `s_ready` |
| HTTP server, one task | `hr_http.c` | downloads, clears, formats, file transfers, remote control, settings, uploads |
| restart helper | `hr_reboot.c` | the shutdown of the capture filesystem, then the restart |
| Wi-Fi and timer callbacks | `hr_wifi.c`, `hr_netwatch.c` | station, setup hotspot, recovery |
| MQTT client | `hr_mqtt.c` | connection state, publishing |

### The parts

For each: its state; its operations; whom it meets; what is hard; what makes it
correct.  The status of each is in `PROJECT.json`, "components".

| part | state and operations | meets | hard | correct when |
|---|---|---|---|---|
| quiesce gate (`hr_quiesce.c`) | `users`, `closing`; enter, leave, close, reopen, drained | every user of the filesystem | the order of the two atomics on both sides | a drain that reads zero has seen an empty filesystem |
| capture filesystem (`hr_capture.c`, `hr_reboot.c`) | `s_lock`, `s_ready`, registration with the VFS; mount, shutdown, format | logbook, download, writer, graph file | two teardowns, a mount, timed-out takes, no reference count in the VFS | never unregistered under a user of the gate; a requested restart happens |
| capture log (`hr_capture.c`) | segments, active index in NVS, queue, pending run, reader; append, write, rotate, flush, read, clear, mount | USB task, HTTP task, power | rotation under a download, the run across rotation, the budget of a mount | every frame in one place, in order; the partition never fills |
| graph (`hr_trend.c`, `main.c`, `trend.bin`) | series, open bucket, stale note, count saved; add, tick, reset, resume, save | USB task, main loop, power | file written without the lock of the series; resume after a cut | one run per graph, true in time; the file is the beginning of it |
| batch tracker (`hr_batchlog.c`) | current record, last phase and counter; observe, resume | USB task, main loop | repeated, odd and missing reports, counters that start again | a record never split, phase times really counted |
| logbook (`hr_batchstore.c`, `main.c`) | two files and an index, checkpoint of three keys; append, save, clear, load | main loop, HTTP task, power | cuts between keys, the first report before the store is ready | a record that was begun is in flash from its first write on; a run is written once at most, with the end it had |
| file transfers (`hr_files.c`, `hr_dryerfiles.c`) | transfer state, ring, listing; list, read, cancel, take, tick, frame | HTTP task, USB task, main loop, dryer | late and corrupt answers, retries, a file that grows, a full ring, a browser gone | what is taken is the beginning of the file, done means all that was listed; every transfer ends |
| frame reassembly (`hr_protocol.c`, `hr_enc.c`) | line buffer, side buffer, the length being collected or skipped; feed, discard | USB task | a header that promises what never comes, oversize blocks, payloads that look like lines | every frame after a clean start is delivered exactly once |
| session (`hr_session.c`) | link, time of the last frame, variant of the handshake; receive, tick, hello, heartbeat, send | USB task, main loop, HTTP task | time-outs racing late frames, a new USB session under a link that stays up | the dryer of every session is introduced to |
| USB transport (`hr_usb.c`) | attach state, output queue, `s_tx_lock` | session | the queue cleared while another task writes | a frame is sent whole or not at all, and to the session it was meant for |
| compatibility switch (`hr_compat.c`) | setting, pending change, origin of the choice | session, HTTP task | the automatic change against the user's | the user's choice wins |
| Wi-Fi, watchdog (`hr_wifi.c`, `hr_netwatch.c`) | status, retry timer, setup window, back-off stage | event task, timer task, HTTP task | callbacks from several tasks, one-shot timers | on the way back to a connection unless a call to the driver was refused; the setup network closes |
| MQTT (`hr_mqtt.c`) | client, connected flag, bounded queue | event handler, publisher, HTTP task | the client replaced under its handler | no publish on a dead client; queue bounded |
| remote control (`hr_control.c`, `hr_http.c`) | switch, PIN, failures, lock-out, counter, recipes | HTTP task, MQTT task, session | stale screen, wrap of the lock-out, flash that fails | a press only on a screen it is allowed on, with a counter never used before |
| phase and recipe trackers (`hr_telemetry.c`, `hr_recipe.c`) | last counter and its age, running; extensions of the drying | USB task, main loop | two writers without a lock, a counter kept from the last run | "running" only of a counter that moves; extensions counted for the run they are of |
| rings (`hr_history.c`, `hr_encring.c`, `hr_logring.c`) | fixed rings of frames and lines | several tasks | full ring, torn reads | oldest goes first |
| update (`main.c`, `hr_http.c`) | trial image, deadline | HTTP task, main loop | confirmation racing the deadline | kept only if proven, rolled back otherwise |

The hazards found in the survey, each at its line and with the properties that
would catch it, are in `PROJECT.json`, "hazards".

## 2. The modules

```
QuiesceGate <-- CaptureFs <-- MCCaptureFs          Trend <-- TrendGraph <-- MCTrendGraph, ReportProofs
                   |   \                           BatchTracker <-- Logbook <-- MCLogbook, ControlProofs
        Teardown <-+    CaptureFsProofs            CaptureLog <-- MCCaptureLog, CaptureFsProofs
                                                   HrFiles <-- DryerFiles <-- MCDryerFiles
     (<-- is EXTENDS; Teardown and FileFetch                    |   \
      are the abstract specifications, by INSTANCE) FileFetch <-+    DryerFilesProofs

HrStream <-- Stream <-- MCStream, LinkProofs       Netwatch <-- Wifi <-- MCWifi, WifiProofs
UsbPort <-- Link <-- MCLink, LinkProofs            Mqtt <-- Report <-- MCReport, ReportProofs
Control <-- MCControl, ControlProofs               BatchStore <-- BatchStoreProofs
                                                   Update <-- UpdateProofs
BatchStore and Update are checked as they are, without an MC module.
```

Four modules of proofs are of two components each, which have nothing to do with each
other but that their proofs stand together: so the names of `Stream`, `CaptureLog`,
`TrendGraph` and `Logbook` begin with the module's where another component has the same
(`StreamSpec`, `LogNext`, `GraphTypeOK`, `LogbookInit`).

A definition whose name begins with "Slip" (in `CaptureFs`: one that ends in
"Leak", "Ignored", "Forgotten", "Unused", "Forever" or "Anyway") is not part of the
system.  It is a plausible error in the definition below it, used to see that
the properties notice it; each property has one.

Most modules gather several invariants under one name (`Guarded`, `RingSound`,
`LogSound`, `LogbookSound`, `SlotsSound`, `TrialIsDecided`, `FramesArrive`, `SeriesSound`,
`RunsAreAccountedFor`, `IntroductionSound`, `StatusSound`,
`CounterSound`, `ClientsSound`, `ShownRunIsReal`): the parts are defined, named and
explained one by one just above, with the type invariant among them.

### QuiesceGate, CaptureFs, Teardown: the filesystem and its teardown

`QuiesceGate` has the two atomics of `hr_quiesce.c`, one operator per access.
`CaptureFs` puts every task that touches the partition around them: `pc[t]` is
where a task is, every access to shared state is a step of its own, and a task
may be anywhere when another moves.

| model | code |
|---|---|
| `EnterCount`, `EnterCheck`, `EnterRefused`, `Leave` | `hr_quiesce_enter`, `hr_quiesce_leave` |
| `LockBegin` .. `LockGive` | a take of `s_lock` that may time out, by writer, graph save, clear |
| `FlushBegin`, `FlushEnd` | the flush of the pending summary when a download opens |
| `NestIn`, `NestOut` | `seg_size()`, which enters the gate again inside a region |
| `MountRegister`, `MountFail`, `MountReady` | `hr_capture_mount_now`, from `cap_mount` or after a format |
| `FmtBegin` .. `FmtFinish` | `hr_capture_format`, with its refusal and its failure |
| `SdBegin` .. `SdUnmount`, `Restart` | `hr_capture_shutdown` and `esp_restart` |

A timed-out take is a choice that is always open (`LockGiveUp`, `FmtNoLock`,
`SdNoLock`), a deadline likewise (`Deadline`): the time a holder needs is
nowhere bounded.  `Teardown` is the contract: a filesystem, those inside it, and
the rule that it goes down only when nobody is inside.  `TornDownAlone` says that
`CaptureFs` implements it, with `mounted` for "up" and the tasks in a call for
"inside".

A format may be requested at any time (`FmtBegin`), for neither `h_storage_format` nor
`hr_capture_format` looks whether the boot mount is over, and `cap_mount` is neither in
the gate nor under the lock.  `crossed` is history: a format has passed its drain while
the boot mount was still to come or at work.  What the code keeps all the same is the
count, the lock, the closer of the gate, the liveness, and `FormatFindsNobody`: a format
unregisters the partition with nobody between enter and leave and nobody holding the lock.
What it does not keep from then until the restart is the rest: the mount may lose its
partition, `s_ready` may be set over one that is not mounted, and a shutdown that began on
that `s_ready` while the format erases waits for users of its own only, so that it may
find the partition mounted again with readers on it.  `ReadyMeansMounted` and
`TornDownAlone` are therefore about the time before; `Teardown` has a step for the loss
of its promise (`Lose`), which `CaptureFs` takes in `FmtUnready` alone.

### HrFiles, DryerFiles, FileFetch: the dryer's files

`HrFiles` is the transfer state machine of `hr_files.c` as operators on its
record `hr_files_t`: begin, answer, retry, pause, resume, cancel, expire.
`DryerFiles` is `hr_dryerfiles.c` around it: the three tasks meet under one lock,
so each handler is one action (`ListFiles`, `ReadFile`, `CancelTransfer`,
`SetEnabled`, `Take`, `EntryArrives`, `BlockArrives`, `MainTick`).  The ring is
the code's: a buffer with `head` and `len` that wraps, so that an error in its
arithmetic would show in the bytes taken.  The dryer (`net`) is outside the
repository: it answers requests in order, late, corrupt or not at all.  The
parsing of a block is reduced to its verdict, a byte to the file it is of and its
place there.  `FileFetch` is what the browser is promised; `FetchesTheFile` is
the refinement.

The dryer's files grow while all this goes on (`Grow`), as the one that gets a row a
minute does (`hr_files.h`).  An answer tells of the file as it was at some time since the
question (`Had`; a request carries how long the file was then, `was`), while
a read goes by the size in the list of an earlier listing (`Listed`), and is done when it
has as much.  `promised` is history, what a read has to bring to be whole (`Promise`): what
the file had when listed, or else when the read began, or when a late answer to an earlier read
was asked for.  It may have more by the time of "done" (section 3, `DoneIsTheFile`).
  A pattern asks for some of the files (`Matches`).  `mixed` is
history: the listing was begun while requests for another one were outstanding.  The
answers to those are taken for its own (`on_entry` looks at the index alone), so
`ListIsTheDryers` excepts it and `ListIsAsAsked` (section 3) does not.

### BatchTracker, Logbook: records of batches

`BatchTracker` is `hr_batch_observe` and `hr_batch_resume` as operators on the
tracker.  `Logbook` is `on_inbound` (two critical sections: `Hear`, `Track`) and
the logbook part of the main loop, statement by statement where the store is
written (`Pass`, `DecideResume`, `DecideClose`, `TakeParked`, `TakeCheckpoint`,
`Write`, `Clear`, ...).  The checkpoint is three keys, written and erased one by
one.  The dryer goes from screen to screen as one of `Programs` says and its
counter goes on, powered adapter or not.  `truth` and `dark` are history: how each run ended and
which runs a power cut bears on.  So are `owed`, the runs whose record was begun and has not
been given up, and `saved`, those of them the flash has been given.  `Of(r)` is where the log speaks of run `r`, `Told(r)`
what it should say.

`Orderly` is what the proofs take a dryer to be: it begins a run with its preparation or
with freezing, strays to another screen only once it dries, and leaves the screen of
completion only for the idle one.  The programs of the run `logbook` are such, which its
module asserts; the dryer of `MCLogbookExtra`, which extends a run it has called
complete, is not: the tracker closes the run at the screen of completion and begins
another record when the drying goes on, so one run has two.

Temperatures, vacuum and the format of a line are left out: no decision depends
on them.  The count of extensions of `hr_recipe.c` rides on `last`, and goes into a
record when it is parked, as `on_inbound` does it.  The log is a sequence of records; the two files it is kept in are
`BatchStore`'s.  While the adapter has power every screen is
heard, and reports of the counter may be lost in between.  The power may be cut at any step of the main loop.  A run the cut touches,
or whose record or checkpoint it leaves half done, goes into `dark`, and the
properties about single records (`WholeRunsRecordedOnce`, `PhaseTimeIsReal`) are about the
others.

`RecordsAreKept` is about all of them, the dark ones first.  A record is owed from the frame
that begins it.  Until flash has been given it, or its checkpoint, it is the tracker's,
parked, or in the main loop's hand; from then on it is in the log or in NVS at every moment,
through every cut.  The ways in which the code gives a record up are named, each at its
action (`Givenup`): the append is refused (the store not ready, flash); it is finished while
another is still parked (`main.c:325`); the log is cleared; the power goes before its first
checkpoint; another run is resumed over it, or while it waits as the tracker's; or records
are taken after a cut before the run left open has been decided about, which takes its
checkpoint.  `EveryRunHasItsRecord` (section 3) says how a run is lost without a cut.

### BatchStore: the logbook on flash

`hr_batchstore.c`, call by call: the main loop's `MainInit`, `AppendBegin` ..
`AppendWrite` with the three steps of a rotation (`RotateRemove`, `RotateSwitch`,
`RotateSave`), and the web server's reader (`Download`, `Read`, `ReadNext`), `Clear`
and reopening after a format (`Reinit`).  The two have no lock in common: `main.seg`
and `web.seg` are the values of `s_active` each works with.  A file that is removed
while it is open reads and takes nothing more (`live`).  A record is its number; a
power cut may leave a line without its end.  `done` is history: the numbers on flash
since the logbook was last empty, the rotated ones included.  That no more than
`Overlap` appends meet one clear is an assumption on time: a clear takes less than a
second, a run hours.  With two of them, `OldestFirst` fails after a restart: the index
in RAM and the one in NVS then name different files.

### CaptureLog: the capture log

Frames are numbered as they arrive, which is their stamp.  A line is a frame or
the summary of a run.  `Arrive` is `hr_capture_append`; `Take`, `Lock`,
`RemoveOldest`, `Switch`, `Write` are the writer, with the removal of the oldest
segment and the saving of the new index as steps a power cut can come between;
`Open` to `CloseDownload` are the reader; `MountLog` is the computation of the
budget, the lowering of the ceiling, the adoption of an old single-file log and
the dropping of what does not fit.  `lost` is history: what went with an old
segment, a clear, a missed lock or the power.

Sizes are counted: `FileSize` is the lines of a file, the summaries at `SummarySize`;
`Sum` is the number of units of the partition that segments of these sizes take
(`Space`).  The two loops of the mount are said by their result: `Ceiling` is the first
of the lowered ceilings that is enough, `Kept` what is left when the fewest segments
go, the biggest first.

Left out: a failing `fopen` or `fwrite`, the stepping over damaged flash, the
graph file on the same partition (`Reserve` stands for its room), and a power cut
inside a clear.  `CaptureLogAssumption` asks that the reserve hold one summary
per segment, which the real constants satisfy by far (128 KB against 4 lines).

`OldLogFits` is what the mount cannot bring about.  It drops the biggest segment that is
not the active one; a `frames.log` from before the rotation becomes segment 0, which is
the active one, and goes only when the rotation comes back to it, after the others have
grown to the ceiling's floor.  If it was nearly as big as the partition, they do not fit
beside it.  `LogSound` is proved, and checked, for old logs that leave that room (on the
adapter: some 2.6 of 2.75 MB); TLC shows a partition that is overrun when
`MCCaptureLog.cfg` has a `Legacy` of `{0, 12}` and the module does not assert `OldLogFits`.

### Trend, TrendGraph: the graph and its file

`Trend` is `hr_trend.c` as operators on the series: `Tick`, `Add`, `Restored`.  A
point is the time it was taken, or `Gap`; the median and the smoothing, which
decide no bucket, are left out.  `TrendGraph` is `on_inbound`'s part (`Hear`), and
the main loop's (`Sweep`, `RemoveFile`, `Resume`, `Restore`, `Persist`,
`SaveOpen`, `SavePoint`, `SaveClose`, `Saved`), with the USB task between any two
of its steps.  `SavePoint` takes the lock of the series for one point, as the
code does, so the series may be emptied in the middle of a save.  `silence` and `twice`
are history: how old the counter was that a file has with it, and how much of that a
restore therefore added again (section 3, `OutageCountedOnce`).  The power may
be cut anywhere; the file keeps what was written of it.

A pass of the main loop takes no time on the model's clock, whose unit is about
the time between two reports.  The format of the partition is not an action
here, and a copy of one point is not torn.

### HrStream, Stream: from bytes to frames

`HrStream` is `hr_stream_feed` as operators on the part of `hr_stream_t` that
decides where a byte goes.  Each returns the next state and what was handed on.

| model | code |
|---|---|
| `Feed`: `FeedSkip`, `FeedLong`, `FeedEnc`, `FeedNoise`, `FeedPrintable`, `FeedEnd` | the branches of `hr_stream_feed`, in its order |
| `HasHeader`, `FeedHeader`, `Resync`, `AskMeasure` | the encoded header, the search for one that is not at the start, the question whether a line is a file block |
| `EncAbandon`, `EncDeliver`, `LongAbandon`, `LongDeliver`, `Reject`, `DiscardPartial` | the functions of those names |
| `FrameParses`, `EncDecodeLen`, `EncDecode`, `BlockMeasure` | what the parsers say of a run of bytes |

`Stream` is the dryer writing one of a set of frames a byte at a time, with
`hr_session_rx` (which drops a partial frame after 1.5 s of silence: `Stale`),
`on_enc` and `on_long` behind the framer.  A frame may be cut anywhere, a stray byte
come between, a silence fall between two frames.  `clean` is history: nothing
disturbed is pending, because a line end or a silence has come since.  A byte is a
small number for what the code can tell of it: length digits, the verb of a block,
comma, the two letters of a header, noise, line end.  The cipher is a bijection.

Some frames are promised less (`Promise`): a plaintext line that holds the letters
of a header only before the encoded transport begins; a plaintext block only where
the framer asks about the line at all, which it does not for a line that directly
follows an encoded frame (`long_not` stays set); an encoded frame longer than
either buffer never; an encoded file block only if it is too long for the line
buffer.  The last is a disagreement (section 3, `BlockArrives`).

### UsbPort, Link: the conversation with the dryer

`UsbPort` is `hr_usb_tx` in its steps (`TxEnter`, `TxNobody`, `TxLock`, `TxBusy`,
`TxQueue`, `TxNoRoom`, `TxDone`) for any task, against `Mount` and `Umount`, which run
on the TinyUSB task and so not while that task sends.  A frame is whether it belongs
to the session it was asked for in.

`Link` puts `hr_session.c`, `hr_compat.c` and the handshake of the main loop on top:

| model | code |
|---|---|
| `RxFrame`, `AskForSwitch`, `Reply` | `on_frame` and `on_inbound` on the TinyUSB task: link up, the automatic rule, the answer |
| `ReadClock`, `Tick` | the loop's `t`, read once and then `hr_session_tick` with it, however old |
| `SeeMounts`, `AutoTake`, `AutoSet`, `AutoStore`, `StartsOver`, `Greet`, `SendNext` | `main.c:579-636`, flag by flag; each frame is a `hr_usb_tx` of its own |
| `Heartbeats` | `hr_session_heartbeat` |
| `Post`, `PostStore`, `SetRam`, `SetNvs` | the owner's choice: memory first, then flash |
| `Command` | a frame from the web server |

Times are ages that stop at the last value that matters.

### Netwatch, Wifi: the network

`Netwatch` is `hr_netwatch.c` as operators on its record.  `Wifi` is `hr_wifi.c`: the
event task (`OnStaConnected`, `OnLeft`, `OnLinkLost`, `OnJoinFailed`, `OnGotIp`,
`OnLostIp`, one per case of `on_event`, with `RestoreSetup` where the code waits for
the driver), the timer task (`Poll`, `Retry`, `WindowEnds`), the web server
(`SetCredentials`, `Forget`), the restart.  External are the driver's state, its
queue of events, the router and the lease: joins fail, a lease goes with the
association standing, the DHCP client or the association may be what is stuck (so
that the one remedy or the other is needed).  A poll is the unit of time.  The event
of a lost address runs the watchdog's check as a poll does, and may rejoin at once.

The driver may refuse any call to connect, or a configuration, at once and without an
event; each counts as a fault.  The callers log it: all but the rejoin of the watchdog, which
arms the retry timer.  `refused` is history: the last call that was to send the station on
its way was refused (or refused new credentials after the disconnect), and no retry was
armed.  `OnTheWay` says that a station with a network to join is idle then only.

Assumed: the driver calls of one HTTP request are over before the next poll.

### Control: who may make the dryer do something

The web server has one worker, so its handlers follow one another; a handler that
sends is three steps (its checks, the counter's write to flash, the frame), with
frames of the dryer, the link's time-out, the MQTT task, the power and the clock
between them.

| model | code |
|---|---|
| `Press`, `RecipeSend`, `RecipeApply`, `DryerReboot`, `Cmd` | the five routes to the dryer |
| `ControlEnable`, `PinChange`, `PinVerify`, `RecipeSave`, `RecipeDelete` | the routes that change what the others look at; a write that fails leaves either value |
| `Checked`, `Live`, `Class`, `Sendable`, `RecipeStartAllowed` | `hr_control_check`, `live_screen`, `hr_cmd_classify`, the send functions' own refusals |
| `PinCheck`, `PinGuard` | the PIN, its count and its lock, a difference of counters that wrap at twice `Half` |
| `TakeSeq`, `SendFrame` | `ctrl_next_seq`, `hr_session_send_raw` |
| `MqttMessage`, `MqttSend` | `handle_cmd`, on a task of its own: its look at the switch, and the frame |

`overtaken` is history: the switch went off after the MQTT task's look and before its
frame.  The web server's handlers have the switch's own route for a neighbour on one
worker, so only what a handler itself leaves out could break `HandlersObey`; the MQTT task
has not, and `BrokerObeys` bounds what it may still do to the one command past its check.

Left out: the lock-out's end falling on the one millisecond that reads as "no lock";
a counter that cannot be read, with which the code starts again at
`HR_SEQ_START`, and the erasure of all settings at boot, which does the same.

### Mqtt, Report: what is told of the dryer

`Mqtt` is `hr_mqtt.c`: `pub_task` (`Receive` .. `Release`), `connect_now` (`LockClient`,
`Detach`, `AskToStop`, `Destroy`, `Make`, `Attach`, `Start`) and the handler of each
client (`Connected`, `ReadClient`, `Call`, `Disconnected`).  The library is external:
stopping waits for the handler at work, a call takes the client's own lock.
`Report` composes it with the phase tracker: `Stat` is `on_inbound`'s use of a STAT
frame, `Tell` the web server's copy, `TickLook`, `TickClear` and `CopyTracker` the main
loop, which has no lock for the tracker and looks and clears in two accesses.  A
frame is its kind of screen and how its counter compares with the last one.

### Update: an update and its way back

`Update` is `h_ota` (`UploadBegin`, `Receive`, `Stall`, `Abort`, `UploadEnd`, `Choose`),
the main loop's decision (`Confirm`, `RollBack`, `Pass`) and the restart.  The
bootloader is external, as `sdkconfig.defaults` describes it: an image that is still
on trial at a boot is given up, the latest entry that is not refused is taken, and if
its image is not whole, any that is.  Whether the adapter is reachable is free, but
for an image that never is ("deaf").  What is uploaded may also be another project's,
too short, or damaged at its end; the flash may refuse.  `late` is history: an upload
began after the running image was marked invalid and before the restart it waits for.
Such an upload erases the image to go back to, so the bootloader falls back on the
marked one; `WayBack` and `InvalidIsLeft` except it.

`adapter_reachable()` looks at the Wi-Fi status only.  On a network that hands out no
address the status is `NO_IP`, although the setup network is on the air from boot for
the length of its window; such an image is rolled back.  The model has no opinion on
that: `reach` is the function's result, and it changes at will.

## 3. The runs

Deadlock is checked in every run but `store`, where a store whose bound is used up
stops.  The instances are small on purpose: each
bound is just above what makes its cases happen.

### Passing

| run | shows | bounds, and why they suffice |
|---|---|---|
| `capture_teardown` | a format unregisters the partition with no user of the gate or the lock in it, whatever the boot mount does; until a format has crossed the boot mount it is unregistered only with nobody in it and `s_ready` means mounted; gate count and lock stay right; a requested restart happens and a format is answered | main loop, writer, HTTP task, restart helper, boot mount: all the tasks there are.  No bound: the state space is finite.  The safety part is proved for any set of tasks |
| `files` | what the browser takes is the beginning of the file, done means all that was listed, ring neither lost nor freed under a reader; a listing reported whole is the dryer's; every transfer ends and gives its ring back | a file with a short last block, one larger than the ring and over the limit, each growing by one unit at any moment, so that a listed size is stale and a short block becomes a whole one; a name that does not exist; two listings; a ring of two blocks and one unit, so that it refuses, pauses and wraps at odd offsets; 2 requests outstanding, so that a late answer meets a retry or a new transfer; one retry; one name kept of a listing, so that the longer one is cut |
| `logbook` | a record that was begun is in the log or in NVS from its first write on, or given up in a named way; a run the cuts spare is recorded at most once, truly, with no phase time invented; a checkpoint does not outlive its run | three programs of the dryer, one per behaviour: 2 runs through preparation, freezing, drying, final dry, an excursion and an odd frame, with a counter to 2, a step limit of 1 and reports that may be lost, so that a jump is too large; or 2 short runs, which complete or are ended, with power cuts at any step of the main loop, also between two keys, one of the runs affected, and no more cuts once there are 2 records; logbook cleared at any moment.  `Glitches` is `FALSE`: no frame's counter reads too high, which `main.c:109` says was seen; section 3 has what it does |
| `capture_log` | every queued frame is in one place, summaries count right, order survives, the partition never fills, a download sends nothing twice or out of order | 3 segments of 2 units, a summary taking 2, the ceiling lowered to 1 when an old-style log of 6 is taken in, so that 4 frames go round the ring of segments and a line can pass the ceiling; queue of one, so that frames are dropped; 2 kinds of frame; downloads, clears, formats and restarts at any time |
| `graph` | the series is in order and not stretched, a run has a graph of its own, the file is the beginning of it | 2 runs, 1 cut, 7 units of time, buckets of 2, window of 4 points: late ticks leave gaps, it fills and slides |
| `stream` | no buffer overrun; every promised frame arrives once, whole, at the one it is for, and no part of it early | a line buffer of ten characters, a side buffer of thirteen, length digits to the base of 4: each class of length (fits the line, fits only the side buffer, fits neither) has its frames, and so have payloads that look like another kind; any order of them, 2 disturbances before things are clean again |
| `link` | after every pass of the loop a dryer that is there has been introduced to in this session and in the variant in force; the owner's choice stands; a queue cleared at unmount carries nothing over | 3 senders, all the tasks that send; a queue of one frame, so that it refuses; 2 of the 5 frames of the introduction (`UNIQUE` and one of the others, which are alike); ages to one past the time-out; mounts, unmounts, requests and restarts without bound |
| `network` | a connected status has an address; the setup network closes; a station with a network is joined, joining or waiting, or its last call was refused; rejoins back off; an address comes back, but for that | delays of 2 and 4 polls, so that the back-off doubles once and reaches its cap; window of 3; 2 failed joins before the slow retry; 2 faults, of the network or refusals of the driver, so that one comes while another is being recovered from; one request of the owner |
| `control` | counters are never sent twice; presses are timely; with the switch off no handler is on its way to change the machine, and of the broker's commands the one past its check only; guesses are throttled | the Ready screen and two whose "End Batch" buttons differ; 3 tries, a lock of 2 ticks, a counter of 8 values, so that the signed difference wraps; 2 counters; a handler held up for one tick |
| `report` | a run shown is one whose counter moves; no destroyed client is used; a change of broker ends; the status settles | 2 handles, so that one is made while the other has just been destroyed; queue of one, so that samples are dropped; ages to one past the last comparison |
| `store` | the logbook is the end of what was written, in order and without a hole, now and after a restart; the newest half stays; a download is in order | files of 2 records and 7 appends, so that the files change roles three times; 3 power cuts; downloads, clears and formats at any time |
| `update` | something whole always runs; a trial has a way back, ends, and what was given up stays away | 4 uploads, so that each slot is written twice; 3 pieces, 2 time-outs in a row; a time limit of 3 passes; resets without bound |

Sizes are scaled: the real values (16 KB ring, 4 segments, 3600 points, 30 s
buckets, 600 s resume gap, 45 s link, 60 s lock) enter only through comparisons,
and the small ones keep the order of the thresholds and reach both sides of each.

Some properties need a word.  `StatusSound` and `AddressComesBack` except a station that
a refused call has left idle: nothing in the code calls again (`KeepsTrying`).  `SetupIsTimed` excepts a window that ended between a
handler's look at `s_ap_window_expired` and its switching the setup network on
(`raced`): `configure_ap` and the timer callback run on two tasks, and the later
one wins, so the setup network may then stay on until the next restart; the property is
silent about that order and says of all others that they do not leave it on.
`ShownRunIsReal` excepts a first frame from a screen without a counter
(`guessed`): the tracker then has `have` set and `last_elapsed` at -1, and the first
value it sees, which may be the last run's, is above it (`FirstValueIsNoRun`).

### Where code and documentation part

The modules state claims that the code does not keep; they stand at the
end of each module, with the comment, header or test they come from.  TLC refutes
each one, with the `.cfg` named here, or, where it is marked *, when the claim takes
the place of the properties of that `.cfg`.

| claim | `.cfg` | what happens |
|---|---|---|
| `ExtraIsOfThisRun` (`hr_batchlog.h:48`, `extra_dry_s`: "drying added during the run") | `MCLogbookExtra` | `hr_dry_reset` has no caller: a record carries the extensions of every run since the adapter started |
| `NeverUnderAUser` (`hr_quiesce.h`: "torn down only once nobody is inside it") | `MCCaptureFs` * | a format during the boot mount: the mount's own `stat`, `rename` and `remove` are outside gate and lock, and the partition goes under them |
| `ReadyIsAlwaysMounted` (`hr_capture.c`, the use of `s_ready`) | `MCCaptureFs` * | the same: the mount ends by setting `s_ready` over a partition the format has just unregistered |
| `MissingOnlyIfMissing` (`hr_files.h`: "Ignores everything that is not an answer we are waiting for.") | `MCDryerFiles` * | a late "no such file" fails the next read, of a file that exists (`hr_files.c:461`) |
| `ListIsAsAsked` (the same) | `MCDryerFiles` * | a late entry of the listing of another pattern is taken into the next one: an entry has a place, not a pattern (`hr_files.c:433`) |
| `DoneIsTheFile` (`hr_files.c`: "A short block is the end of the file; so is reaching the size.") | `MCDryerFiles` * | a read that reaches the size of an earlier listing is done without the rows added since |
| `QuietDuringBatch` (`hr_dryerfiles.h`: no requests during a batch unless forced) | `MCDryerFiles` * | a transfer begun before the batch goes on asking |
| `NothingTooBig` (`hr_files.h`: "Biggest file we will fetch") | `MCDryerFiles` * | a file that was not listed is fetched whatever its size |
| `OneRecordPerRun` (`test_hr_batchlog.c:466`: "One physical run interrupted by power loss is ONE record.") | `MCLogbookEnds` | if the run ends between the boot and the decision about the checkpoint, there are two; with `MaxLog = 2` also when the power goes between the keys of a checkpoint, or between a record and the erasure of its checkpoint |
| `EveryRunHasItsRecord` (`hr_batchlog.h:2`: "one record per freeze-drying run") | `MCLogbook` * | without any cut: the store is not ready when the record is written, or a second run ends while the record of the first is parked |
| `DownloadWithoutHole` (`hr_http.c:2530`: `batches.csv` is "both segments, streamed, oldest first") with `Wiping` and `FilesFail` `FALSE`, `MaxCuts = 0` | `MCBatchStore` * | a rotation during the download: its second half is looked for in the new, empty file |
| `TornCostsOne` (`hr_batchstore.c:31`: appending loses one record to a power cut, not everything) | `MCBatchStore` * | a torn line has no end; the next record is written onto it, and neither can be read |
| `ResumesTheSameRun` (`main.c`: a new run is not mistaken for the old) | `MCLogbook` * | it is, when the power went early in the old run |
| `WholeRunsRecordedOnce` with `Glitches = TRUE` (`main.c`: one frame was seen to read too high) | `MCLogbook` * | such a frame splits the record of the run |
| `DownloadContinuous` (`hr_capture.c:919`: a download "reads as one continuous log") | `MCCaptureLogGap` | a rotation during it shifts the ages, and one segment is left out |
| `MountDropsOldest` (`hr_capture.c`: data goes oldest first) with `MaxFrames = 7`, `Legacy = {0}`, `Browsing` and `Wiping` `FALSE` | `MCCaptureLog` * | the mount drops the largest segment, which may be a younger one |
| `StoredRunIsThere` (`main.c:59`: a power cut "no longer loses the run") | `MCTrendGraphLost` | a first report that comes after the mount looks like the beginning of a run and has the stored graph removed (`main.c:291`) |
| `TrueGrid` (`main.c`, `test_hr_trend.c`: a gap shows as a gap) | `MCTrendGraph` * | a silence the main loop ticks through leaves none |
| `OutageCountedOnce` (`main.c:532`: the difference against the stored counter "IS the outage") | `MCTrendGraph` * | a silence before the save is in the file as gaps, and the counter stored with them is of before it: the restore adds it again |
| `RestoredIsThisRun` (`hr_trend.h`: no curve is fitted across another's) | `MCTrendGraph` * | a graph is restored into the next run when the counters allow it |
| `StoredIsWhole` (`hr_capture.c`: a rewrite is self-consistent) | `MCTrendGraph` * | a cut in the middle of it leaves a part, with the new counter |
| `FullGraphSaved` (`main.c`: new points are persisted) | `MCTrendGraph` * | not once the window is full, since the length no longer grows |
| `NewGraphSaved` (the same) | `MCTrendGraph` * | a run that begins in the last moment of a save is not stored until it is longer than the former |
| `BlockArrives` (`hr_session.c:275`, `hr_protocol.h`: a block goes to the one who asked and "cannot inject anything") | `MCStreamBlock` | an encoded file block that fits the line buffer goes through `on_enc`, which hands it on as a line, and never reaches the file client |
| `OffIsNotUndone` (`main.c:240`: a deliberate "off" is not undone) | `MCLink` * | an "off" stored between the sighting of the build on the USB task and the main loop's next pass is overwritten |
| `DownOnlyWhenSilent` (`hr_session.h`: the link goes down after 45 s of silence) | `MCLink` * | the main loop's time is older than the last frame, the unsigned difference is huge, and the link is dropped at once |
| `KeepsTrying` (`hr_wifi.c`, `on_event`: "Keep trying, slowly") | `MCWifi` * | a connect that is refused at once, at boot or in `sta_retry_cb`, is logged, arms nothing, and no event follows; likewise new credentials the driver refuses after the disconnect |
| `SwitchStopsTheBroker` (`hr_mqtt.c:312`: the verbs that change something "follow the same 'control enabled' switch as the web UI") | `MCControl` * | the switch goes off between `handle_cmd`'s look at it and its frame |
| `NothingReconnects` (`hr_wifi.c`, forget: "so nothing reconnects to it") | `MCWifi` * | an event or a rejoin already under way connects once more |
| `LockEnds` (`hr_http.c`: "wait a minute") | `MCControl` * | without a request for some 25 days the signed difference is negative again: locked |
| `NothingFromBeforeTheReboot` (`hr_http.c`, `live_screen`: what it says it prevents) | `MCControl` * | a dryer that restarts and is silent for less than the time-out is pressed by its old screen |
| `FirstValueIsNoRun` (`hr_telemetry.c`: "adopt the value but do NOT claim a run") | `MCReport` * | the first frame of all comes from the preparation screen, and the next one is taken to have advanced |

Two `.cfg` check more than the runs do.  `MCLogbookLive` passes: a parked record is
taken (`ParkedIsTaken`) and a run left open is decided about (`OpenIsDecided`).
`HelloHappens` in `Link` states that the introduction comes; the instance of the run
is too large for its liveness graph, and no smaller one is interesting.

## 4. Fairness

Liveness is checked under fairness only where the scheduling justifies it.

- `CaptureFs`: a started shutdown or format goes on by itself (weak fairness of
  `Shutdown`, `FmtStep`), and a drain loop that looks at the clock again and again
  takes its deadline in the end (strong fairness of `SdDeadline`, `FmtDeadline`);
  a remount sizes its segments a bounded number of times.  Nothing is assumed of
  those who hold the lock or are inside.
- `DryerFiles`: the main loop ticks and time passes.  Nothing of dryer and browser.
- `Logbook` (`MCLogbookLive`): the main loop and the USB task run and the dryer reports.
  `MainLoop` includes the mounting of the store: a partition that cannot be
  mounted keeps no logbook, and the code then waits for ever, as it means to.
- `CaptureLog`: the writer runs (only for `MountDropsOldest`).
- `Wifi`: the timers fire, the event task and the handlers go on, the restart comes.
  Of the network: a join under way succeeds or fails, the router comes back, and a
  lease that can be had again and again is had (strong fairness of `LeaseComes`).
  Faults are bounded, which is what "once the network has stopped failing" means.
- `Update`: the main loop passes and the restart task runs.  Nothing is assumed of
  uploads, network or power.
- `Mqtt`: the publisher, the worker that changes the broker and the handlers go on;
  a lock that is free again and again is taken (FreeRTOS hands a mutex to its
  waiters), hence the strong fairness of `LockClient` and `Publish`; a client without
  a session says so some day, as the library's reconnects do.  Nothing makes the
  broker answer.

FreeRTOS schedules by priority; none of these tasks spins without blocking, so
each gets to run.

## 5. What is proved

Each module of proofs belongs to a component, EXTENDS its module, and proves for all
values of the constants what the run checks on one instance.  What an `ASSUME` of a
component asks of its constants is meant to be what makes them sizes, times or sets at
all; where a theorem needs more, it says so itself, and so does the table.

| theorem | of | says |
|---|---|---|
| `TypeCorrect`, `CountIsExact`, `LockIsExclusive`, `ReadyIsMounted`, `GuardsAgree` | `CaptureFs` | the parts of `Guarded`, and all of it: the gate counts who is inside, `s_lock` has one holder, `s_ready` implies mounted until a format crosses the boot mount |
| `ClosedGateHasACloser` | `CaptureFs` | the gate is closed only while somebody is to reopen it or a restart is coming |
| `FormatIsAlone` | `CaptureFs` | `FormatFindsNobody`: a format unregisters the partition with nobody between enter and leave or at the lock, whatever the boot mount is doing |
| `ImplementsTeardown` | `CaptureFs` | it implements `Teardown`: the partition goes down with nobody in it, until a format crosses the boot mount |
| `DownloadsInOrder` | `CaptureLog` | a download has no line twice and none out of order, though segments go away under it |
| `LogIsSound` | `CaptureLog` | `LogSound`: every queued frame in one place, lost frames for a named reason, order of time, summaries that count right, room on the partition |
| `LogbookAlwaysSound` | `BatchStore` | `LogbookSound`: the logbook is the end of what was written, now and after a restart; the newest half stays; no file outgrows its room |
| `DownloadsAreInOrder` | `BatchStore` | a download is in order and has nothing twice |
| `RingAlwaysSound` | `DryerFiles` | `RingSound`: the ring, the transfer and what was taken account for every byte |
| `ListingsAreTheDryers` | `DryerFiles` | a listing reported whole is the dryer's |
| `AsksOnlyWhenItMay` | `DryerFiles` | nothing is asked with the feature off or the link down |
| `BrowserGetsTheFile` | `DryerFiles` | it implements `FileFetch`, while the files grow: what is taken is the beginning of the file, done means all that was promised of it |
| `EverySessionIsIntroduced` | `Link` | `IntroductionSound`: after a pass the dryer of this session knows the variant in force |
| `ChoiceAlwaysStands` | `Link` | the owner's choice wins over the automatic rule |
| `LateSendersOnly` | `Link` | a frame of an old session gets in only from a sender past its check |
| `BuffersNeverOverrun` | `Stream` | `InsideBuffers`: whatever bytes come, the framer writes past neither buffer |
| `CounterNeverRepeats` | `Control` | `CounterSound`: no counter is sent twice, across any restarts |
| `CommandsAreTimely`, `SwitchAlwaysHolds` | `Control` | a press is for a screen that is recent; with the switch off no handler is about to change the machine, and the broker's side sends at most the one command past its check |
| `GuessesAreThrottled` | `Control` | no more wrong PINs within a lock's time than it has tries |
| `BegunIsKept` | `Logbook` | `RecordsAreKept`, for any dryer: a record that was begun is somewhere at every moment, in flash from its first write on, or given up in a named way |
| `CutsAreAccountedFor` | `Logbook` | `RunsAreAccountedFor`: that, and a run the cuts spare is recorded at most once, truly; a checkpoint has its owner |
| `PhasesTakeRealTime` | `Logbook` | the phases of such a record are no longer than the run was |
| `ClientsStayUsable`, `PublisherAlone` | `Report`, `Mqtt` | no destroyed client is called, with or without the tracker beside it |
| `RunsShownAreReal` | `Report` | a run shown is one whose counter moves |
| `SeriesStaysSound` | `TrendGraph` | `SeriesSound`: the points are in order and stretched by no more than the silences a restore counts twice |
| `GraphsAreOfOneRun` | `TrendGraph` | a graph begun after the resume has points of its run only |
| `FileAlwaysFollows` | `TrendGraph` | between passes the file is the beginning of the series |
| `SlotsStaySound` | `Update` | `SlotsSound`: something whole runs, a trial has a way back, what was given up stays away |
| `StatusIsSound` | `Wifi` | `StatusSound`: whatever the driver refuses, the status shown agrees with it, and a station with a network to join is left idle only by a refused call |
| `ConnectedIsConnected` | `Wifi` | a part of this: "connected" means associated, with an address or within the grace |
| `SetupStaysTimed` | `Wifi` | an open setup network has a timer that ends it |
| `RejoinsDoBackOff` | `Wifi` | each rejoin in a row waits twice as long as the one before, up to the cap |

Some need an assumption beyond those of the component: the theorems about `BatchStore`
have `Overlap = 1` (no more than one append meets a clear or a reopening), `LogIsSound` has
`OldLogFits`, and of those about `Logbook` `CutsAreAccountedFor` and `PhasesTakeRealTime` have
`Orderly(Programs)` and `~Glitches` (the dryer is as section 2 says, and no frame of it reads
too high).  Without them TLC finds counterexamples: section 3 has that of `Glitches`,
section 2 that of `OldLogFits`; with `Overlap = 2`, `OldestFirst` fails after a restart.
Nothing is assumed of the boot mount, of the driver, or of the dryer in `BegunIsKept`.

### The inductive invariants

None of these properties is inductive alone.  Each component has its `IInv` (`OrderIInv`
and `RoomIInv`, `StreamIInv`, `LogbookIInv`, `GraphIInv` where two share a module), which TLC
checked on small instances before it was proved; the lemmas show, an action at a time,
that it is kept.

- `CaptureFsProofs`.  Three layers.  `ControlOK` types the program counters and says
  which task may be at which place.  `GateCount` ties the counter to the places; its
  step is a lemma on cardinalities (`CountStep`), apart from the rest, since only four
  actions change the count.  `Phases` says what each phase of a teardown may rely on.
  What of it speaks of `s_ready` or of a shutdown's hold on the partition is about the
  time before a format crosses the boot mount; the count, the lock, the closer of the gate
  and a format's own drain are about all of it.
  Before the boot mount is over nothing that needs `s_ready` has begun (`BootWindow`);
  the lock belongs to one who is between take and give (`LockOwner`); from a format's
  unregister to its remount nobody sets `s_ready` (`FormatDown`, `FormatWindow`); and
  after a drain that read zero nobody is inside while the gate stays closed
  (`FormatSealed`, `ShutdownSealed`).  The last is where the order of the two atomics
  matters: a task counts itself first and looks second, so one who is inside was
  counted (`ZeroMeansNobody`).  A refused format that reopens the gate under a
  shutdown holds the lock itself, so that the shutdown does not unmount: that is why
  `ShutdownSealed` speaks only of a shutdown that has the lock.
- `CaptureFsProofs`, of `CaptureLog`.  `OrderIInv`: `PastOnly` puts everything on flash, and
  everything sent to a reader, before the stamps that are still to come (`ToCome`: the
  pending run, the frame in hand, the queue); `InOrder` orders the files by `Rank`, the
  rotations a file has left, and by the index in NVS, not the one in RAM, since that is
  what a restart goes by.  That a cut between the removal of a segment and the saving of
  the index does no harm is the part of `Mounted` that says the segment is empty then.
  `ReadInOrder` relates a download's place to the ranks: a rotation lowers them all by
  one, so what it has sent stays before what it can still open.  `NoneForgotten` and
  `AllExact` account for every frame.  `RoomIInv`: a write is allowed below the ceiling and
  may pass it by less than a summary, so `HasRoom` counts each segment as at least the
  ceiling and a summary; `Leaves` says that even a segment over its share leaves room for
  the others at the floor, which is what a mount has when nothing but the active one is
  left.  The lemmas on `Sum` (`SumMonotone`, `SumLifted`, `SumOneBig`) are about
  cardinalities, since a sum by recursion is out of the provers' reach.
- `BatchStoreProofs`.  The records are numbered without a hole, and the two files, in
  the order the key in flash gives them, are their end (`Fits`).  `Settled` is why a
  reader that goes by `s_active` finds the same: it and its key agree, or the file the
  key names is empty, or they are about to agree.  `SoundAppend` and `SoundCall` say
  what each step of an append and of a clear relies on; in particular, once a clear
  has removed both files, the append it met has not written, or is over.
  `SoundReader` orders what was sent before what is still to be read, the rotation of
  the file under the reader included.
- `DryerFilesProofs`.  `Holds` and `Beginning` say what the bytes in the ring and those
  taken are, byte by byte and through the wrap of the ring; `SoundRead` that what was
  received is whole blocks; `SoundListing` what the first entries of a listing are.
  They are stated of a transfer, a ring and a sequence, for a handler changes them one
  after another.  The proof for each action gives its part of `AsksOnlyWhenAllowed` and of
  the refinement as well.  The arithmetic of the ring (`Behind`, `Onward`) is apart.  `SizeIInv` is of the files that grow: `Kept` ties the
  size a read goes by, and what has come, to `promised`; `Dated` says that no request on its
  way is of a longer file than the dryer's.
- `LinkProofs`.  `ToldOrToCome` says of the whole pass what `Introduced` says of its
  end: the dryer has been told, or the `UNIQUE` is still in the list of what is to
  be sent.  `InHandIsFresh` and `ChoiceIsFirst` say which frames and which requests of
  the automatic rule can still be on their way.
- `LinkProofs`, of `Stream`.  `Sound` is of the framer's state alone: one thing is collected
  at a time, less of it than was declared, no more than its buffer holds.  There is a
  lemma for each branch of `hr_stream_feed`.
- `ControlProofs`.  `JobSound` carries what a handler found in its checks to the frame
  it sends; `PinSound` relates the count of failures, the lock and the ages of
  the guesses, through the wrap of the clock.  `MqSound` is of the MQTT task alone.
- `ControlProofs`, of `Logbook`.  A run the power was not on through is dark; of those the
  invariant says only that what is resumed or closed after a cut is one of them
  (`LeftOpen`, `Places`).  `InStep` relates the tracker's record to the dryer: it has seen
  all but the pending frame, or that frame is the first of the next run and closes the
  one that strayed.  `AllRight` and `Apart` follow a record from the tracker through
  `parked` and the main loop's hands into the log.  `BegunIsKept` has an invariant of its own,
  `KeptIInv`, which asks nothing of the dryer: `Account` says that the checkpoint in NVS is
  always that of the run whose record comes next, the one left open, in the main loop's
  hand, parked or the tracker's, in this order (`InLine`), so that nothing saved is erased for
  another, and that it is gone only once the log has the record.
- `ReportProofs`.  `MqttIInv` says which of the three tasks may hold which handle, and
  in which state of its life; `TeleIInv` relates the age of the tracker's last change
  to the last report that moved, wherever the main loop is between its two accesses.
- `ReportProofs`, of `TrendGraph`.  `Plot` says of a series that each point lies as many
  buckets back as it is old, or further by what was counted twice at most, measured from
  where the next point goes; `FilePlot` says it of the file, and what the counter stored
  with it makes of that after an outage (`Dated`).  `Writing` and `Follows` say what the
  file has of the series while the USB task may empty the latter under the save.
- `UpdateProofs`.  `OneKept` says that of the two slots one was kept, `NewIsFresh` that
  what is yet to be tried was not given up, `Numbered` that two slots hold two uploads.
- `WifiProofs`.  `Told` says that the driver's queue of events is a true account of it,
  from what the event task has heard so far to where the driver is; so a task that
  has heard everything knows where the driver is.  `Leased` does the same for the
  address.  `Moving` says who goes on with a station that is idle: an event, a handler
  or the slow retry, unless a call was refused.  `WindowRuns` says who is about to shut an open setup network, or to
  start its timer.  `Counted` ties the watchdog's count and clock to the rejoins that
  brought no address.

Each run evaluates the assumptions on the constants that the proofs use.

### Only model-checked

Liveness under fairness (`RestartHappens`, `FormatEnds`, `TransferEnds`,
`AddressComesBack`, `BrokerChangeEnds`, `StatusSettles`, `TrialIsDecided`): the
installed provers have no rule for fairness or ENABLED.  `FramesArrive`: which frames
arrive is of the bytes of the frames as a whole, what the framer has after each
beginning of them, which needs induction over data, and the provers cannot instantiate
its theorems.  `GrowsAtTheEnd`: the log as a reader sees it joins the segments by a fold,
for which the same is true; that each segment and the ranks are in order is proved.

## 6. What is not modelled

- Formatting, parsing and the web page: HTTP handlers appear as the action they
  perform on a modelled part.
- The encoded transport's cipher and checksums: a block is right or corrupt.
- Flash that fails, but for the settings of `Control` and the logbook's append:
  elsewhere writes succeed or the power goes.
- The network scan and the DNS answers of the setup network, MQTT discovery
  messages, the estimate of the end of freezing, the checks of a recipe's fields:
  text and arithmetic that no other decision depends on.
- The rings of recent frames and log lines: each has one lock and only readers that
  show it.
- `www/`, `tools/`, `dist/`, `decoded/`: page, bench tools, binaries, notes.

## 7. Plan

The order is that of what a fault would cost: the filesystem that must not be
freed under its users, then data (files, logbook, log, graph), then the link,
then control and the network, then updates.  All of these are modelled.  What is
left:

1. `Logbook` and `BatchStore` are checked apart; the first's sequence of records is
   meant to be the abstract specification of the second.
2. The trial of `Update` over the network code of `Wifi`, in place of `Reach`.

A claim the code does not keep has its `.cfg`, or a line in section 3, and no run: the
runs are for what must stay true.

## 8. Running

```
tlc -workers 2 -config MCLogbook.cfg MCLogbook      # one run
tlapm CaptureFsProofs.tla                           # the proofs of one component
```

Most modules of proofs take a minute or two, those of `BatchStore` and `DryerFiles` three,
`ControlProofs` and `ReportProofs` some more, and `CaptureFsProofs` seven.

The largest runs (`logbook`, `graph`, `link` and `stream`, two and a half to six million
states) take one to three minutes, `files` and `network`, whose liveness is checked, about
three, `report` about two; the others seconds to a minute.
