# CANShift firmware: specifications and proofs

TLA+ models of the parts of the dash firmware whose correctness depends on order: what is on
flash after a power cut, what an upload leaves behind when it is given up, whether an alert the
driver has not heard can leave the screen, whether a bus scan gives the bus back. TLC checks them on
small instances (`MC*.cfg`); TLAPS proves the most important results for every instance
(`*Proofs.tla`). `PROJECT.json` maps every definition to the lines it stands for, lists the runs, a
mutation of the code that each property catches, the hazards and the disagreements found.

    tlc -workers 2 -config MCConfigStore.cfg MCConfigStore
    tlapm ConfigStoreProofs.tla
    tlapm UploadsProofs.tla
    tlapm OtaProofs.tla
    tlapm AlertsProofs.tla
    tlapm CanBusProofs.tla
    tlapm RadioProofs.tla
    tlapm DatalogProofs.tla

## The system

An ESP32 dash: FreeRTOS tasks over shared flash (SPIFFS), one display (LVGL behind one mutex), a
CAN bus, and three ways in: USB serial, BLE and, in workshop mode, a WebSocket. Tasks, by
priority: CAN (15, core 0), UI (10, core 1), USB (8), BLE (6), input, httpd, the data logger's
sampler and writer. They talk through mailboxes of atomics (`runtime/pending_actions.h`), short
critical sections (`SignalStore`, `ErrorStore`), queues (CAN to USB, socket to USB) and the LVGL
mutex.

| Component | State | Operations | Interacts with | What is hard | What makes it correct |
|---|---|---|---|---|---|
| Dashboard storage (`hal/storage`, `config/`, `boot/`) | `dashboard.json`, `.tmp`, `.bak`; reload flag and verdict | swap, sweep, provision, load with two fallbacks, reload, vet | USB task writes, UI task loads; `requestConfigReload` between them; LVGL mutex for some of it | power cuts between renames, failing renames, a commit in the middle of a load | always a dashboard that loads; ok means stored; the verdict is about the upload |
| Upload transfers (`hal/usb`) | two transfers, one staging slot, socket-closed flag | PUT_FILE, PUT_CONFIG_CHUNK, PUT_CONFIG, typed PUTs, idle and close ticks | StorageDriver; serial and socket route | two hosts, resent chunks, abandoned transfers, a close seen late | what is committed is whole; the slot is not leaked |
| Firmware update (`runtime/ota_*`, `hal/usb/usb_dispatch_ota`, `boot`) | receiver, session clock, two slots and their image states | begin, write, end, watch, mark valid, rollback | restarts of every other component; workshop resume | idle timeout against late chunk, restart before the soak, failed activation | never boot an unverified image; a trial either is marked or rolled back |
| Workshop mode and socket (`runtime/workshop_mode`, `hal/wifi`, `rust/workshop-mode`) | mode, resume request in NVS, socket fd, line queue | enter, settle, leave, admit, replace, drain | BLE (shares the radio), UI, USB dispatch, httpd | replacement against close, motion during a transfer | one client; no transfer of a dead client goes on |
| BLE link (`hal/ble`, `rust/ble-link`) | advertising, connection, pairing | release, start, passkey show/hide, guard | stack callbacks, UI mailbox, workshop hand-over | callback against request | radio is handed over once; a passkey shown is hidden |
| Alerts (`runtime/alert_engine`, `rust/alert-engine`, `ui/alert_takeover`) | per rule: active, since, acknowledged | tick, acknowledge, reset | signal store, UI, BLE broadcast | acknowledge against re-raise, reset on reload | a critical alert is never lost |
| CAN bus (`can/`, `rust/bus-scan`) | driver, recovery, scan | receive, recover, scan steps | USB (scan results), signal store | scan stops reception; bus-off recovery | normal reception comes back |
| OBD-II (`can/obd2_*`) | pending request, clock | poll, reply, give up | CAN, USB | late replies | one answer per request |
| Signals file (`config/config_signals_*`) | `signals.json`, `.bak`, staged | gate, merge of `out`, choice of source | USB, boot | the gate swaps the staged file itself | a clean table survives |
| Data logger (`runtime/datalog*`, `rust/datalog`) | ring, recording flag, session and its file | sample, push, drain, open, close, halt | signal store, card, workshop mode | a pass that outlives its session, counters that wrap, failing writes | whole records in order, losses counted, file closed for the tuner |
| Error store, control state, timers, sound | bounded lists | push, dismiss; press, tick | UI, USB, BLE | full buffers | bounds, order |
| Page manager, overlays, drawing | LVGL objects | build, navigate, draw | UI task only | memory | not a protocol |
| Decoding, units, layout, formatting, IMU | none to speak of | pure arithmetic | | floats | unit tests in `rust/` |

## Modules

**`ConfigRegister`** is the promise of the storage: one register, the dashboard the next boot
brings up; an offered document takes effect whole and at one instant, or not at all.

**`ConfigStore`** is the code behind it. `primary`, `staged`, `backup` are the three files; a
document is only what the loader makes of it (`Good` loads, `Refused` parses and is turned down,
`Unreadable` does not parse). Two processes with program counters:

* the writer (`wpc`): `Begin`, `StageComplete`/`StageFail` are `writeFileAtomic` or the chunked
  write up to the closed `.tmp`; `DropStaleBackup`, `CheckOriginal`, `Rotate`, `Promote`,
  `PromoteFails`, `RestoreOriginal`, `DropTmp` are `StorageAtomicSwap::finalize`, one SPIFFS call
  each; `MarkPending` and `RaiseAndAck` are `requestConfigReload` and the reply;
* the loader (`upc`): `Sweep` and `Provision` at boot; `ReadPrimary`, `ReadBackup`,
  `RecoverFromBak` are `readAndParseWithBak`; `Build`, `FindPrevious`, `RemoveRefused`,
  `RestorePrevious` are `stageWithFallback` and `promoteBackup`; `Settle` publishes the verdict.

`lvgl` is the LVGL mutex: PUT_CONFIG and the loader hold it, PUT_CONFIG_CHUNK does not, so its
swap interleaves with a load. `PowerCut` can happen between any two steps. Four history variables
say what a property may assume: `risked` (a swap started over a primary that does not load),
`faulted` (a SPIFFS call that should have worked failed), `crossed` (the last commit landed while
a load was due or running) and `acked` (what the host was told ok for).

SPIFFS is external: a call is atomic, `rename` fails onto an existing name or from a missing one
(`CanRename`), and any call may fail.

**`Uploads`** is one level up: the USB task's handlers, each one action, over `ram` (the staged
file `slot`/`stage`, the PUT_FILE transfer `file`, the config transfer `conf`) and `disk`. The swap
is atomic here, since `ConfigStore` takes it apart. Two hosts start uploads, resend any chunk they
sent before, give up or start over; the socket closes and the USB task hears of it later; clocks
run out; the dash restarts. A chunk is known by its upload and its index, so a mixed, repeated or
missing chunk shows in what is committed. `gone` is a staged file that PUT_CONFIG removed while a
config transfer had it open.

**`TrialBoot`** is the promise of a firmware update: one confirmed image, at most one signed image on
trial, and a trial that ends with the image confirmed or with the confirmed one back.

**`OtaUpdate`** is the code behind it. `slots`, `img` and `boot` are the two app partitions, their
`esp_ota_img_states_t` and the active otadata entry; `rx` is `OtaReceiver` with the session clock; an
image is `Size` parts, and a slot remembers for each part which image it was written from, so a mixed
slot shows. Two tasks interleave:

* the USB task (`usb`): `Begin`, `WriteChunk`, `RefuseChunk`, `AbortSession`, `Commit` are one command
  each, from the serial or the socket host, of any image in any order; `Commit` and `SaveConfig` go on to
  `Arm` (the resume request in NVS) and `UsbRestart`, with anything the UI task does in between;
  `Age`, `IdleTimeout`, `SocketClose`, `TakeSocketClose` are the session watch;
* the UI task (`ui`): `Soak` and `DashFrame` are `uiHandleOtaMark`; `RequestWorkshop`, `SettleEntry`,
  `Leave`, `MarkLeaving`, `UiRestart` are the workshop mode machine and its two ways out.

`Reset` is every restart: the bootloader starts a new image on trial, undoes a trial that was not
confirmed, or starts the same image again; then `TakeResume` and `ResumeAfterReboot` run before the tasks
do. `Crash` may strike anywhere, also in the middle of these. External, from their use and the library's
documentation: the bootloader; `esp_ota_begin` refusing while the running image is on trial;
`esp_ota_mark_app_valid_cancel_rollback` marking the active otadata entry, which need not be the running
slot's, or failing. Idle, Committed and Failed receivers are one state: the code tells them apart only in
what it logs. A BEGIN with bad arguments, and a chunk whose fields do not parse, change nothing and are
left out. The model is of a release build, which refuses unsigned images.

`proven` (images that have been up for the soak) and `asked` (what a socket command last asked to restart
for) are history variables.

**`Alerts`** is the alert engine and the take-over. A reading is `hot`, `near` (inside the hysteresis band)
or `ok`; `store` has the valid one of each source, `health` and `hold` are the engine's `SensorHealth` and
`LevelHold`, with time counted in ticks. `tickAlerts` looks at the signal store twice, once through a snapshot
and once directly, while the CAN task writes to it, so a pass of the UI task is three steps:

* `Evaluate` is timeouts, snapshot and `AlertEngine::tick`; `Evaluate(FALSE)` is a frame in which the take-over is
  not due;
* `Consume` takes the acknowledgements asked for and collects the critical sources;
* `Settle` collects the sources without data, and decides what is shown, acknowledged and on screen.

`Tap`, `RequestAcknowledge`, `RequestAcknowledgeSource` and `Update` are what the touch screen, buttons, phone and
CAN task do in between; `Reload` starts engine and take-over over. Built-in sources have a warning level and a
sensor-lost state of their own, configured ones do not. `tapped` is a history variable: the alert a touch was meant
for.

**`CanBus`** is the CAN task, the TWAI driver and the USB task's commands about them. `drv` and `mode` are the
driver as it is; `installed`, `running`, `requested` and `driverUp` are the flags that say what it should be. A driver
call is a set of outcomes (`Stopped`, `Started`, `Released`, `Switched`): the driver it leaves, whether it reported
success, and the faults it spent, so each action of the scan takes any failure at each call it makes.

* Installation: `BootInit`, `TickInitRetry`, `WarnPermanentlyDown`; `LateInit` is an init task that nobody waited for
  any longer, `PanicOnSpawn` a retry that starts a second one on the same stack;
* recovery: `RecoverFromBusOff`, `GiveUpOnBus`, `RestartAfterRecovery` are `superviseBus`;
* scan: `BeginScan` to `Finish`, through `InstallOrFail`; `GiveBack` and `Restore`, the two halves of `restoreDriver`, are the only way out; the USB task looks at
  the flags (`CheckScanStart`) before it queues a scan (`QueueScan`);
* trouble codes: `BeginExchange`, `SendRequest`, `ReceiveReply`, `MarkResponded`, `TakeOutcome`, with requests and replies on the
  wire that are lost or late. `owed` is a history variable: the host waits for a reply.

Time is abstract: a window or a deadline may end at any moment.

**`RecordQueue`** is the promise of the data logger's ring: a queue of bytes that takes a record whole or not at all.

**`Datalog`** is the code behind it: sampler (`spc`) and writer (`wpc`) over a ring whose counters wrap at `Wrap`. Push
and take copy first and publish the counter after, two steps each. `OpenSession`, `CreateFile`, `BeginRecording`,
`Flush`, `CloseSession`, `Finish`, `Halt`, `EndHalt` are the turns of the writer task; the sampler reads the
recording flag once for a pass, so a pass can end in another session than it began in. `sampled` and `late` are
history variables: the records of the session, and that a pass outlived one. A workshop entry that fails, so that
logging starts again, is not modelled.

**`BleLink`** is the Bluetooth of a driving dash: the callbacks of the host stack (`OnConnect`, `NoteConnected`,
`OnPassKeyRequest`, `PairingSucceeds`, `PairingFails`, `OnSubscribe`, `OnDisconnect`), taskBLE (`Start`, `Stop`,
`PaceAdvertising`, `DropOverduePeer`) and the UI task, which takes the flag that hides the passkey card before the
one that shows it (`TakeHide`, `TakeShow`). `stale` is a history variable: the card on screen or held is of a request
whose hide was taken before it. A call into the stack may fail, `MaxFaults` times.

**`WorkshopSocket`** is the tuner's socket and the transfers that go over it. On the server's task, `Arrive` and `Adopt`
(or `RefuseBusy`) are the two halves of `adoptClient`, `Receive` is a frame of the tuner, `OnSessionClosed` the end
of its session. The close of a session that is refused, replaced or dropped is only asked for
(`httpd_sess_trigger_close`), and the call may fail; nothing reads whether such a session is still open, so the module
keeps nothing of it and makes no claim about it. On the USB task, `Tick` is `UsbComm::tick` up to the serial line: the
clocks (`TimedOut`), `takeSocketClosed` with `abortSocketTransfers`, and the flag the server admits by. `SerialLine` and
`Dispatch` run a command of either host, `EndDrain` ends the drain, `DropClient` is a send that fails. `upload` says which
phone, if one did, began the transfer of `s_chunk`, of `s_configChunk` and of the update session, and whether a staged
file is open; of the serial host's own transfers only what they do to those of a phone and to the staged file is kept. The
staged file is one for all: a config upload or a typed PUT takes it over and closes it and leaves `s_chunk` set, and the
clock of `s_chunk` looks at the open file while the flag does not (`Stranded`). What the chunks carry is in `Uploads` and
`OtaUpdate`; the chunks between the first and the last only put a clock back, and are left out.

**`Radio`** composes `BleLink` and `WorkshopSocket`: there is one radio, and entering workshop mode hands it over (`EnterWorkshop` on the UI
task, `ReleaseRadio` on taskBLE, `StartServer`). There is no way back but a restart, with which a behaviour begins,
in workshop mode or not.

**`ConfigStoreProofs`**, **`UploadsProofs`**, **`OtaProofs`**, **`AlertsProofs`**, **`CanBusProofs`**,
**`RadioProofs`** and **`DatalogProofs`** hold the theorems.

## Runs

| Run | Shows |
|---|---|
| `config_store` | `TypeOK`; `SafeFallback`: at every instant the next boot finds a dashboard that loads; `AckMeansCommitted`: an upload answered ok is the one it finds; `VerdictHonest`: applied, refused and unchecked mean what they say; `PendingSettles`: the tuner's polling ends; `ImplementsRegister`: refinement of `ConfigRegister` |
| `uploads` | `SlotIsOwned`, `SlotIsReleased`: the staging slot is never leaked; `DiskIsWhole`: a committed file is all of one upload, in order; `OkMeansCommitted` |
| `ota` | `AlwaysBootable`: the boot slot holds a whole signed image, with a valid one behind a trial, whatever hosts send and wherever a reset strikes; `TrialIsTried`: no image is marked valid by another; `ResumeIsOwed`: workshop mode comes back only when a socket command asked for it, once; `SessionEnds`: refused chunks do not keep a session open; `TrialSettles`: a trial ends unless the dash stays in workshop mode or the mark failed; `ImplementsTrialBoot`: refinement of `TrialBoot` |
| `alerts` | `AckEndsWithAlert`: an acknowledged source that trips again is shown again; `ScreenIsOwed`: between passes the screen shows an open alert exactly when there is one; `LostDataKeepsTakeover`: silence takes nothing off the screen; `NoDataRaisesNothing`: nor does it put anything on; `TapIsHeard`: a touch acknowledges what the driver saw; `AlertReachesDriver`: a reading that stays hot keeps coming back until it is acknowledged |
| `can_bus` | `DriverIsThere`, `ListenOnlyIsScan`: the flags say what the driver is, whichever call fails; `OneReply`: one reply to a command; `BusRestarts`, `ScanEnds`, `CommandIsAnswered`: a stopped driver is started again or known to be lost, a scan gives the bus back, the tuner is answered, scan or no scan |
| `datalog` | `FileIsWhole`: whole records in order; `LossIsCounted`: every record sampled in a closed session is in the file or in its drop count; `ImplementsQueue`: refinement of `RecordQueue`, counters wrapping; `WorkshopClosesLog`: no file stays open for the tuner to download |
| `radio` | `CardIsOwed`: no passkey card without its pairing; `CentralLeaves`: a central that does not pair loses the slot; `SilentTunerYields`: a tuner that fell silent gives way to the next one, whatever it left half done; `OrphanEnds`: the file, config or update transfer of a tuner that is no longer the client ends, whether the USB task was told or not; both unless the transfer is a file whose staging another write has closed |
| `config_verdict` | found violated: an upload that does not parse is reported `applied` |
| `config_race` | found violated: a chunked upload that lands in a load is refused and then reported `applied` |
| `config_burn` | found violated: after the first, the next burn drops the only copy that loads |
| `uploads_mixed` | found violated: a second host takes the slot over and a chunked config is answered ok without being stored |
| `ota_resume` | found violated: a config saved over the socket while the running image is on trial rolls the update back and resumes workshop mode on the old image |

Runs marked "found violated" check what a document says of the program; all others pass.

The provisos of `SafeFallback` and the others are exactly the events the config and upload violations are about:
`Safe` excludes a swap over a primary that does not load and a failing SPIFFS call; `~crossed`
excludes a commit during a load; `~mixed` excludes two hosts uploading at the same time. Likewise `Stranded` in
`SilentTunerYields` and `OrphanEnds`, `CameBack` in `LostDataKeepsTakeover` and `~enabled` in `CentralLeaves` name
disagreements below; `~enabled` also leaves out a central that comes after the stop,
when `onDisconnect` has advertised again and taskBLE drops nobody. `stale` in `CardIsOwed` is
a request and its hide stored within one frame, after which the card stays up; and `~late` in `LossIsCounted` is
a pass that pushes in a later session, or after recording was over. In `CanBus`, `DriverIsThere` and `ListenOnlyIsScan`
are said of the CAN task at work: between `s_running` and the switch of the driver (`pc = "restore"`) the bus is given
back already and the driver is not.

**Bounds.** `ConfigStore` has none but its documents: one of each class and the embedded default, four
in all. Two good documents are needed to tell old from new; the code looks at a document only through
its class. `Uploads` allows three uploads in a behaviour (`MaxUploads`: one given up half way, one that
meets what it left, one more), cut into one or three chunks (first, middle, last). `uploads_mixed`
needs only two. `OtaUpdate` has no counter: two parts to an image tell a whole image from a mixed one, and
hosts offer one signed and one unsigned image, next to the factory's.
`Alerts` has one source of each kind, which compete for the screen, and holds of two ticks and one, enough to be
cut short. `CanBus` has two rates (a first and a last), two retries, one recovery before the last warning, and two
failing calls, so that a call fails on the way out of a failure; the real four rates add repetitions of `NextRate`.
`Datalog` has a ring of two bytes with counters modulo four, so that both wrap in every behaviour of some length;
records of one or two bytes, of which the second fills the ring; three records and two sessions, one to leave a late pass
behind and one to find it. `Radio` has two passkey prompts in a window and one failing call into the stack; two phones, a
tuner and one that wants its place or has just lost it, next to the serial host; and a queue of one line, which is both
empty and full within a step, where a second line would only wait. Since one side gives up the radio before the other
takes it, their states add and do not multiply. Its deadlock is not checked, since a dash whose access point failed waits for a restart.

**Fairness.** `WF(WriterStep)` and `WF(LoaderStep)`: both tasks are loops that never end and are above
idle priority. `SF(TakeReload)`: the UI task tries the mutex every frame, has the higher priority and
is on its own core; a mutex that keeps becoming free is taken. The host is never assumed to do
anything. In `Uploads`, the timeout is fair only while nobody uploads, because a clock that chunks keep
resetting need not run out, and the tick that takes the socket close runs for ever. In
`OtaUpdate`: the clocks run (`Age`, `Soak`), the USB task's tick and its way to a restart go on, each UI
frame tries the mark, and a boot reaches its end. `SessionEnds` assumes that no new session begins; a chunk
that is accepted resets the clock, but a session has only `Size` of them.

In `Alerts`: the three steps of a pass. The UI task never stops, and the period of the take-over elapses again and
again. In `CanBus`: the steps of the CAN task, and `SF(TakeOutcome)`, because the USB task looks at the pending exchange
in every tick, and only its own scan command is ever in the way; bus and engine computer are assumed to do nothing.
In `Datalog`: the writer. That its drain ends is a premise of `WorkshopClosesLog`, since a card slower than the sampler
would keep it there. In `Radio`: the tasks and the deadlines, and the disconnect of a link that was terminated, which the host
stack reports (`BleFairness`). For the socket (`SocketFairness`): both tasks, the busy window, and a phone that knocks
again and again, without which nobody replaces a silent one. `SF(EndDrain)`: `drainSocket` loops
while there are lines, and no phone is faster than the USB task for ever. `SF(ClockRunsOut(t))`: the clock of a transfer
that nobody goes on with runs out, even if other writes keep the staged file closed in some ticks, since it is not put
back by them; it asks for nothing while the staged file stays closed, which is the case `Stranded` leaves out. No tuner is
assumed to answer, leave or send anything.

## Proofs

`ConfigStoreProofs` proves, for any sets `Good`, `Refused` and `Unreadable` that are disjoint, a
default in `Good` and the two markers outside them (the ASSUMEs of `ConfigStore`, evaluated by every
run):

* `TypeCorrect`: `Spec => []TypeOK`;
* `FallbackSafe`: `Spec => []SafeFallback`;
* `AckCommitted`: `Spec => []AckMeansCommitted`;
* `StoreIsRegister`: `Spec => ImplementsRegister`;
* `VerdictTold`: `Spec => []VerdictHonest`.

The argument rests on `IInv == TypeOK /\ Control /\ (Safe => Files)`. `SafeFallback` is not inductive:
whether the swap may drop the backup depends on what it will find at the primary, and whether the loader
may remove the primary depends on what it read earlier. `Control` says where the two program counters can
be together (provisioning excludes loading) and that what is about to be promoted is the offered document
whole. `Files` says what each side relies on the other not to have done: the backup is absent or loads; a
primary that does not load has a backup that does; the swap past its first step finds a good primary, or
none and a good backup; the loader about to remove a refused file is looking at that very file.
`TypeStep`, `ControlStep` and `FilesStep` show each part kept by each action, `Invariance` puts them
together, `FilesBoot` derives `SafeFallback`. For the refinement, `ValueStep` shows that the only step that
changes `BootDoc(primary, backup)` while `Safe` is `Promote`, which moves it to the offered document if
that loads; `RegisterStep` maps every other step to `Offer`, `Damage` or a stutter. `AckedStep` adds the
history variable. `VerdictHonest` speaks of quiet states only; `Judged` says what holds on the way there: where
the verdict of the last upload is (being asked for, asked for, under way, out), and in the middle of a load what each
class of upload has come to. A later swap may have moved a good file aside (`Moved`), but the loader then finds it as
the backup. `VerdictStep` shows that kept by each action. All of it is for `Spec` without fairness.

`UploadsProofs` proves, for any lengths (`Totals`) and any number of uploads, `TypeOK`, `SlotIsOwned`, `DiskIsWhole`
and `OkMeansCommitted`, from `IInv == Accounted(ram) /\ Typed /\ Aimed /\ Carried /\ Committed`. The handlers are
compositions of the same few operators on the task's memory, so each operator has a lemma of its own, and each
action cites those it is made of. `Accounted`: an open staged file has a transfer, and a config transfer has written no
more than it declared. `Aimed`: the upload of a host writes where its command may. `Carried`: while one host uploads at a time, an upload
past its first chunk finds in an open staged file exactly the chunks its transfer has counted, which is why a chunk at
the right offset is the next one and a resent one is refused. `Committed`: files are whole and the last ok is on flash.

`OtaProofs` proves, for any images, any signed and offered ones among them, a signed factory image and any
image size:

* `Typed`, `Bootable`, `Tried`: `Spec` implies `[]TypeOK`, `[]AlwaysBootable` and `[]TrialIsTried`;
* `Implements`: `Spec => ImplementsTrialBoot`;
* `ResumeOwed`: `Spec => ResumeIsOwed`.

The first four rest on `IInv == TypeOK /\ Boots /\ Sound`. `AlwaysBootable` alone says nothing of the slot a
chunk goes to. `Boots` does: the running slot is the boot slot except between a commit and its reset, when the
USB task is busy; and no session is open while a trial is set up or on. So a chunk never reaches a slot that
matters. `Sound` says what the slots hold, and that the running image is proven once it has soaked. `LoudSteps`
reduces the actions to the six that touch any of this; each of `BeginKeeps` to `MarkKeeps` shows the invariant kept
and the step to be a step of the trial, `Step` joins them. `ResumeOwed` has an invariant of its own, `Owed`: the
request is in NVS only between the arming and the next boot, and then only in that boot's hands.

`AlertsProofs` proves, for any number of built-in and configured sources and any hold times, `TypeOK`,
`AckEndsWithAlert`, `ScreenIsOwed`, `LostDataKeepsTakeover`, `NoDataRaisesNothing` and `TapIsHeard`, from
`IInv == TypeOK /\ HeardFirst /\ SnapIsKept /\ LookIsSound /\ TouchWaits`. What a pass may do at its end depends on
what it found before: `HeardFirst` says that a source never heard holds no level, `SnapIsKept` that what the snapshot
found valid is still in the store in the middle of a pass and what it found missing was lost then, `LookIsSound` that
what `Consume` collected has a reading and misses nothing critical in the snapshot, `TouchWaits` that the card a touch
was meant for stays on screen until `Consume` acknowledges it. The two between-pass invariants hold because every pass
ends in `Settle`, where `FirstUnacknowledged` is shown to find the lowest open source.

`CanBusProofs` proves, for any number of rates, retries, recoveries and faults, `TypeOK`, `DriverIsThere`,
`ListenOnlyIsScan` and `OneReply`, from `IInv == TypeOK /\ DriverIsThere /\ ListenOnlyIsScan /\ OneReply /\ BeginsInUse`.
Lemmas about the outcome sets (what a call that succeeded, or failed, leaves) stand for the driver calls; `BeginsInUse`
says that the task between taking a scan request and stopping the driver has an installed one, and that the request about
to be sent is that of the pending exchange.

`RadioProofs` proves `CardIsOwed` for any phones, prompts and failing calls, from `IInv == CardIsOwed /\ Asked /\
RadioIsAsked`: a card comes from a request in the mailbox, so `Asked` says what a request there stands for, a fresh one
for a pairing that has not ended, one that ended for a hide the UI task has still to take. It also proves
`ReplacedIsHeard`, which no run states: when a tuner gives way to another the USB task is told, and what it was told is not
lost, since the note goes only with a tick after which no phone's file, config or update transfer is left. `adoptClient`
acts on a client it read earlier, and the USB task may drop that client in between; `SocketSound` says that nothing else
can have happened to it. Nothing is proved of the close of the replaced session, which may fail.

`DatalogProofs` proves, for a ring of any size, counters of any range that the size divides, any staging buffer, any
record lengths and any number of records and sessions:

* `RingIsQueue`: `Spec => ImplementsQueue`;
* `LogIsWhole`: `Spec => []FileIsWhole`;
* `LossIsTold`: `Spec => []LossIsCounted`.

A cell is found by one remainder and the fill level by another. `DivMod` and `Remainder` are the two facts of arithmetic
that the rest needs: `SameCell` gets from them that a counter which wrapped still points at the same cell (where the
assumption that the size divides the range is used), `UsedIs` that the fill level is what the head is ahead of the tail,
`PushSpares` that a push which fits overwrites nothing unread. `RingKept` is the invariant of the ring: it is never
overfull, between a push's two steps the record lies behind the head, between a take's two steps the staged bytes are
still behind the tail. `RingSame` shows that every step but a published record and a take leaves the unread bytes as
they are, `PublishHeadAdds` and `TakeBytesParts` that those two are `Push` and `Take`.

For the file, `FileIsWhole` and `LossIsCounted` are not inductive, since most of a session is still in the ring while
they are already at stake. The invariant speaks of `Stream`, the file with what is on its way to it, instead. `Whole`:
the stream of a session that logs is whole records in rising order, and what is on its way to the file ends with a
whole one. `OneOld`: at most one pass of the stream, or the one being pushed, is of an earlier session; it needs that
recording is off from the end of one session to the beginning of the next (`Sessions`). `Counted`: while a session logs
and no pass outlived one, the stream's own records and the drops since the opening are what was sampled. `LogSame`,
`AppendBytesLogs`, `HaltLogs` and their neighbours say what each step does to the stream, and `WholeStep`,
`OneOldStep` and `CountedStep` need no more than that. `BoundsAssumption` says only that the two bounds of the model
are numbers.

Only model-checked: what holds under fairness (`PendingSettles`, `SlotIsReleased`, `SessionEnds`, `TrialSettles`,
`AlertReachesDriver`, `BusRestarts`, `ScanEnds`, `CommandIsAnswered`, `WorkshopClosesLog`, `CentralLeaves`,
`SilentTunerYields`, `OrphanEnds`), which is out of the prover's reach. Every other property of a passing run is
stated by a theorem.

## Disagreements between the code and its documents

The five violated properties above quote `docs/architecture/usb-transport.md`,
`docs/reference/flash-layout.md` and `docs/architecture/workshop-mode.md`; the counterexamples are in the runs.
More were found while reading and modelling, and need no run:

* `firmware-ota.md` says a gap or an overrun aborts the transfer, where `refuseChunk` leaves the session open;
* `firmware-ota.md` says workshop frames count towards the soak, which `ota_soak.h` and `boot-sequence.md` deny;
* `usb-transport.md` says the typed PUTs restart like PUT_CONFIG, which reloads live;
* `ble-transport.md` says a rogue central cannot hold the slot. One that connects between `earlyInit` and taskBLE's
  `init` can: restarting the advertising is refused while it is there, the failure asks for a stop, and `stop` forgets
  the peer without ending its link. Bluetooth is then off until the next boot, except that `onDisconnect` of that peer
  advertises once more, and the one who comes then is dropped by nobody;
* `ble-transport.md` says a passkey request during a critical alert is dropped; it is kept, and shown when the alert ends;
* `transports.md` says a newcomer replaces a tuner that was silent for five seconds and owns no open transfer. When a
  config upload took over the staged file of that tuner's PUT_FILE and closed it, `tickChunkTransferTimeout`, which asks
  for an open file, never ends the PUT_FILE, and `socketFileTransferOpen`, which does not, goes on publishing it: every
  newcomer is refused, until another PUT_FILE, a noted close or a restart. `WorkshopSocket` has the case (`Stranded`);
* `page-lifecycle.md` says a take-over goes away on acknowledgement or a live recovery. A lost signal that comes back,
  still critical, between the two looks of a pass is in neither set, and the take-over is off for that pass.

## Not modelled

* `signals.json`, `device.json` and `input_bindings.json` share the swap, but their loaders and the merge of an uploaded
  signal table with the stored one are functions of documents. What the signals gate leaves of the staged file's backup
  is a hazard no property covers.
* A `dashboard.json` that is there but empty, or cannot be opened: provisioning writes over it (`default_config.cpp:60`).
  No writer of `ConfigStore` leaves one.
* The mount itself (and its format on failure), the contents of documents, base64, JSON and the serial line assembler.
* The workshop's HTTP files, its origin check, mDNS, and the speed that decides the motion exit.
* BLE characteristics and what they carry; starting the Bluetooth stack a second time, which no caller asks for.
* The thresholds of an alert, the rev limiter, the tone, the alert broadcast.
* Which rate a scan picks, bus statistics, the frame monitor, and the OBD poller, which takes its table in turn and waits
  for no reply.
* How a log record is encoded, how a session's file gets its name, and how it is read back.
* The error store, action dispatch, control state and timers: each one lock or one task, with unit tests in `rust/`.
* Pages, overlays, drawing, fonts, sound, drivers, units and float arithmetic.

`PROJECT.json` has the reason for each component, and the hazards without a property have a note.

## What could come next

1. The signals gate, with the backup it leaves.
2. The motion exit with its speed and hold, composed with the mode machine of `OtaUpdate`.
