# CroPDUster in TLA+

CroPDUster is the firmware of a network-attached power distribution unit: a
Raspberry Pi Pico (RP2040) with eight relays, an Ethernet controller, an HLW8012
power monitor, an HTTP API with accounts, settings in flash, and firmware
updates over HTTP. This directory holds TLA+ models of it, the TLC runs that
check them, and TLAPS proofs about them. Line numbers refer to `src/`.

* [The system](#the-system)
* [Modules](#modules)
* [Runs](#runs)
* [Bounds](#bounds), [Fairness](#fairness)
* [Proofs](#proofs)
* [Findings](#findings)
* [What is not modelled](#what-is-not-modelled)
* [Plan](#plan)

## The system

One executor runs everything on one core: `gpio_task`, `sensor_task`, four
`web_task`s, the Ethernet and network tasks, and `main`, which boots and then
feeds the watchdog. Scheduling is cooperative: a task runs from one `await`
that suspends to the next, and nothing orders tasks that are ready at the same
time. What tasks share is in statics: `GPIO_SIGNAL` and `GPIO_STATES`
(gpio.rs), `SENSOR_DATA` (sensors.rs) and the database (web/mod.rs). Power may
fail, a task may panic and the watchdog may bite at any moment; three handlers
restart the controller on purpose or can be cut off by that.

| Component | State | Operations | Interacts with | What is hard | Correct means |
|---|---|---|---|---|---|
| Relay outputs (application/src/gpio.rs, web/gpio.rs) | mailbox of one command, shared states, pins | GET, toggle and set handlers; `gpio_task` applies a command | four web tasks write the mailbox, one task reads it; AuthUser gives the port mask | overwritten commands, answers before the effect, pins out of range, restarts | relays move only by permitted commands, once; states are the pins |
| Settings database and schema (storage.rs) | keys in flash | mount, format, `seed_defaults` (three transactions), key access | every handler; main at boot | power failure between transactions, format under running transactions | defaults after first boot and reset; users are whole |
| Authentication (auth.rs) | none; three reads of one transaction | AuthUser, AdminUser | the database, every protected handler | a user changed between the reads, or after them | nobody is let in on a mixture of states |
| Admin and status API (web/admin.rs, web/status.rs) | none beyond the database | port name, password, create, ports, delete, factory reset, status | authentication, database | read and write in separate transactions, stale AuthUser, failing commits | changes need the right to them; deletion lasts |
| Power measurement (hlw8012.rs, sensors.rs, web/sensors.rs) | two PIO FIFOs, SEL, `SENSOR_DATA` | state machines push; the task reads, switches SEL, publishes | the load; readers of `SENSOR_DATA` | full FIFOs, timeouts, measurements of the other mode | readings are recent and of the right output; the task goes on |
| Firmware update (web/update.rs) and bootloader (bootloader/) | ACTIVE, DFU and BOOTLOADER_STATE partitions | write chunks, mark, restart; swap, revert, load | four web tasks share DFU; embassy-boot | uploads cut off or at the same time, power failure anywhere, confirmation | what runs is a whole image; an update lasts |
| Startup and watchdog (main.rs) | the watchdog's counter | boot steps 1 to 15, feeding | all of them | the bootloader starts the 8 s watchdog, the application feeds it from step 9 on; other tasks delay main | the watchdog bites what hangs and nothing else; the controller comes back |
| Web server and router (web/mod.rs) | pool of four tasks | accept, route, serve | picoserve, TCP stack | a connection occupies a task | every request is answered |
| Web user interface (index.html) | session credentials, visible sections | login, first login, polling, admin forms | the API, from a browser | decisions on answers of unprotected endpoints, polling overlapping commands | what is shown is what the controller says |
| xtask (xtask/src/main.rs) | files in build/ | build, combine, clean, flash by UF2, probe or OTA | flash layout, update endpoint, the tools it runs | addresses, gaps, shared flash sectors, files of earlier commands, steps that fail | after flashing the device runs what was built |
| Constants (config.rs, memory.x) | none | — | flash layout of all | must agree | sizes |
| archive/ | — | — | — | — | the PIC18 predecessor, not built |

`PROJECT.json` lists every hazard with its line and the properties that cover
it, and for every definition the lines it stands for.

## Modules

| Module | Models | State | Actions |
|---|---|---|---|
| `RelayCommands` | what the relay service promises: commands are accepted, then applied at most once, or lost | `outlets`, `fate` | `Accept`, `Apply`, `Restart` |
| `RelayControl` | gpio.rs and web/gpio.rs | `signal` is `GPIO_SIGNAL`, `states` is `GPIO_STATES`, `pins` the outputs; `pc`, `cur`, `seen` the web tasks | one action per poll of a handler (`GetReadsState`, `GetReplies`, `Refuse`, `Command`, `Answer`), `GpioTask` for a round of the task, `Reset` |
| `SettingsService` | storage.rs, auth.rs, web/admin.rs, web/status.rs, boot steps 2 to 3 of main.rs | `db` and `formatted` are the flash, `readers` and `writer` ekv's transactions; `pc`, `stage`, `cur`, `got` the tasks | one action per stretch between two awaits: `AuthPw`, `AuthAdmin`, `AuthPorts`, `PasswordOpens`, `PasswordChecks`, `Begins`, `Commits`, `WriteFails`, `CommitFails`, `FormatStarts`, `FormatEnds`, `FormatFails`, `BootMounts`, `BootLooksAtPin`, `Restarts`, `PowerFails`, ... |
| `SensorTask` | hlw8012.rs and sensors.rs | `cf`, `cf1` the FIFOs, `sel`, `taken` the locals of a cycle, `data` is `SENSOR_DATA` | `ReadPower`, `ReadCurrent`, `Settles`, `ReadVoltage`, `Wakes`; `PulseOnCF`, `PulseOnCF1` for the state machines; `LoadChanges`, `Tick` |
| `FirmwareUpdate` | web/update.rs, bootloader/src/main.rs, the partition sizes | `active`, `dfu`, `state`, `swapped` are the flash; `pc`, `cur`, `off` the uploads | `Refuse`, `Accept`, `WriteChunk`, `FinishUpload`, `ReadFails`, `WriteRefused`, `MarkFails`, `SysReset`, `Load`, `Swap`, `Revert`, `Resets` |
| `Startup` | main.rs from power-on to the main loop, and the watchdog | `place` and `left` the boot step and the time it may still take, `dog` the watchdog, `mounts` the flash, `requested` is `factory_reset_requested` | one action per end of a step: `MountSucceeds`, `MountFails`, `Formatted`, `SeedsOnce`, `EthernetUp`, `NoLease`, `Lease`, `Blinked`, `FeedsOn`; `Hangs`, `Bites`, `Halts`, `Tick` |
| `Device` | the composition of `FirmwareUpdate` and `Startup`: what restarts mean to both, images that hang | theirs | `Boots`, `Serves`, `UpdateRestarts`, `Fails`, `WatchdogRestarts`, `ImageHangs`, `Runs` |
| `PulseCounter` | the PIO program in hlw8012.rs and `read_value` | `pc`, `x`, `isr` of the state machine, `pin`, `reading` | one action per instruction, each together with what the pin does in that clock: `StaysHigh`, `Falls`, `StaysLow`, `Rises` |
| `WebUi` | the login state of index.html, against the answers of the API | `creds` is sessionStorage, `shown` what is not hidden, `calls` the asynchronous functions; `pw`, `first` the controller's accounts | `DoLogin`, `DoFirstLogin`, `DoChangePassword`, `ToggleRelay`; one `...Answered` per point at which a function goes on; `ServesStatus`, `ServesUser`, `ServesPassword` for the controller; `Loses`, `Elsewhere`, `Reloads` |
| `FlashTool` | xtask/src/main.rs | `files` is build/; `flash`, `dfu` and `state` (BOOTLOADER_STATE) the device; `command`, `plan`, `result` the command that runs | `Starts`; `BuildsBootloader`, `BuildsApplication`, `BuildsDebug`, `Combines`, `Cleans`; `Flashes` for UF2 and probe, `ProbeResets`, `Uploads` and `UploadBreaks` for OTA; `Restarts` of the device; `Fails`, `Succeeds`, `SourcesChange` |
| `RelayControlProofs`, `SettingsServiceProofs`, `SensorTaskProofs`, `FirmwareUpdateProofs`, `DeviceProofs` (with those of `Startup`), `PulseCounterProofs`, `WebUiProofs`, `FlashToolProofs` | theorems | | |
| `MCRelayControl`, `MCSettingsService`, `MCSensorTask`, `MCFirmwareUpdate`, `MCDevice`, `MCPulseCounter`, `MCWebUi`, `MCFlashTool` | requests, uploads, images and sizes for TLC | | |

**Requests instead of HTTP.** A request is a record with a kind, the
credentials it carries and the values its body asks for. Parsing is left out;
its effect (a body that never comes or is not valid, a pin of any size, an
unknown port, a wrong length) is kept as an action or as a value of the record.

**ekv** is external: any number of read transactions, one write transaction,
whose writes appear together when commit ends; commit waits for open readers,
and no reader opens while a commit waits. `format` waits for nobody and is cut
in two steps because power may fail inside it. Writes of a transaction are seen
by nobody before its commit and are therefore part of the action that commits.
Writes, commits and formats may fail. A failing write or commit drops the
transaction, except that `handle_delete_user` ignores failing writes and commits
the rest, so a deletion writes any part of its three keys. A failing format has
erased nothing, or everything, after which a mount may or may not find the empty
database; the factory-reset endpoint and the reset pin ignore it and seed over
what is left, and init_database panics. A format that leaves some of the old keys
and not others is left out: ekv mounts a database as a whole or not at all. In
`Startup` formats succeed, or a restart takes their place, since only their time
matters there.

**History variables** (`fate`, `reply`, `levels`; `view`, `deleted`, `sole`;
`elapsed` and the age and origin of a measurement; `outcome`, `label`,
`spoiled`; `since`, `waiting`; `formats`; `told`, `start`, `high`; `proven`) are
read by no guard that models code, except that each request of a behaviour is
sent once. They let an invariant speak of what happened earlier.

**Time** in `Startup` is counted in ticks; a step may end at any moment up to
its limit. The boot steps before step 9 wait for nobody and feed nobody, so
their limits add up; from then on every wait of main is followed by a feed, and
`Busy` bounds how late the other tasks let main be polled. A broken image, or a
mixture of two uploads, may hang in any step.

**The page** runs its functions one at a time from one `await` to the next, so a
function is the request it waits for. What it does with an answer uses the
credentials of that moment, which another function may have changed. Requests
are handled in one step here, because `SettingsService` has their interleavings.

**embassy-boot** is external: `write_firmware` is refused while an update is
marked or unconfirmed, prepare exchanges the partitions for a marked update,
takes an unconfirmed exchange back, and resumes an interrupted copy. `FlashTool`
has as much of this as the tool meets: an upload fills DFU and makes an update
pending, and every restart, `reset_probe` included, exchanges ACTIVE and DFU for
a pending update and again for an unconfirmed one.

**Images** in `FlashTool` map addresses to bytes, and a byte is what it was
built from and the version of the sources. cargo, elf2uf2-rs, probe-rs and the
boot ROM are external: an ELF file holds BOOT2 and its code, elf2uf2-rs writes
the blocks that hold a byte of it, and whatever writes flash erases the sectors
it touches. A file that is being written when a step fails may end early
(`CutPoints`): an ELF file that does cannot be read, a UF2 file is asked no more
than to exist and is used like a whole one. Commands and their steps are named by the command line without its
blanks: `"flash--probe"` is `flash --probe`.

## Runs

A run that passes checks its properties in every reachable state of the
instance. In a run that expects a violation TLC finds a behaviour of the code
that contradicts a sentence of the repository; see [Findings](#findings).

| Run | Question | Properties |
|---|---|---|
| `relay` | Two web tasks send permitted, forbidden and out-of-range commands and a GET, with restarts anywhere. | `TypeOK` (no index leaves `GPIO_STATES`), `OutletsHaveCause` (a closed relay was closed by an applied command of somebody who may use it, and states equal pins), `SwitchedByCommand` (no step but a permitted command or a restart moves a relay), `ImplementsCommands` (refinement of `RelayCommands`), `RequestsEnd`, `AnswersAreCurrent` (an answer is a level that the relay had during the request, although it is read before an `await` or a fixed 1 ms after the command) |
| `settings_accounts` | Three web tasks create, change, use, empower and delete a user at once; deletions whose writes fail; one power failure. | `TypeOK`, `DeletedStayPowerless` (the admin flag that a deletion took comes back only by a create, the mask only by a create or a ports request), `UsersAreWhole`, `ChangesAreAuthorized` (a change is a step of a task for its own request, whose sender was entitled to it, and to what that request writes) |
| `settings_resets` | A user authenticates and changes the password while admins recreate the user and the settings are reset, by formats that may fail; one power failure. | `CredentialsAreOneMoment` (password, flag and mask were one user's at one moment), `SeedsDefaults` (seeding after a format that succeeded leaves exactly the defaults if no other task commits; at boot it leaves nothing to seed, even if the format failed), `RequestsEnd` (no reader, writer or commit waits in a circle), `ComesUp` |
| `sensor` | Pulses and load changes at any time. | `TypeOK`, `StalenessIsBounded` (an entry is at most `Depth - 1` reads old), `SelMatchesRead`, `CycleIsBounded`, `NoLoadShowsZero`, `KeepsPublishing` |
| `device` | Uploads of several sizes at once, an image that hangs, boots that format and seed, one restart anywhere besides those of the watchdog and of updates. | `TypeOK` (every page written will be exchanged), `StartupTypes`, `BitesOnlyTheSlow` (the watchdog bites firmware that hangs, or work between two feeds whose limits add up to the period), `RunsWholeImage`, `FallbackIsWhole`, `HangsWithFallback` (while an image hangs, a whole one is there to go back to), `MarkedGetsToRun`, `ComesBack` (no upload bricks the controller) |
| `pulse` | Pulses of every length, from one clock to far beyond the counter. | `TypeOK`, `ReadsThePulse` (a reading is the pulse's length within one round, or zero for a reason), `OncePerPulse` (none is missed, none told twice) |
| `webui` | Logins with right and wrong passwords, first logins, changes and reloads that overlap; failing requests and changes elsewhere. | `TypeOK`, `CoveredWithoutCredentials` (a page at rest that holds no credentials covers the app), `OpenOnlyIfProven` (a page at rest is open only with credentials that were accepted) |
| `flash` | Every command of xtask in any order; steps fail half-way, the sources change, and the device restarts. | `TypeOK` (no image leaves the flash), `ProbeLeavesRunning` (after flashing with a probe the bootloader is whole and a fresh application is in ACTIVE, or in DFU if an update was pending or unconfirmed), `UploadInPlace` (ELF to UF2 to binary to DFU to ACTIVE moves no byte of a whole file) |
| `settings_seed`, `sensor_mode`, `firmware_lasts`, `flash_combined` | Does what the repository says hold? It does not. | one each |

`RunsWholeImage` leaves out images that another upload overwrote before they
were marked (`spoiled`): the code lets two uploads write to DFU in turns, so
the one that ends first marks a mixture. For every other upload the property
says that no order of chunks, refusals, torn pages and restarts gets anything
but a whole image to run. `DeletedStayPowerless` does not claim that a deleted
user cannot log in: a password change that passed its check before the deletion
writes the password back, and the user logs in with what a later ports request
gave, if there was one, and with nothing else. `UsersAreWhole` does not hold next to a factory reset, for the same reason.

`BitesOnlyTheSlow` promises no boot in time, for nothing in the code bounds a
format or a seed: it says that the watchdog bites no boot but one whose own
limits, counted with as many formats as it made, reach the period, and that
neither a lease that does not come, nor a loop, nor an order of the steps adds to
them. The boot to look at is the one whose mount fails with the reset pin low:
main formats and seeds twice before it feeds. In the instance one format fits
into the period and two do not, so this boot is bitten, and `ComesBack` asks that
the pin be let go of. `ProbeLeavesRunning` names one case in which the
application just flashed does not run (see [Findings](#findings)).
`ReadsThePulse` leaves out the pulse amid which the state machine is enabled,
and `OpenOnlyIfProven` counts the credentials that a successful password change
stores as accepted, which they are unless somebody else logged in meanwhile
(see the end of [Findings](#findings)).

## Bounds

* `relay`: two ports (pins 2 and 3 are out of range, and pin 2 wraps to bit 0),
  two web tasks, five requests. Two senders are what overwriting a command
  needs; a third only repeats it. The theorems hold for any number of each.
* `settings_accounts`: three web tasks, because the deepest race has three
  actors (authentication, deletion, creation); two users, two passwords, two
  masks, one port; six requests; `MaxCrashes` 1. A second failure starts from
  a flash that the first may leave just as well. The web tasks run the same code
  and are symmetric; the run checks no liveness.
* `settings_resets`: two web tasks and five requests, among them a reset, so
  boot happens up to three times.
* `sensor`: FIFOs of two entries (four in the hardware) fill and overflow with
  two pulses; durations of one tick keep the order of timeouts, and
  `CycleEnds` holds for all durations; `sensor_mode` needs no bound.
* `device`: ACTIVE of two pages of two bytes, so that images of one page, one
  and a half and two, and one byte too many exist (an empty one is refused for
  the same reason as that; `FirmwareTypesHold` covers all lengths); two web
  tasks; one failure (`MaxResets`), to which the watchdog and the restarts after
  updates add others without a bound. A watchdog period of three ticks and one
  tick each for format, seeding and lateness: one format fits and two do not.
* `firmware_lasts`: one upload and one restart are enough.
* `pulse`: a counter of four bits (32 in the hardware), pulses of up to 80
  clocks, which overflow it twice over, and six clocks between pulses, the least
  that lets none be missed; the theorems hold for every width and length.
* `webui`: two accounts and two passwords, two functions under way (each race
  found has two), three ports and two troubles (failed requests, changes
  elsewhere), so that not every request for a port can fail.
* `flash`: sectors of four bytes and blocks of two, so that BOOT2 shares a
  sector with the bootloader and an image may end inside a block; the third
  is BOOTLOADER_STATE and ACTIVE begins with the fourth; two versions of the
  sources (`MaxVersion`), one with a gap in the application and one without;
  files that end early do so inside the application (`CutPoints`). Four commands
  (`MaxCommands`) are enough for an update, an interrupted build and a probe
  after it; `ProbeRuns` has no such bound. `flash_combined` needs one command.

Requests are sent at most once, which bounds behaviours; a client that repeats
a request is one that sends another equal one with its own id.

## Fairness

* `RelayControl`: weak fairness of `gpio_task` and of each web task. The
  executor polls all woken tasks before it polls one a second time; the signal
  wakes `gpio_task`, and a timer the handler. `GPIO_STATES.lock()` never
  suspends, since no holder awaits under it.
* `SettingsService`: weak fairness of each task's own steps. Flash operations
  and the 50 ms sleep end, and ekv's waiters are woken. No fairness for
  clients: a body may never come, and then `RequestsEnd` says that only that
  request waits. None for writes, commits and formats that fail, nor for power
  failures: they are no part of `Step`, and a commit, failing or not, waits for
  the readers, so a circle of waiting tasks would stay one.
* `SensorTask`: the task is polled and time passes. None for pulses or loads.
* `Device`: the bootloader ends, time passes, a boot step ends by its limit, the
  watchdog bites when its time is up, and the 100 ms after an update pass. None
  for clients, who send the chunks, for the DHCP server, and for failures.
* `PulseCounter`, `WebUi`: none; their properties are safety properties.
* `FlashTool`: none; a developer may stop at any point.

Arrival of requests, power failures, pulses and load changes owe nothing.

## Proofs

All theorems hold for every value of the constants that meets the module's
ASSUMEs. TLC checks each invariant on a small instance first.

**`RelayControlProofs`**, from `NPortsAssumption`, `RequestsAssumption`,
`NoneAssumption`. `NotRefused` is the arithmetic the code relies on: for a pin
in range the shift does not wrap, so a command that is let through names a port
in its sender's mask. `TypesHold` needs it for the command in the slot and for
the handler that sleeps. `OutletsHaveCause` is not inductive: a step could
rewrite the fate of the command that closed a relay, or the slot could hold a
command nobody may give. `CauseInv` adds `SlotIsSignalled` (the command in the
slot is signalled and permitted) and `HandledOnce` (a request is in the hands
of one web task, so no second one rewrites its fate). From it follow
`ClosedRelaysHaveCause`, `SwitchedOnlyByCommand`, and `RefinesCommands`: every
step is a step of `RelayCommands` or changes nothing there.

**`SensorTaskProofs`**, from `DurationsAssumption` and `ZeroAssumption`.
`ReadingsAreRecent`: an entry at place i of a FIFO is at most `Depth - i` reads
old, which a push at the end and a read at the front both keep; readings come
from the front. `SelIsRight` and `CycleEnds` rest on `Spent`, which bounds
`elapsed` plus the timer at each place of the cycle by the durations of the
waits up to it. `TypesHold` is the type part.

`AnswersHold` adds the history of the levels a relay has had during a request:
what a handler has read (`seen`) stays among them, a change by `gpio_task` adds
the new one, and the answer is taken from the state of now or from `seen`.

**`PulseCounterProofs`**, from `CounterAssumption`, `LevelsAssumption` and
`ZeroAssumption`. The invariant says, for each instruction, how X, the clocks the
pulse has lasted and the clocks the pin has been low go together; an overflow
leaves X at its largest, which reads as zero. `ReadingsAreTrue` and
`PulsesAreToldOnce` follow, the latter because MinLow clocks are enough to come
back to the first instruction.

**`SettingsServiceProofs`**, from `TasksAssumption` and `DataAssumption`: tasks
are distinct, and a request carries values of its kind (`Request`). The
inductive invariant `SettingsInv` says where a task may be with a request of
each kind (`WebControl`), who reads and who owns the write transaction
(`LockTypes`), and then three things. `Authenticating`: between its reads a task
is a reader, so nobody commits, and its user is who he was or a format has
removed him; in that case the next read refuses him, which is why
`CredentialsHold` although a format waits for nobody. `Credentials` carries what
authentication established to the commit, and `OnlyTheAuthorizedChange` follows:
only a commit and a format change the database, and each is a step of the task
whose request it serves. `Backed`: without resets whoever was let in still has a
flag and a mask, for no transaction removes a key, so that a password change leaves users whole
(`UsersStayWhole`). `Keeps` says of every transaction which grants it may bring
back, whatever part of a deletion went through, and carries
`TheDeletedStayPowerless`; both properties are part of the invariant. `SeedInv`:
while a seed is the only writer since a format that succeeded, the database is
the defaults written so far, and `MainInv`: at boot, where nobody else commits,
the stages written so far stay written whatever was there before
(`SeedsLeaveDefaults`).

**`FirmwareUpdateProofs`**, from `SizesAssumption` and `UploadsAssumption`.
`ChunksCoverImage` is the arithmetic: the chunks of a length that is accepted
cover its pages and are no more than ACTIVE has. The inductive invariant `FwInv`:
an upload nobody overwrote has its own pages in DFU up to its offset
(`Uploading`), so that its last chunk leaves it whole; ACTIVE always holds what
its label says, and DFU from the mark of an update until the exchange is taken
back (`PartsSound`); an exchange that awaits confirmation has the factory's image
in DFU, and otherwise that is in ACTIVE (`Labels`). `WholeImagesRun`
and `FallbackHolds` follow.

**`DeviceProofs`**, from `TimesAssumption` and `BrokenAssumption` besides, which
ask no more of the durations than to be numbers. The boot: `Accounted` says for
each step where the time since the last feed went, namely that the period is no
more than what the watchdog has left and the limits of the steps since then;
`FormatsCounted`, that a boot formats twice only where the pin asks for it.
`OnlyTheSlowAreBitten` follows for all durations, and for the whole controller
`DeviceBitesOnlyTheSlow`. The composition: every step of `Device` is a step of `Startup` or leaves it alone
(`DeviceBoots`), and a step of `FirmwareUpdate` or one of the restarts that only
the watchdog and broken images cause and no bound counts. Its invariants
therefore carry over (`DeviceRunsWholeImages`), and give `HangsKeepFallback`.

**`WebUiProofs`**, from the assumptions on accounts and names. Both theorems
have the hypothesis `MaxTroubles < PortCount`: opening the app asks for every
port in turn, an answer of 401 closes it, and only a failure on every port lets
a wrong password stay unnoticed. `BeingChecked` is that argument as an
invariant: an open page with unproven credentials is being checked by a function
under way that carries these very credentials, and each port before the one it
waits for has cost one of the troubles.

**`FlashToolProofs`**, from `SizesAssumption`, `LayoutAssumption` (what memory.x
says: BOOT2 and the bootloader lie apart and below ACTIVE, which begins with a
sector; the application is linked from the start of ACTIVE on) and
`RoomAssumption` (the flash has room for the combined image). `FilesMade`: an
ELF file in build/ is missing or what one build made of one version; a UF2 file
is any image, for it may have been cut short. `BinaryHoldsApp`: the way from ELF
to UF2 to a binary moves no byte of the application, whatever gaps it has; it
gives `UploadsPlaceApp` for every UF2 file that is whole. `SectorsApart` and
`BootloaderWritten`: writing the bootloader erases nothing of the application.
`ProbeUnderway` says for each rest of the plan of `flash --probe` which file and
which part of the flash is fresh already. No step of that command makes an
update pending, so that if none was waiting when it began restarts exchange
nothing; if one was, `ExchangesKeep` says that the application is still in one
of the two partitions. That gives `ProbeRuns`. The type theorem includes that the
combined image, although it is not where it belongs (`flash_combined`), ends
within the flash.

Only model-checked: everything about time and fairness (`RequestsEnd`,
`ComesUp`, `NoLoadShowsZero`, `KeepsPublishing`, `MarkedGetsToRun`, `ComesBack`,
the fairness of `RelayCommands!Spec`), because liveness and ENABLED are outside
the prover. Every invariant and every other action property of the runs is a
theorem.

## Findings

| Run | The code | What it contradicts |
|---|---|---|
| `settings_seed` | storage.rs:101: only a failing mount seeds; a power failure after format leaves a database that mounts and has no admin | storage.rs:100, "format + seed if mount fails (first boot / corrupted flash)" |
| `sensor_mode` | hlw8012.rs:275: the FIFO of CF1 is not emptied when SEL changes, so a voltage may be a current measurement | sensors.rs:15-19 and hlw8012.rs:267 |
| `firmware_lasts` | web/update.rs:126: nothing calls `mark_booted`; the next restart takes the update back, and until then every upload is refused | README.md:13, "OTA firmware updates via HTTP (A/B partition with embassy-boot)" |
| `flash_combined` | xtask/src/main.rs:322: both binaries are relative to the start of flash, so the application is moved by `APP_FLASH_OFFSET` twice | xtask/src/main.rs:293, "Application offset within the combined binary (matches ACTIVE partition" start) |

Smaller disagreements without a run: after an update in the network and one
restart, or with one pending, `flash --probe` writes ACTIVE and sector 0 but not
BOOTLOADER_STATE, and the reset at its end (xtask/src/main.rs:674) makes the
bootloader exchange ACTIVE and DFU, so that the application just downloaded does
not run, where xtask/src/main.rs:652 says "latest code on device"
(`ProbeLeavesRunning` excludes it in every other case). A build that is
interrupted may leave a UF2 file cut short, which `exists()` takes for whole
(xtask/src/main.rs:711, 719, 726), and so does flash_ota. A format that fails is
ignored by the factory-reset endpoint and by the reset pin (web/admin.rs:209,
main.rs:147), and the old users may stay beside the defaults that are seeded.
A password change that passed its check gives a deleted user the login back
(web/admin.rs:94). GET computes `allowed` with a shift by an
unchecked pin (web/gpio.rs:63), so in a release build pin 8 shows port 0's
right; the comment at sensors.rs:50 counts two timeouts in a cycle of three
reads; `flash --application` by UF2 erases the sector that BOOT2 shares with
the bootloader, which the probe path repairs (xtask/src/main.rs:654) and this
one does not; a connection that was never made counts as a finished update
(xtask/src/main.rs:557). A command that is signalled while another is still in
the mailbox replaces it (gpio.rs:30), and the client of the first is answered
all the same. What another web task commits while a factory reset seeds or
sleeps survives it (web/admin.rs:209), though index.html:1122 says "ALL
settings". `wait 1 pin 0` waits for a level where hlw8012.rs:63 and 187 say
"rising edge", so a pulse amid which the state machine is enabled is read short.

In the page: index.html:843 calls the port-name endpoint protected, but its GET
needs no authentication, so every user is shown the admin section.
index.html:971 expects a refused old password to be an ordinary failure, but
web/admin.rs:105 answers 401, and `api` ends the session instead.
`handle401` does not hide the first-login form (index.html:730), which lies over
the login form: after a mistyped default password the "Please log in again" of
index.html:735 cannot be followed with the mouse until the page is reloaded. A
401 to an old request clears the credentials of a new login (index.html:729). A
password change whose answer arrives after a login as somebody else stores the
other's name with the new password (index.html:962). A status request that
fails after the first password change leaves a blank page (index.html:828).

## What is not modelled

* HTTP syntax, JSON, base64, TCP and the Ethernet driver: external, their
  failures appear as requests that end early.
* SHA-256: taken to be injective, and no password to hash to 32 zero bytes.
* Calibration arithmetic and the temperature formula: a reading is 0.0 or the
  measurement it was computed from.
* ekv's pages and embassy-boot's copying: taken to survive power failures, as
  their documentation says. Corrupted flash appears as a mount that fails.
* Failing reads of the database: they answer 500 and change nothing; failing
  writes, commits and formats are modelled.
* A power failure amid a format leaves no database, and one that leaves part of
  the keys is left out (see ekv above).
* In xtask: UF2 headers and ELF parsing, the W6100 and `--debug` variants, RTT,
  `check-tools`, waiting for the mass-storage device.
* In the page: what the tables and forms show, the sensor polling, and the
  forms for admins, whose requests answer 403 and never end a session.
* picoserve's timeouts and connections: four clients that send nothing occupy
  the four web tasks until they are timed out.
* `config.rs` beyond the sizes and durations used here: constants without
  behaviour. archive/: the predecessor, not built.

## Plan

In this order; 1 to 13 are done.

1. `RelayCommands`, `RelayControl`: the core of the device, with a refinement.
2. `SettingsService`: settings, authentication, admin API and boot in one
   module, because their interleavings are where the hazards are.
3. `SensorTask`.
4. `RelayControlProofs`, `SensorTaskProofs`.
5. `FirmwareUpdate`: the most dangerous operation of the device.
6. `FlashTool`: images as operators, commands as sequences of steps.
7. `Startup`, and `Device` that composes it with `FirmwareUpdate`.
8. `PulseCounter`, `PulseCounterProofs`.
9. `WebUi`.
10. `DeviceProofs`: the watchdog's budget, and the composition.
11. `SettingsServiceProofs`.
12. `FirmwareUpdateProofs`.
13. `WebUiProofs`, `FlashToolProofs`.
14. Refinement of `SettingsService` to an abstract store in which a request
    takes effect in one step, for behaviours without a factory reset.
