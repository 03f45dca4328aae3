# Heimdall: specifications of the electronic regulator

Heimdall is the board that controls the electronic pressure regulator (e-reg)
of a rocket: a servo opens the valve between a nitrogen bottle and a propellant
tank. The firmware under `src/Firmware/src` reads two pressure transducers, runs
a state machine that pressurises the tank, controls it and aborts on
overpressure, switches the power of the servo, answers commands from the radio
network and logs to an SD card. All of it, except the queue behind the card,
runs in one task (`main.cpp`, `loopTask`): set up once, then iterate for ever.
The files on the card are kept by SdFat, whose source is part of the repository
(`src/Firmware/lib/SdFat`).

The modules here model the regulator with what it promises, the telemetry, the
logger, and the part of SdFat that this firmware runs: sector cache, FAT32 and
exFAT volumes, and the SD card driver. TLC checks them on small instances; the
`_proofs` modules prove, for every value of the constants, every safety property
of the regulator, its control law, its telemetry, its power, the logger and the
SD card driver that a run checks, that the regulator implements its
promise, that driver and card together are the device of sectors the file
system expects, and, for volumes of every size, what the table of FAT and the sector
cache keep up to a failing access and through losses of power, and what the bitmap and
the table of exFAT keep up to a failing access.

## 1. Inventory

| Component | State | Operations | Interacts with |
|---|---|---|---|
| Control law (`ncrgreg.cpp`: `feedforward`, `Kp`, `nextAngle`) | none (saved values are for telemetry) | nitrogen pressure to feed-forward and gain, feedback pressure to an angle | called by Controlled |
| Regulator (`NRCGreg`, the six states, `gregtypes.h`) | state object, flag word, disconnect counter, pressurising angle, time of entry | `setup`, `update`, `execute_impl`, `extendedCommandHandler_impl`, the pressure checks | servo, converter, transducers, network |
| Servo power (`buckOn`, `buckOff`, `buckManager`; `SiC43x`) | enable pin, off time, time of the last pulse | `setEN`, the only call of the driver | called by the states and by every update |
| Servo and adapter (librrc, external) | armed, signal | arm, disarm, execute | the states, and the ground directly: it is a network service |
| Telemetry (`commands.cpp`, the status word `_value`) | saved gains, copied status | put a packet together, answer a state request | regulator, network |
| Main loop and setup (`main.cpp`, `system.cpp`) | time of the last log frame | the iteration: receive packets, read sensors, log, update the regulator | everything |
| Telemetry logger, SD store and files | initialised, file, store state, error code | `initialize`, `log`, append, flush, close | main loop, SdFat |
| Rail monitor (`ADC_VRailMonitor`) | ADC ready, last voltage, alarm | `setup`, `update` | the driver's own `setup` and `update`, which nothing calls |
| Sector cache (`FsCache`) | one buffered sector, dirty, mirrored | `get`, `sync`, reads and writes around the buffer | FAT and exFAT over it, block device under it |
| FAT volume and files (`FatPartition`, `FatFile`, long names) | the table, directories, per object: position, size, clusters, directory place, flags | open, read, write, seek, truncate, preAllocate, sync, close, remove, rename, mkdir, rmdir, list | sector cache |
| exFAT volume and files (`ExFatPartition`, `ExFatFile`) | bitmap, table, sets of entries, per object the like, and whether its clusters follow each other | the same | sector cache |
| Volume and file of either kind (`FsVolume`, `FsBaseFile`) | which of the two it is | hands every call on; `begin` tries exFAT, then FAT | SD store; the two above |
| SD card driver (`SharedSpiCard`, `DedicatedSpiCard`, checksums) | card type, state, sector it is at, chip select, error code | begin, read, write, erase, sync, ready, stop, syncDevice | the card over SPI (external) |
| Idle state, configuration, hardware design, the rest of SdFat | - | - | - |

What is hard in this code:

- **Ordering inside one update.** `update` runs the power manager, the return to
  Default, the state's own update, which may already move the valve, and only
  then the checks that abort it. A command may put a tripped regulator into an
  active state just before.
- **State shared by many writers.** The off time of the converter is written by
  every state's entry and exit and by the periodic pulse; the servo is
  commanded by the states, by the debug command and by its own network service.
  One buffer of a sector serves the table, the directories and the data of all
  files, and whole sectors are moved around it.
- **Latches, edges and copies.** A critical overpressure is latched, the flag it
  comes from is not; a byte counts disconnects on edges of flags; telemetry
  sends a status and gains that were copied earlier.
- **Time.** Deadlines are compared after a sum that wraps after 49.7 days; the
  log compares a 64 bit time with a stored 32 bit time; the card driver keeps
  the end of a wait in 16 bits.
- **Failure.** The board may be reset at any time with the valve open, the
  transducers may be disconnected, any access to the card may fail between two
  steps of a call, leaving driver and file objects with members that describe
  what the card no longer does and a buffer with bytes of another sector, and the power may go between two sectors.

The hazards, each at its line and with the properties aimed at it, are listed in
`PROJECT.json`.

## 2. Modules

| Module | Models | Notes |
|---|---|---|
| `GregControl` | the control law | operators in integers: tenths of a bar, thousandths of the gain and the feed-forward angle, tenths of a degree |
| `GregSweep`, `MCGregSweep` | Controlled under moving readings | one reading moves per step, so that the effect of each shows |
| `BuckPower` | `buckOn`, `buckOff`, `buckManager` | clock values modulo `WORD`; the largest is the code's "never" |
| `RegServo` | servo and adapter, as the states rely on them | external: librrc is not in the repository |
| `NRCGreg`, `MCNRCGreg` | the regulator with its commands, the loop, time, the valve and resets | composes the three above |
| `EregLifecycle` | the abstract promise of the regulator | implemented by `NRCGreg` through `Lifecycle` |
| `GregTelemetry` | status word and telemetry packet | extends `MCNRCGreg`: every action of the regulator, with what it saves and copies |
| `TelemetryLog` | store, logger and log frames with a card that fails | setup, loop and restart of the firmware as far as the log goes |
| `SectorCache` | `FsCache` over a device of whole sectors | failing accesses and what they leave in the buffer, the order of writes |
| `FatTable`, `ExFatTable` | table, allocation, and for exFAT the bitmap | |
| `FatFile`, `ExFatFile` | read, write, seek, truncate, preAllocate, sync, close | |
| `FatDirectory`, `ExFatDirectory` | names, entries, open, remove, rename, mkdir, rmdir, listing | |
| `FatVolume`, `ExFatVolume`, `MCFatVolume`, `MCExFatVolume` | the volume in use: one action per call of the program | compose the three above |
| `FatPower`, `MCFatPower` | the loggers' use of a FAT card, with the power cut inside a call | extends `FatVolume` |
| `FileStore` | the abstract promise: paths that hold bytes | implemented by both volumes, `IsFileStore` |
| `SdCrc` | the driver's two checksums, and the card's | bit by bit; only `MCSdDevice` uses them, as the tables of the constants |
| `SdCard` | the card and the wires | external: what the driver expects of it, and how it may fail |
| `SdSpiCard` | the driver of the card | command by command, exchange by exchange |
| `SdDevice`, `MCSdDevice` | the driver in use by a file system | composes driver and card |
| `BlockDevice` | the abstract promise: numbered sectors | implemented by `SdDevice`, `IsBlockDevice` |
| `NRCGreg_proofs` | theorems about `NRCGreg`, the power of its servo, and `GregTelemetry` | checked by TLAPS, as are the next ones |
| `GregSweep_proofs`, `TelemetryLog_proofs`, `SdDevice_proofs` | theorems about these modules | |
| `FatTable_proofs` | theorems about `SectorCache` and `FatTable` | the functions one by one, then any number of them (`UseSpec`) |
| `ExFatTable_proofs` | theorems about `SectorCache` and `ExFatTable` | the functions one by one, on a card that may fail, then any number of them (`UseSpec`) |
| `Loops` | lemmas about loops and remainders | the loops of the driver and of both tables rest on them |

**How the regulator corresponds to the code.** The object is one record, `greg`.
Each method is an operator from record to record of the same name as the
method, and a handler that calls several of them is their composition in the
code's order, in one action. `Update` is one iteration: readings come from
`FeedbackReadings` and `N2Readings`, then `update` is `buckManager`, the return
to Default, the state's update, `checkPressures`. Each case of `execute_impl` and of
the extended command handler is an action (`ExecuteControlled`,
`ExecuteShutdown`, `ExecuteDebug`, `ExecutePressurise`, `DebugExecute`,
`SetPressAngle`), and so are arming and disarming of the regulator and of the
servo, and the servo's own execute. `Tick` advances the clock and lets the valve
reach the servo's signal if the converter is on; `Reboot` starts everything over
except the valve. Since the task handles packets and updates one after the
other, the interleaving is that of whole handlers.

Three fields are history: `manual` tells that the ground moved the servo by its
own service since the regulator last positioned it, `sinceEntry` counts
ticks since a state was entered, and `dark` the ticks in a row that found the
converter off. `updated` tells that an update has run since
the last command or tick; a tick needs it, for the period of the loop
(milliseconds) is short against a tick.

The code has a state, Halfabort, that nothing reaches (section 3). It is
modelled with its entry, so that the lemma that `ERROR_HALFABORT` is never set
is proved and not assumed.

**Telemetry.** `GregTelemetry` adds `saved`, the two gains as the control law
last saved them, and `value`, the status word as the network last got it. Its
next-state relation is the regulator's, with the update's copy and saves.

**Log.** `SetupNoCard`, `SetupLogger` and `SetupHeaderFails` are the outcomes of
`primarysd.setup` and `initializeLoggers`; `LogReadings` is `logReadings`
with `TelemetryLogger::log` inside. An append that throws closes the file, as the
comment in `log` says of libriccore; the `catch` block stops the logger (`appendFails`) and
calls `internalLogCB`, which writes to the system log, a file of the same card, and
so does the raising of `ERROR_SD`. What either of them throws has no handler around the loop
(`thrown`): it ends in "dead", from which only a reset leads. The
run turns the deadlock check off, because with its resets used up a dead firmware really stops.

**File system.** A call of the library runs to its end before anything else
happens, so a call is one action, and inside it every function is an operator
from a call record to the next one; `With`, `then` and `fail` are the code's
sequence and its `goto fail`. The record holds the device, the buffer, the
file objects, and `io`, the number of accesses left before one fails: a failing
access, at any point of a call, leaves the call at the code's own `fail` label
with all that was changed so far. `log` keeps the sectors the call has written,
in their order, from which `PowerCut` takes any prefix. A sector is a few
words: a data sector holds bytes, a table sector entries, a directory sector
entries of the directory, so that a word is what the code treats as a unit.

The cache reads straight into its buffer (`FsCache.cpp:41`), and the driver fills it before
it looks at the block's status and checksum (`SdSpiCard.cpp:376`). A read that fails
therefore leaves the buffer as it was, if no block came, or with other bytes, under
the number of the old sector and clean: `readSector` takes either, by
the field `noise`, which has for each sector the bytes that then stand in the buffer in its place.
A later `prepare` of the old sector takes the buffer as it is. `BufferClean` says
that the buffer has what the device has, unless it is dirty.

`view` is history, the tree of paths with what each file should hold: the
action properties and `FileStore` are said of it, and the invariants compare it
with what the device really holds.

**Card.** A call of the driver is one action as well. Every command, block and
wait is an exchange with a number; a fault is a kind and the exchange it
strikes, and `SdDevice` takes every exchange of every call. The card keeps its
mode, the transfer it is in, and its sectors; a fault decides how long it is busy.
Both sides' checksums are constants of the two modules. `ChecksumAssumption` says that the
driver's agree with the card's and `CardAssumption` that no change of bits in a block keeps
its checksum; `MCSdDevice` computes the tables by `SdCrc`, the driver's by the code's
shifts and the card's by long division, so that TLC checks both assumptions. The
environment takes the card out and puts it back, and calls only after a `begin` that
succeeded.

## 3. Runs

| Run | Instance | States | What it shows |
|---|---|---|---|
| `sweep` | 25 feedback by 12 nitrogen readings | 600 | the control law never turns its sign, and has its valve at the minimum at a full abort |
| `states` | 4 by 2 readings, `WORD` 7, ages up to 10 | 881,292 | aborts, latch, counter and angles agree under every order of commands and updates; the servo is never dark for long and closes the valve in time |
| `network` | with the servo's own service, angles out of range, one reset | 499,604 | the promise `EregLifecycle`, and liveness |
| `report` | telemetry, one reset | 565,278 | what a packet and a status may say, and for how long they may be wrong |
| `telemetry_log` | `WORD` 8, delta 3, clock up to 20, one reset | 722 | spacing of frames, no gap, no append to a file that has failed |
| `fat_files` | two objects, two files, six calls, a card that fills up | 120,068 | sound chains (and with them the hypotheses of the FAT theorems), no cluster lost, what is read is what was written, `FileStore` |
| `fat_tree` | long and short names in the root and one directory, seven calls | 61,907 | everything is listed once and found again, `FileStore` |
| `fat_power` | the loggers' calls, failing accesses, power cuts | 71,582 | sound chains, and what was flushed survives, if the card is mounted anew once a failed read has damaged the buffer |
| `sdcard` | three cards, shared and dedicated SPI, every fault at every exchange | 8,284 | `BlockDevice`, recovery, the chip select, the error code |
| `exfat` | two objects, nine clusters, six calls | 39,983 | the bitmap and the table (and with them the hypotheses of the exFAT theorems), sealed sets, everything found again, `FileStore` |
| `search_ends` | the same with long writes | violated | the first finding |
| `stale_buffer` | as `fat_power`, with the firmware going on after a failure | violated | the second finding |

**Bounds.** Readings are compared with thresholds and with nothing else outside
the control law, so `states` takes one reading from every interval between
them that leads to different code (disconnected, below the setpoint, between half and full abort,
above); `sweep` takes the thresholds themselves and their
neighbours. A tick stands for one to three seconds in the regulator's runs and the
code's times become `BuckPeriod`, `BuckPulse`, `BuckHold` and `BuckExit` in
their order of size (10 s, 1 s, 2 s, 1 s; where the power is not what a run is
about they are shorter); `WORD` is larger than twice the
longest of them, as in the code, and small enough for the wrap to fall at every
point of every interval. `AgeCap` 10 lies above every age a property
compares with (`CloseBound` is 7, and `DarkBounded` goes up to 8). One reset reaches every state from which a reset can come, for
what it leaves is the same whatever came before, but for the valve.
`TelemetryLog`'s clock passes two wraps of the stored time. The pressurising
angle is raised by a member of `PressAngleArgs` only.

The FAT card has four clusters (the root's and three more) of two sectors of
two words: a file of three bytes crosses a sector, one of five a cluster, two
files fill the card, and a directory or a name of two parts crosses a sector
and a cluster. Six calls open, write, move, write again, truncate or remove,
close; the tree needs a seventh for the name that comes after a removal. In
`fat_power` the first, second or fourth access of a call or none fails, a read with the buffer as it
was, full of zeros or full of ones (in a sector of the table free entries or ends of chains, in a directory
its end or removed entries), and the power is cut after any write of the call. Its
two objects are alike but for the bytes they write: `MCAlike` exchanges both at once. The exFAT card has nine clusters, of
which the bitmap takes three, for it spans sectors that way, and the root one; five
are enough for a file in a row, a second one in its way, and the change from a
row to a chain. The SD card has two sectors of two bytes, because the driver
distinguishes a sector from the next one and no more; its clock ranges over 64
values and stands at 62 when a call begins, so that every wait meets the wrap. An SD1 card of
the run does not obey a command amid a transfer. Its `VIEW` leaves `last` out
of a state's identity: no step depends on it, and the action properties
look at its new value alone.

`CHECK_DEADLOCK FALSE` stands where a bound ends the run: `MaxCalls`
used up, or the firmware dead with its resets used up.

**Fairness** (`NRCGreg` only, `FairSpec`). `[]<>updated` says that the loop task runs for
ever, which the `for(;;)` of `loopTask` and its `vTaskDelay(1)` justify, and
`SF_vars(Tick)` that commands cannot hold back the clock. Nothing is assumed of the operator,
of the network or of resets: a disarmed regulator returns to
Default unless it is armed again, and a closed state gets its valve closed
unless it is left.

**Findings.** `search_ends`: `bitmapFind` (`ExFatPartition.cpp:62`) remembers
where its search began and stops when it is there again, after raising the
position. A search that began at bit 0 never is: at the end of the bitmap it
goes back to 0 without comparing. With no free run of the length asked for, it
loops for ever, where line 29 says "return 0 if error, 1 if no space, else start
cluster". The firmware logs through this call from the loop that runs the
regulator: a log that fills an exFAT card stops the regulator, and the next
start stops too, for mounting looks for the first free cluster from 0 (line 320). A card of
more than 32 GB comes formatted with exFAT.

`stale_buffer`: after a failed read `prepare` returns with `m_sector` unchanged
and other bytes in the buffer (above). The next `prepare` of the sector that
was there hands these out for it, where `FsCache.h:155` promises the "Address of cached
sector": read, they are wrong table entries or a wrong directory; changed, they are written back. A driver that
called `invalidate` before the read, as `cacheSafeWrite` does before a write, would not be
exposed. The firmware goes on after an error and never mounts the card anew, so `FirmwareSpec` is what
it does, and the run shows `prepare` handing out a damaged sector. Nothing can be said of
what follows such a moment: `PowerSpec` therefore lets no call begin on a damaged buffer but mounts
the card again (`MountAgain`). Without that guard TLC refutes both `ChainsSound` and `SyncedSurvives`.

**What the sources say and the code does not do.** Met while modelling; no property
of a passing run says otherwise.

- Regulator. With the nitrogen at 1 bar or less `Kp` returns the bound of the
  feed-forward angle, 57, where the comment says that bounds are set on the gain
  (`ncrgreg.cpp:82`, 89). Both overpressure checks are handed the critical flag, so that a
  pressure between the thresholds shuts down and never half aborts (line 150, against
  `nrcgreg.h:160`, "Above this value, a half abort will be triggered"): no half abort is
  ever triggered, and `UpdateCloses` says of such a pressure only that it ends Controlled. Disconnects are counted and the count is read by nothing (line
  197, against `gregtypes.h:26`); Controlled goes on with the reading of a
  disconnected transducer, which looks like an empty tank, and holds the valve
  wide open. Shutdown commands the servo closed and does not switch its power on
  (`shutdown.cpp:29`); `ClosesInTime` says how long the valve may stay open. The
  first periodic pulse replaces the "never" of an active state by the end of the
  pulse (`ncrgreg.cpp:42`), after which a servo moves only in pulses;
  `DarkBounded` says how far apart. A stored time that wraps is smaller than the
  clock, and the next look switches off again what was just switched on (line 48):
  a pulse that begins just before the wrap is lost. The converter's limits are volts, its
  readings millivolts (`SiC43x.h:85`, `adc_vrailmonitor.h:24`), in an `update` that nothing calls.
- FAT. `freeChain` moves the search start one cluster short (`FatPartition.cpp:317`), so
  that a preallocation may fail with room left. A loss of power between a sector of
  the table and its copy leaves the copy stale, and nothing repairs it: the library never reads
  the copy (`FsCache.cpp:64` writes it only). A write that fails leaves
  position and clusters ahead of the size: a retry leaves a gap
  (`FatFile.cpp:1388`) and a read goes past the end (line 783, against
  `FatFile.h:726`). `remove` frees a chain before the entry that leads to it
  (`FatFileLFN.cpp:517`), and `truncate` does the same; a loss of power between
  leaves an entry on free clusters. `rename` has two entries on one chain for a
  moment. An orphan of a long name stays after a power cut between its
  sectors. A read that fails while a name is compared counts as a name that
  differs (line 62), after which a file may be created twice. A `mkdir` that fails late
  leaves an empty file, which `FileStore` allows as `ALeftover`.
- exFAT. After a write that failed, `dataLength` is behind the clusters the file
  has (`ExFatFileWrite.cpp:260`, 631), and remove and truncate clear the wrong
  bits. `sync` clears its dirty mark before it knows that the set was written
  (line 372). `mkdir` stores a set with a length and no cluster (line 206), and
  `remove` frees clusters before the set goes (line 258). `bitmapFind`
  takes a volume for full whose only run lies across the bit at which the
  search started (`ExFatPartition.cpp:62`).

## 4. Proofs

TLAPS checks 47 theorems and their lemmas in six modules of proofs, from the named ASSUMEs
of the modules they are about, for every value of the constants.

| Module | Theorems |
|---|---|
| `NRCGreg_proofs` | invariants `TypesCorrect`, `FlagsFollowState`, `CounterExact`, `ClosedStatesSafe`, `ActiveStatesArmed`, `TripCloses`, `ControlledStaysLimited`; action properties `UpdatesClose`, `ShutdownHolds`, `ActiveOnlyFromDefault`, `TripHolds`, `TrippedHoldsValve`; the refinement `RegulatorKeepsLifecycle`; of the power `DarknessBounded`, `ClosingBounded`; of the telemetry `PacketsExplain`, `ReportsConservative`, `ImpossibleReportsEnd` |
| `GregSweep_proofs` | `FeedbackNegative`, `NitrogenCompensated`, `AbortFindsMinimum` |
| `TelemetryLog_proofs` | `LogTypes`, `NoGaps`, `FramesAreSpaced`, `LoggerStops`, `ErrorsFlagged` |
| `SdDevice_proofs` | `DriverAndCardInStep`, `AddressesAlwaysAgree`, `ChipAlwaysReleased`, `FailuresFlagged`, `CardAlwaysRecovers`, the refinement `DriverIsBlockDevice` |
| `FatTable_proofs` | `ClusterAllocated`, `RunAllocated`, `ChainFreed`, `ReadAround`, `WrittenAround`, `WrittenInBuffer`, `MountedAgain`, `TableStaysSound` |
| `ExFatTable_proofs` | `BitsModified`, `RunFound`, `FullSearchEnds`, `RunTaken`, `ChainCleared`, `TakenIsLoose`, `VolumeStaysSound` |

**Assumptions.** `GregControl`, `RegServo`, `BuckPower` and `NRCGreg` assume ranges
of the constants and the order of the thresholds. `BuckAssumption` has the
pulse and the holds shorter than the period (1 and 2 s against 10 s), and two
periods shorter than the clock's range. `TuningAssumption` of `GregSweep`
is what the constants of `nrcgreg.h` satisfy: the curves fall (`FF_Alpha` and
`Kp_Beta` are not negative), the bound on the gain is not above that of the
feed-forward angle, which `Kp` returns for exhausted nitrogen, and a tenth of a bar
above the full abort the smallest gain has taken the largest angle below
the minimum. `CardAssumption` and `ChecksumAssumption` are described in section
2; `ClockAssumption` has twice each timeout within the range of the 16 bit clock
(at most 2 s of 65 s), and `DeviceAssumption` gives the types of cards, faults
and runs. `SectorAssumption` and `TableAssumption` say that a FAT volume has a
cluster, and a table with an entry for each; that of `ExFatTable` says that the bitmap and
the root directory fit on the volume, and that the bitmap's clusters have bits to spare
(`bitmapModify` with a count of 0 runs into them). TLC evaluates them all in the runs.

**The regulator.** The inductive invariant is `Inv == TypeOK /\
GoodBoard(greg) /\ TrippedMeansClosed /\ LawFollowed`. `GoodBoard` says of the board that its flag word holds the
flag of its state alone, that `ERROR_HALFABORT` is not among its flags, that the
counter equals the number of disconnect flags, and that the servo follows the
state. None is inductive by itself: the
guards read the flags, so the states need `StateFlagIsState`; the checks could
enter Halfabort, where the servo is neither closed nor armed, without the
second; the counter would wrap without the third; and an active state with
the latch set is excluded after an update only, since a command can enter it.
`LawFollowed` says that a Controlled board after its update is at the angle of
the law for the readings of that update, from which `ControlledLimited` and the
packet follow.
The lemmas go through the code from the bottom: what `buckOn`, `buckOff`,
`buckManager` and the servo keep of a board, what leaving and entering a state
do (`LeaveKeeps`, `EnterKeeps`, `ChangeStateGood`), what the checks keep
(`CheckFlagsGood`, `CheckPressuresGood`), then `update` (`UpdateGood`) and each
command, and `StepInv` joins them. The refinement has one lemma per abstract
action (`SuperviseStep`, `ActivateStep`, `LockStep`, `TakeOverStep`, `MoveStep`,
`ResetStep`).

**Power.** Whatever a state does to the power is a sequence of `buckOn`, `buckOff` with
one of three times, and the manager's look (`Moves`). `PowerInv` ties the ages to the
clock value of the last switch-on: it is never more than a period and a tick
ago (`PeriodKept`); unless it lies closer to the wrap than the longest hold
(`NearWrap`), the power it switched on is still on at the same clock value
(`Fresh`), so that the next tick moves the servo; and from there the ages count
(`DarkKept`, `ClosingKept`). A switch-on near the wrap may be lost, but the one
after it, a period later, is not near the wrap. The first statement of these
bounds was one period, which TLC refuted at the wrap; it is now part of `DarkBounded` away from it.

**Telemetry.** `ReportRefines` says that each step with the two channels is a step
of the regulator, so that `Inv` and the theorems above hold there; the copies
need no more than that an update of a regulator that is closed leaves it so, and
one that has tripped, tripped.

**Control law.** The quotients of the curves fall with the nitrogen pressure
(`DivisorAntitone`), their bounds and the step at exhausted nitrogen keep the
order (`CurvesBounded` and the lemmas after it), and the sum in thousandths, its division and the
limits are monotone. The theorems hold of all integers as readings, which the
lemmas are about; the sweep's steps only choose the pairs.

**The log.**
`TelemetryLog_proofs` has one invariant, `LogInv`, which adds to the properties
that the stored time is the last frame's
modulo `WORD`, hence never larger (which gives `NoGap` on both sides of a wrap)
and equal before the first wrap (which gives `FramesSpaced`); that nothing has
happened yet in setup; and that the flag always has a cause.
That a stopped logger stays so, and its file closed, whatever the catch block throws, is
`LoggerStops`.

**The SD card driver.** The inductive invariant of `SdDevice` is `Inv == TypeOK /\
ChecksumsOn /\ TransferAgrees /\ ChipReleased /\ AddressesAgree`. A card past its
start compares checksums, so that a damaged command is never obeyed for another
one (`SentGood`); the transfer the driver takes for open is the card's, at the
sector the driver has in `m_curSector`, so that a read or write may go on with it; and
the addresses agree once a `begin` has succeeded, because the card of high
capacity has answered ACMD41 only to a host that took the card for version 2,
and a `begin` that cannot read such a card's register fails.
The first part of `SdDevice_proofs` goes through the driver function by function. `Kept(s, t)` is
what every function keeps, `Stays(s, t)` what those keep that do not start the card over, and
each function has a predicate for what else comes of it (`CardCommandWell`,
`ReadWell`, `TokenWell` and so on), stated of the call's state whatever the
fault is and wherever it strikes. On top, a call that begins `Usable` ends
`Served`, `Quiet` if it wrote nothing and `Wrote(s, sector, blocks, t)` if it
did; the second part turns these into steps of `BlockDevice`. The loops of the driver
(attempts, blocks of a run) are recursive functions; that they are
defined and keep what their body keeps is proved once, in `Loops`, from the smallest
counterexample (`LoopDefined`, `LoopKeepsAt`, `LoopRuns`), and the arithmetic of the clock
from the remainder lemmas (`RemainderOf`, `ClockOn`, `TimesOut`).
`CardAlwaysRecovers` says that `begin` and a read succeed, which needs more than
what a loop keeps: `Patient(s)` is a call on a card in its slot with no fault but
slowness, and the `Patient` lemmas go through the driver a second time. Every wait
of such a call ends in time, because no moment before the end of a timeout looks like one
behind it on a clock that wraps (`InTime`, from `ClockAssumption`), and the first attempt
of every loop is answered as it hopes (`FirstAttempt`).

**The FAT table.** The theorems of `FatTable_proofs` are about one call on a volume of
any size. `Safe(d0, Ts)` is the set of calls, begun on the device `d0`, of which five things
hold: the types; `BufferGood`, the buffer is marked for the copy exactly when it is of the table,
and is what the device has unless it is dirty, as long as nothing has failed; `CopyGood`, the copy is the
table but for what the buffer has to write (and where it was stale in `d0`);
`Cuts`, after any number of the writes so far the table on the device is one of
`Ts`; and so is the table as the library sees it. With `SoundTables`, those of which `IsSound` holds,
for `Ts`, this is the inductive invariant. The functions begin in such a call in which
nothing has failed; where an access fails in them, the result is one of `Safe` as well, which
then says nothing of a clean buffer: its bytes are those that the failed read left. `IsSound` says
that no two entries lead to the same cluster and none to a free one. `Cuts` is what
an order of writes means: allocation marks the new cluster before the chain leads to
it (`MarkedSound`, `LinkedSound`), a row is linked from its end
(`RowSound`: a row that is linked from any of its clusters on is sound), and a chain
is freed from its head (`CutGoesOn`: what is left begins with a head). The
lemmas `syncSafe`, `prepareSafe`, `fatGetSafe` and `fatPutSafe` say once for the
cache and for single entries that a safe call stays one, so that the theorems only
have to say which tables their functions go through.

`ChainFreed` also says that one pass frees the whole chain. The chain of a head,
`Chain(T, head)`, is the smallest set that is closed under the table; the clusters
freed so far and the rest of the chain are disjoint (`Cut`), each turn adds one to the former,
and there are `LastCluster - 1` clusters, so that the loop's bound is
never reached with an entry left. A sound table cannot be cyclic behind a head, which
is why heads, not members of a cycle, are what may be freed.

`MountedAgain` and `CallBegins` close the circle: after a loss of power at any
write, the next call is again one of `Safe`, now from the device it
finds. `UseSpec` puts the functions together, as the layers above do: calls begin, functions
of the table and of the cache follow each other in any order, data goes through
the buffer and around it, and the power may be lost after any write. It demands three things of
those layers: they free chains by their heads; they go on after a failure inside a call only
if the buffer is clean; and no call begins on a buffer that is not, but the card is mounted again
first. The last is not what this firmware does (section 3), so `TableStaysSound` speaks of it up to
the first read that damages the buffer.
`TableStaysSound` is its invariant. That the hypotheses hold of the volume in use
is what the runs check: `ChainsSound` says of every state between two calls that
its table is sound on the device and as seen, that the
buffer is good, and that every entry of a directory leads to a head.

**The exFAT bitmap and table.** The theorems of `ExFatTable_proofs` are about calls on a
volume of any size, whose card may fail any access: up to the first one that fails,
and of what that one leaves on the device. Everything is said of `Seen(v)`, the
device as the library sees it through the buffer, and every change of it is a
`Put(d, X, x)`: the words at the places `X` become `x`, and no others change. Since no
two bits lie in one place, no two entries, and no bit where an entry is (`PlacesApart`), what a call
does is a `Put` over the places of its bits (`Places`), of its entries (`Entries`), or over
both, and the lemmas on `Put` (`PutPut`, `PutApart`, `PutBits`, `PutEntries`) say
how they add up and what then is in the bitmap and in the table.
A call that fails is not excluded: `v.io` counts the accesses that still succeed, each lemma bounds
how many its function needs (two for a word: the dirty sector out, the other one in), and so
each theorem says that with accesses enough (`2 * ClusterCount` for a search, `2 * count` for a run
of bits, `6 * n` for a chain of `n`) the call fails for no reason but the stated one.

`RunFound` rests on the invariant of the search, `SoFar`: the bits from `bgn` on
are clear and too few, the one before is set, and there is no run that ends before the bit
looked at; `lookAtIs` goes through the five ways out of a round. What it finds is the
first run from the start on, or else the first before it. It finds no run that lies
across the start (`NoRun` is of both sides): that is what the code does, not what its
comment says. `FullSearchEnds` is the finding for every volume: a search without success
ends if and only if it does not start at 0.

`ChainCleared` has `Cleared(d, ch, i, j)`, the device with the first `i` clusters of the chain out of
the table and the first `j` of them out of the bitmap. A round takes out an entry, and,
where the chain jumps or ends, the bits of the run it was in (`InRun`: where it began, and how
many accesses have gone); so `j` is never ahead of `i`, wherever the call fails. That the bits of a
chain are set, which is a hypothesis (`IsChain`), is what the run checks as `BitmapExact`.

`TableSound` says what the table promises by itself: a cluster that has an entry, or that an
entry leads to, is marked, and no two entries lead to the same one. It says so of bits and
entries alone (`SoundIs`), so one lemma for each kind of `Put` is enough: setting bits keeps it
(`MarkedSound`), so does clearing bits of clusters that no chain is on or leads to
(`UnmarkedSound`, `Loose`), making an entry the end of its chain or leading it to a
cluster that no other one leads to (`LinkedSound`, `MayLead`), and taking a chain away from
its head, however far that gets (`ClearedSound`: the one before a cluster of the
chain, which is the only one that leads to it, has left the table when its bit is
cleared). Sectors that have neither bits nor entries change nothing of it
(`DataApart`), and around the buffer that is true because `cacheSafeWrite` drops the buffer only
when it has one of the sectors written. `UseSpec` puts the functions together in any order, and
`VolumeStaysSound` is its invariant; its demands on the layers above are the hypotheses
of these lemmas, and that nothing follows on a buffer that a failed read has damaged. There is no
remount in this `UseSpec`. `TakenIsLoose` is what it is good for: the run that a new file gets, which was
only looked up in the bitmap, is on no chain of the table. `BitmapExact` has
`TableSound` as its first part, for the volume in use, whose layers do what is
demanded of them as long as a file that could not be written is left alone.

**Theorems that are not among the runs' properties.**
The type invariants, `StateFlagIsState`, `ClosedStatesClose`,
`ActiveStatesDrive`, `ShutdownHeld`, `ActiveFromDefault`, `TripLatched`,
`CardErrorFlagged` and the invariant of `DriverAndCardInStep`:
a proof for all constants leaves nothing for a small instance
to add. The theorems about the two tables are of functions inside a call, of which the
runs see the ends.

**Model-checked only.** Liveness (`DisarmReturns`, `ClosedEventually`), which the
prover does not reach. `SdCrc`, which is bitwise: that its checksums are the card's is checked on
the sectors of the run, and every command with every argument of the run. Files and
directories, FAT and exFAT (`ChainsSound`, `NoneLost`, `ReadsBack`, `ListComplete`,
`FoundAgain`, `SyncedSurvives`, `BitmapExact`, `SetsSealed`, `IsFileStore`): their modules follow
names, entries and data by RECURSIVE operators, which take a module out of the
prover's reach, and what a search through a directory finds would be an induction
over data. What the FAT theorems leave open: that `findRun` finds a row
whenever there is one (it does not, it begins at the search start; it is proved that what
it finds is free), that no cluster is lost when nothing fails (`NoneLost`, a
matter of who keeps the heads), and the copy of the table, of which no more is
claimed than `CopyGood` says. What the exFAT theorems leave open: files in a row, of
which only the sets of the directories know (`BitmapExact` relates the bitmap to what these lead
to), and a loss of power.

## 5. Abstractions, and what is not modelled

- Floats are integers in the units above; the angles of the model differ from
  the code's by rounding, less than a tenth of a degree.
- librrc, libriccore and librnp are not in the repository: arming, the dispatch of
  commands, the state machine's `changeState` and the servo's limits are
  modelled from how this code uses them, and marked external. So is the SD card.
- Readings change freely from update to update, so disconnects of either or both
  transducers are covered; a servo that does not follow its signal while
  powered is not.
- Not modelled of the firmware: the text of log frames, pins and SPI set-up, the
  drivers of the thermocouples and of the ADC, the converter's driver but for `setEN` and the rail
  monitor under it (nothing calls them), the Idle state (it enables one
  command and is never left), the calibration commands (librrc's), and the order in which
  libriccore destroys files.
- FAT: FAT32 only; no attributes, timestamps, renaming of directories, `rmRfStar`,
  `fgets`, `dirSize`, count of free clusters. A sector is written whole or not at
  all, and a write that fails has not taken effect. A read that fails leaves in a clean buffer the
  bytes it had, zeros or ones; a read damaged halfway is not among them. Reads around the buffer that fail leave no
  bytes that the program uses. Directory growth is in `fat_tree` only, without failures or cuts. The comparison of long names goes on
  after a failed read (`FatFileLFN.cpp:56`), which the names of `fat_power` do not reach. Names are values with an
  order of their parts; the number of a shortened name comes from a clock in the
  code and is unique here. The program opens a path once at a time, does not
  remove what is open, and (`Careful`) does not read on behind an end that a
  failed write has moved.
- exFAT: a set's checksum is the entries it was computed over; a name is its parts
  and a hash; the up-case table and the limit on a directory's size are left
  out; between the writes of one call a cluster that a directory has just been given
  and not yet cleared is looked at as if it were empty (`UnsealedAt`; what is in it then is among the
  hazards), and `SetsSealed` allows one set at a time to be without its sum inside a call, for `syncDir` and the
  creation of a set write two sectors; the card works, and a file that could not be written because
  the card is full is left alone after its close.
- SD: error codes but for "none" and the first cause are one; the clock is scaled;
  the erase unit is a sector. A response that is damaged counts as none, and a
  block's bytes are never taken for a response.
- As built (`platformio.ini:35`): SPI with checksums (`USE_SD_CRC=1`), no waiting for the card
  to finish writing (`CHECK_FLASH_PROGRAMMING=0`), shared SPI (`system.cpp:37`), and one
  buffer for table, bitmap and data (`SdFatConfig.h:372`: two only on ARM). `sdcard`
  checks dedicated SPI as well.
- Not modelled of SdFat, more than half of the repository's lines: examples, the
  Teensy SDIO driver, SPI drivers of other boards, streams, number formatting, serial ports,
  formatters. The firmware runs none of them, and they keep no state that the
  parts modelled here would share.

## 6. Plan

1. **Proofs** that come next: the files of `FatFile` without RECURSIVE
   operators, so that `ChainsSound` can be proved of whole calls from the theorems about
   the table; and what `EregLifecycle`, `FileStore` and `BlockDevice`
   imply, so that it holds of whatever implements them.
2. **Card**: failing accesses and power cuts on exFAT, once it is settled what
   the environment then promises to leave alone; directories that grow in `fat_power`.
3. **Cache**: with a `prepare` that invalidates before it reads, the guard of
   `PowerNext` and the restrictions of both `UseSpec` can go.
