# TLA+ verification of the e-puck2 firmware

TLA+ models of the firmware of the e-puck2 robot (ChibiOS/RT on an STM32F407),
the TLC runs that check them, and TLAPS proofs about them. `PROJECT.json` lists
components, runs, mutants, hazards and theorems and gives, for every definition,
the source lines it models.

    tlc -config ConfigPower.cfg MCConfigFlash     # a run
    tlapm ConfigFlashProofs.tla                   # the proofs of a module

## Inventory

| part | source | state | operations | hard behaviour | what makes it correct |
|---|---|---|---|---|---|
| settings in flash | `config_flash_storage.c`, `flash/flash.c`, shell and Aseba commands | one 128 kB sector: a chain of checksummed blocks | save, load, erase, load at boot | power loss between any two flash writes or inside an erase, full sector, unsigned sizes, two callers | a saved tree survives until the next save or erase; a save is answered truthfully; a save ends |
| flash driver | `flash/flash.c` | the chip, the lock bit | sector number of an address, erase, program | programming only clears bits; sectors of different sizes | only the sector that was meant is erased |
| wheel control | `motor_controller.c`, `motor_pid_thread.c` | per wheel: mode, setpoints, ramp, divider counters | set mode, set targets, one period of three cascaded loops | loops of different rates, mode switches in flight | limits hold, no loop acts on an old setpoint, the ramp comes to its target |
| wheel encoders | `sensors/encoder.c` | 16-bit timers, 32-bit totals | sampling | wrap-around in both directions | no tick is lost |
| audio driver | `audio/audio_dac.c`, `audio_wav.c` | circular buffer, DMA, semaphore, interrupt handler | convert a file, four interrupt handlers | thread and interrupts race for the halves of the buffer | files are played completely, every sound ends |
| sound requests | `audio/audio_thread.c`, `cmd.c`, `skel_user.c` | request and result topics | play (shell), sound.play (Aseba), results as events | topics keep one value; threads of different priorities | a request gets its own result |
| Aseba events | `aseba_vm/aseba_node.c`, `skel_user.c` | event bits, VM flags | event threads, timer, VM loop | events coalesce, bits are set while others are taken | no measurement goes unnoticed |
| Aseba variables | `aseba_vm/skel_user.c` | variables, their copy, the system's setpoints, LEDs, parameters | copy in, run, write back what changed, reset | other threads change the system in between | the VM only writes what the script changed |
| Aseba bytecode | `aseba_vm/aseba_node.c` | a flash sector: size and program | save, load at boot | power loss at any byte | flash never mixes programs, boot restores a complete save |
| proximity, battery | `sensors/proximity.c`, `battery_level.c`, `battery_protection.c` | two ADCs, their mutexes, a timer, semaphores | measure, publish, cut off | two threads share an ADC; compare value takes effect later | values belong to their measurement, a low battery cuts off |
| motor bridge | `motor_pwm.c` | widths of two phases per motor | set a duty cycle, in two writes | control loop and VM thread set the same bridge without a lock | both phases drive only by way of a call cut in two |
| body LEDs, range sensor, IMU | `body_leds.c`, `sensors/range.c`, `vl6180x/`, `imu.c`, `mpu60X0.c`, `exti.c` | LED topics, sensor registers, listener list | LED thread, measuring loop, interrupt and read | one I2C bus, held through a measurement; lost transfers; start order | a range is new, brightness arrives, the IMU never falls silent |
| SD card, disk layer | `sdcard.c`, `fatfs_diskio.c` | driver, mount flag, FatFs volume object | automount every second, reads of the audio thread | the card goes or is exchanged in the middle of a call; FatFs is built without locks | a sound is from one card, a card gets mounted, a request ends |
| FatFs, data of a file | `fatfs/src/ff.c` | file object, sector cache, cluster chain | f_read, f_write, f_lseek, f_truncate, f_sync, f_close, f_open | cluster and sector boundaries, direct transfers past the cache, full disk, disk errors | a file is a sequence of bytes; other files are untouched |
| FatFs, volume | `fatfs/src/ff.c` | FAT, root directory, FSINFO, one-sector window | f_open, f_write, f_sync, f_unlink, f_mkdir, f_rename, f_getfree | power loss between any two accesses to the card | a name keeps its content, chains do not meet, the free count is exact |
| motor current | `sensors/motor_current.c` | last sample | interrupt, read | none | not modelled |
| boot, shell, USB, CAN | `main.c`, `cmd.c`, `usbconf.c`, `aseba_can_interface.c` | threads | start, commands | start order, full queues | where the parts above use them |

Parts talk over the message bus (a topic holds its last value; a wait returns
with the next publication), the parameter tree, semaphores, mutexes and events.
Shell, sensor and event threads run at NORMALPRIO, the Aseba VM and the audio
thread at LOWPRIO; there is one core and no time slicing.

## Modules

`*Proofs` modules hold the theorems, `MC*` modules the constants of the runs.
`MCFlashSharing`, `MCSensors`, `MCEventsAndSounds`, `MCAsebaVariables` and
`MCFatFile` put two or three models into one run: a variable `part` chooses in the
initial state which of them takes its steps, with all of its own behaviours and its
own fairness; the others stay where they start. They share no state, except that
bytecode and settings share the lock of the flash: the thread that saves bytecode is
the one that saves settings for Aseba, and what a command of the shell does to its
lock is an action of `AsebaBytecode` (`ShellCommand`). `FatFile` and `FatVolume` are
two views of FatFs: data with disk errors, structure with power losses. The properties
of the instances are repeated there under their own names.

**ConfigBlock, ConfigFlash, SettingsStore.** `ConfigBlock` has the layout of a
block and the checks on it; `ConfigFlash` saves, loads and erases, one action per
flash write and per iteration of a scan. `pc`, `block`, `dst`, `size` and `index`
are the program counter and the locals of `config_save` and `cmp_flash_writer`.
Both callers read the settings back after a save; that is part of the model.
`Crash` is a power loss at any step; inside an erase it leaves part of the sector
erased. `SettingsStore` is the abstract specification: one tree or none, a save
commits in one step and may drop the old tree first. `ConfigFlash!Store` maps
the sector to the tree the next load would find.
A flash word is the set of values programmed into it since the last erase: `{}`
is erased, a larger set reads as the AND of its members. Checksums are symbolic
(no collisions) and the unit is one word, so a header is 3 words, of which the third
is read only if the first two are intact (`PREFIX`). The sector is the last one of the
chip: an access behind it is a fault. The parameter tree and
MessagePack are external: intact data parses to the saved tree, altered data may
be rejected or give a corrupt tree.

**ConfigPreempt.** ConfigFlash with two callers: the VM thread (LOWPRIO) is
suspended between any two steps of its save or erase, any number of shell
commands run to their end, and it goes on with its locals (`frame`) on a flash, a
lock and a parameter tree that are no longer what it saw.

**FlashSector.** `flash_addr_to_sector` on pages of 4 kB. `AsebaBytecode` extends
it and erases the sector of the page it is given.

**MotorController.** One wheel: its `motor_controller_t` (`c`), the latest
message, the encoder report. One `Period` is one iteration of `motor_pid_thd`
with all three stages of `motor_controller_process`. The arithmetic is exact:
velocity changes instead of accelerations, comparisons multiplied out. The PID
filters are a library; their outputs are arbitrary. A divider counter is capped
at its divider, which is all the code compares it with.

**Encoder.** One wheel: the timer, the sampling thread, the total. `travel` is
what the wheel really did.

**AudioDac.** The thread of `audio_dac_convert` and the four interrupt handlers,
with the file in pieces of half a buffer. `late` records that an interrupt came
before the thread was waiting for it, `heard` what was converted. `Stop` is the call
of `dacStop`: while the DAC converts, an assertion of the driver halts the robot.

**AudioPlay.** Audio thread, shell, `sound.play`, and the thread that turns
results into Aseba events. A LOWPRIO thread only steps when no other can. A topic has
one buffer: a publication makes the audio thread ready, and what is in the buffer when
that thread runs is what it plays. `taken` records that a request woke it, `replaced`
that another one was written over it before it ran.

**AsebaEvents.** `events_flags`, the event threads with the two points at which
they can be preempted, the timer, and the loop of `aseba_vm_thd` with the two
critical sections of taking an event, stepping and remote events. The bytecode
interpreter is external.

**AsebaVariables.** One turn of the VM thread in ten steps, other threads in
between. Values are in thousandths; `Thousandths` models the conversion to a
sint16 through a float (`Lossy` are the numbers that lose a digit). A message
read before the first publication is any member of `Garbage`. Setting a duty
cycle is one step here.

**MotorPwm.** The bridges of both motors. The VM's call is two writes, a period
of the control loop comes anywhere between them. Duty cycles are in percent.

**AsebaBytecode.** The save byte by byte and the load at boot, with power loss and
commands of the shell everywhere: a command that saves or erases the settings leaves
the flash locked, and what is left of the save has no effect. A byte is abstracted to
the program it comes from.

**AdcSensors.** The proximity thread, the battery thread, both ADC callbacks, the
timer with its preloaded compare value, the protection thread. Averages are
abstracted to the set of points at which the samples were taken.

**Peripherals.** `main()` from `body_leds_start` to its first sleep, the LED, range
and IMU threads, which all have the same priority and run until they wait (the
time quantum is 0, so the ready list is a queue), the I2C mutex and the drivers'
interrupts. A transfer may fail; the threads ignore it as the code does, and a
failed read returns either bit.

**SdCard.** The main thread's automount against the audio thread, which opens,
reads and closes a file with every transfer in four steps (state check, the driver's
assertion, start, end). `slot` is the card in the slot, `linked` whether the driver
talks to it. Cards differ in layout (with or without a partition table). `used`
collects the cards from which the sound's geometry, directory, FAT and data came. A
read may fail half way (`TornReads`) and leave data of its card in the window under
the old sector number (`win.torn`); a FAT entry from such a window may be no link. A
directory is one sector: that a search ends whose FAT sectors come from such a window
is not shown.

**ByteFile, FatFile.** `FatFile` follows the loops of the data path step by step:
a sector cache in the file object, direct transfers of whole sectors, chains of
clusters, a full disk, and disk errors in every call, `f_sync` and `f_close` included. The
FAT is read and written in place; an access that would move the window may fail so that it
leaves foreign data there (`torn`), and what the calls after that do is not modelled. The
volume starts with any first clusters
for the file (`FirstChains`) next to those of other files (`Taken`). `ByteFile` is the abstract
specification: bytes and a position; `IsByteFile` is the refinement, whose mapping
reads the file through its chain and cache.

**FatVolume.** The root directory, the FAT and FSINFO sector by sector. A call is
the sequence of its accesses (read into the window, change the window, flush,
write data), computed from what FatFs sees when it starts and worked off one
access per step; power may fail between any two. `may` holds what each name may
stand for if power fails now, `renaming`, `cut` and `broken` mark the exceptions
listed below.

## Runs

| run | module | checks |
|---|---|---|
| `config_clean` | MCConfigFlash | no power loss: the code implements `SettingsStore` (`RefinesStore`, with its liveness), so an answered save is the tree that was in RAM and the one the next load finds |
| `config_power` | MCConfigFlash | one power loss anywhere, two callers, a sector that fills up: writing never damages a saved block (`AppendOnly`), a save from an erased sector succeeds (`ErasedSaveSucceeds`), every save ends (`SaveTerminates`), the sector is left only in the two ways listed below, and with two words left behind the chain it is erased instead (`FaultsAtTheEdge`) |
| `config_torn` | MCConfigFlash | violation: a block with matching checksums and altered data |
| `motor` | MCMotor | mode switches and targets changed in flight: `VelocityBounded`, `NoStaleSetpoint`, `StaysNear` |
| `motor_acceleration` | MCMotor | violation: the velocity ramp exceeds the acceleration limit |
| `sensors` | MCSensors | encoders: the total is the distance travelled (`Odometry`); ADCs: `FreshValues`, `AtPosition`, `CutsOff`; I2C bus and IMU: `RangeFresh`, `LedsFollow`, `ImuAlive` |
| `events_and_sounds` | MCEventsAndSounds | `NoLostEvent`: a measurement that no handler has worked on has its event on the way; complete sounds when the thread keeps up, and no halt in `dacStop` (`AllHeard`); also when it is late the end of the file is converted last (`TailIsEnd`), and every sound ends or halts the robot (`PlayEnds`); requests: `NoMissedResult`, `ReplyMatches` with the one replacement that is possible, `PlayReturns` |
| `aseba_variables` | MCAsebaVariables | `NoInterference`: the VM thread changes only what the script changed; the bridge: `CrossedBySplit` |
| `flash_sharing` | MCFlashSharing | bytecode, with power losses and commands of the shell during its save: `NeverMixed`, `BootRestores`, `ErasesItsSector`; two savers: `SavedBlocksKept`, `ReadBackUnlessChanged` |
| `sd_card` | MCSdCard | cards inserted, removed and exchanged at any step, reads that fail, also half way: `OneCard`, `HaltsOnRemoval`, `GetsMounted`, `RequestEnds` |
| `sd_window` | MCSdCard | violation: after a transfer that failed half way, the next call finds the sector it wants in the window by its number, with data of another sector in it |
| `fat_file` | MCFatFile | file data: `IsByteFile` and no lost cluster until an access fails, other files untouched until one tears the window (`ClustersKept`); volume with a power loss: `Found`, `NoCrossLinks`, `FreeExact` |

Every property of a passing run has a mutant: a changed definition, next to the
original, under which TLC finds the property violated. The types of `ConfigFlash`
and `MotorController` are invariants of their own; those of `AudioDac`, `AdcSensors`,
`Peripherals`, `MotorPwm`, `SdCard` and `FatFile` are a conjunct of an invariant of
their run; those of `AsebaEvents` are proved.

### Bounds

- Config: 16 words hold two blocks of 6 to 8 words, so the sector fills up, a tree
  fails to fit, and the chain can end 4, 2 or no words before the end: more than a
  header, only a checksum and a length, nothing (`WordsToTheEnd`). 17 words leave a
  torn save room for the next one. One power loss is enough to leave remains behind a valid block or
  none; the proofs have no such bound. `Mod` = 64 stands for 2^32, far above any
  size. The Aseba caller passes 8 words (`config_power`) or 7 (`flash_sharing`), enough
  for every tree and less than two blocks. Erases are cut at every cell, from either end.
- Two savers: 13 words hold two blocks of two data words, or a longer one, and the
  header behind them; two trees of the same length that differ in both words show
  a torn tree, the third is longer. With 12 words no two blocks fit, and the stale
  block address described below does not arise.
- Motor: dividers 3 and 2 do not divide each other; two messages of any mode, with
  targets far enough apart (-30, 17, 45) to reach the velocity limit of 5 and to
  turn around; the wheel reports speeds of either sign; every PID output
  exceeds the current limit.
- Encoder: a timer of 8 ticks, at most `Half` = 3 per sample, 20 ticks of
  travel: several turns of the timer.
- Audio (`FileSizes`): files of 0 to 5 half buffers cover the single conversion, both halves
  as the last one and one turn of the circular buffer; two files show what one
  leaves for the next. Four requests.
- Aseba: two sensors, one below and one above the timer's bit. Two wheels, one
  LED, one parameter, one variable changed per turn (`MaxTouched`, a state
  constraint). Two programs, memory of three opcodes, the first and last page of
  every sector.
- ADC: 3 and 2 samples so that the two ADCs finish at different times; voltages
  above, between and below the two levels.
- Bridge (`Duties`): duty cycles beyond the limit, zero and within it, of either sign.
- I2C bus: two LEDs, one publication, one failed transfer: the second LED shows
  the loop, one failure is enough to lose any transfer of the protocol.
- SD card: three cards (two of one layout), a file of three sectors in clusters of
  two, mount numbers modulo 2 so that they wrap.
- FatFs data: sectors of 2 bytes, clusters of 2 sectors, 4 clusters of which one
  belongs to another file; lengths and offsets on both sides of sector and cluster
  boundaries and beyond the end of the disk; four calls, one disk error in any access,
  after which the calls go on.
- FatFs volume (`Entries` FAT entries): five clusters, two FAT entries and two directory entries in a
  sector, so chains cross FAT sectors and the directory grows; two files, one
  directory, five calls, one power loss; calls go on after it.

Runs with a bounded number of calls end when they are used up, and `config_power`
ends in a fault, `sd_card` in a driver assertion: deadlock is not checked there
(`ConfigPower.cfg`, `FlashSharing.cfg`, `EventsAndSounds.cfg`, `SdCard.cfg`,
`SdWindow.cfg`, `FatFile.cfg`). In `flash_sharing` a call that faults stops too.

### Fairness

Weak fairness is assumed of steps that nothing in the code can hold up: the next
step of a running save (no wait in it), the control period (a timer signals the
thread), DAC and ADC interrupts while a conversion runs, the timer, drivers that
end their transfers with or without success, and threads that can run. Strong
fairness is assumed once: of `sdcConnect`, which a card that is tried every second
does not refuse for ever. Users, power losses, failures and the battery are never
forced to do anything.

## Proofs

The theorems hold for every value of the constants and without the bounds on calls,
power losses and failures, from the named assumptions in the modules: sizes are
naturals, `dst_len` is at least a header and at most the sector, the
serialisation is lossless (`EncAssumption`), dividers are positive, blank is no
program, no cluster has the number of the end mark, and so on. TLC evaluates the
assumptions in the runs. The models that share a run are proved about where they are
composed (`MCSensors`, `MCEventsAndSounds`, `MCAsebaVariables`, `MCFatFile`), whose `MC` constants
stay parameters in the proofs.

| theorem (property) | inductive invariant, and why it is needed |
|---|---|
| **ConfigFlashProofs** | |
| `TypeCorrect` (`TypeOK`) | inductive as it is |
| `SavedBlocksSurvive` (`AppendOnly`) | `AppendInv`: the blocks the scan skipped are valid and end at or before `dst`; at other control points none are recorded. Only the position of the writer relative to them keeps a write from their cells |
| `LeavesSectorAtEdgeOnly` (`FaultsAtTheEdge`) | `EdgeInv`: a checksum of a length that was ever programmed belongs to a block that fits (`LengthsFit`), so a scan never follows remains of a cut save, and reads no more than a checksum and a length where no block is; the new block fits so far, or the chain is longer than `dst_len` (`BlockFits`) |
| `SaveAfterEraseSucceeds` (`ErasedSaveSucceeds`) | `FreshInv`: while a save writes to the start of the sector, the sector holds exactly what it wrote so far (`FreshSave`, cell by cell), and no block follows |
| `PreemptedSavesKeepBlocks` (`SavedBlocksKept`) | `PreemptInv`: all valid blocks form one chain; the words of a header were programmed in order; a call that was not overtaken knows the end of the chain (`CallOK`, for the running and for the suspended one); an overtaken call finds the flash locked (`Voided`), because the shell unlocks it only while it saves or erases and locks it before it ends. That a scan passes every valid block is shown by the least one it would miss |
| `PreemptedSavesReadBack` (`ReadBackUnlessChanged`) | `ReadInv`, on top of `PreemptInv`: unless something was replaced under a suspended call, the cells behind the chain hold nothing but words of the current tree, each where a save puts it (`RestBehind`), and nothing at all when no save is under way (`BlankBehind`); so whichever call writes the checksum completes the block of the current tree. Once a save is complete, for the caller itself or for the one it overtook, the last block of the chain holds the tree (`LastHolds`) and the scan of the read-back ends there (`ScanOK`) |
| `ImplementsStore` (the safety part of `RefinesStore`) | `StoreInv`: all valid blocks form one chain and the call under way knows how far it has come in it (`CallInv`, from the proof of `SavedBlocksKept`); behind the chain there is nothing but words of the tree being saved, each where the save puts it, and nothing at all outside a save (`StoreClean`). So a block appears in one step, the one that programs the last word of its header, and it holds the tree of the call. Assumes `MaxCrash = 0`, since after a torn save the code is no such store (`config_torn`), and that `NoTree` is no tree |
| **MotorControllerProofs** | |
| `MotorTypeCorrect` (`TypeOK`), `CurrentLimited` | `TypeOK`. The current setpoint respects its limit in all modes; this is only proved, not in a run |
| `FreshSetpoint` (`NoStaleSetpoint`) | `FreshWhileCounting`: a position counter below its divider bounds the age of the velocity setpoint |
| `VelocityLimited` (`VelocityBounded`) | the bound itself; assumes that the wheel never reports more than the bound |
| **SensorsProofs** | |
| `OdometryExact` (`Odometry`) | `Wrapped`: timer and last sample differ by what the wheel moved, up to one turn |
| `ValuesFresh` (`FreshValues`), `MeasuredAtPosition` (`AtPosition`) | `AdcInv`: who owns ADC2 and what either ADC converts follow from where the two threads are, and a semaphore is signalled for the measurement under way (`AdcLocks`); while the proximity thread is on time, the compare value is the one asked for or belongs to a point the timer has passed in this cycle (`AdcPoints`) |
| `RangesFresh` (`RangeFresh`) | `BusInv`: the ready list holds no thread twice and none that waits (`BusSched`), so nothing but its own steps moves the range thread; at each of its control points the flags of the sensor say whether a value is new (`RangeOK`) |
| **EventsAndSoundsProofs** | |
| `EventsNotLost` (`NoLostEvent`), `EventsTypeCorrect` | `EventInv`: nothing is active between ffs and CLEAR_EVENT; a thread that is about to wait again still has its flag set; what came after reading the variables is announced again; a new handler runs before it can be replaced |
| `ResultsNotMissed` (`NoMissedResult`), `RepliesMatch` (`ReplyMatches`) | `RequestInv`: while the shell waits for the result of a request that was taken, what the audio thread is about to copy or serves (`Served`) is that request, or a later one if one replaced it (`OwnOrLater`) |
| `TailsAreEnds` (`TailIsEnd`) | `DacInv`: program counter, handler and DMA fit together, and the handler of the last piece finds it in the half it was told (`DacControl`) |
| `SoundsHeard` (`AllHeard`) | `Timely`, a part of `DacInv`: at every control point, what was heard, what is in the two halves and what was read make up the file so far; and no signal is left over for a thread that is on time, so the DAC has stopped when it comes to `dacStop` (`Punctual`) |
| **AsebaProofs** | |
| `VmDoesNotInterfere` (`NoInterference`) | `Tracked`: after the copy a variable differs from it only if the script changed it |
| `CrossedOnlyBySplit` (`CrossedBySplit`) | `PwmInv`: between its two writes, an uncut call that will drive phase B has switched phase A off (`HalfWritten`) |
| `ErasesOnlyItsSector` (`ErasesItsSector`) | the property; `SectorHoldsAddress` is arithmetic over the three sizes |
| `FlashNeverMixed` (`NeverMixed`) | `OneProgram`: memory and flash each hold bytes of one program, during a write of the same one; without power memory holds none |
| `BootRestoresSaved` (`BootRestores`) | `SavedInFlash`: how far a save has come; as long as no command of the shell locked the flash, the bytes before that are in flash; and a complete save stays until the next begins. A save that finds the flash locked at its end is not counted (`saved`) |
| **SdCardProofs** | |
| `HaltsOnlyOnRemoval` (`HaltsOnRemoval`) | `SdInv`: which transfer is under way, what the driver, the mount flag and the main thread are doing (`SdTypes`, `SdDriver`) |
| `SoundsFromOneCard` (`OneCard`) | `SdInv` with `SameCard`: as long as no call outlasts a mount, window, transfer and file belong to the card of the volume; what a failed read leaves in the window too, since it was reading that card (`WindowEnds`). Only the sector that such data is from is unknown, which `sd_window` shows |
| **FatFileProofs** | |
| `OtherFilesUntouched` (`~torn => OthersUntouched`, a conjunct of `ClustersKept`) | `ApartInv`: no FAT entry links to a cluster of another file, and no sector of one is in the cache to be written back (`Types`, `Apart`, `DiskApart`); whenever a transfer or a seek uses the current cluster, it is one of the file (`ClusterKnown`). That the whole chain stays out of other files follows without induction over data: the least index at which it would enter one has a predecessor that is the file's own |
| `NoClusterLost` (`ClustersKept`) | `KeptInv`: there are a sequence of clusters that is the chain of the file from its first cluster to the end mark, each once (`Run`), and one that is what a cut has still to free; the size fits the first (`Kept`); in every step the current cluster is the one that holds the pointer (`Pointer`), which is what makes a cut keep exactly the clusters before it; until an access fails the two sequences and `Taken` are all that is in use and `free_clust` counts the rest (`Counted`); the directory entry lags behind the file object only when the object says so (`DirKnown`), so reopening finds the same chain. The chain is a witness in the invariant that each step extends, cuts or keeps; no recursive definition has to be unrolled by induction |
| `ImplementsByteFile` (`IsByteFile`) | `ByteInv`, on top of the two: until an access fails, the request is that of the control point (`CallAgrees`); pointer and end of a read are in the file (`Within`); bytes that are only in the cache belong to the file and will be written back, a clean cache equals the disk except for a new sector behind the end, and the cache holds the sector of the pointer whenever a part of it is used (`Cached`); a seek arrives where it is to go (`Seeks`). The mapping reads byte `j` from sector `FileSector(ch, j \div SS)` of the witness chain, or from the cache; that this is injective (a chain has no cluster twice) is why a write changes no other byte |
| **FatVolumeProofs** | |
| `FreeCountExact` (`FreeExact`) | `CountInv`: the count is that of the free FAT entries as FatFs sees them, card and window together, after every access and not only between calls (`CountOK`); a clean window equals its sector (`FatState`); and what is left of the call is in order (`QueueOK`): it fills the window only behind a flush, and each cluster it frees is in use by then and freed once. That every call queues such a plan (`Plan`) is shown operator by operator: a chain has no cluster twice (`ChainIs`), so `remove_chain` frees none twice; `create_chain` marks what `f_mkdir` frees again when there is no room for the entry. `ChainIs` takes the least place where the recursion in `Chain` would go wrong, so it needs no induction theorem |

Only model-checked:

- Liveness: `SaveTerminates`, `StaysNear`, `PlayEnds`, `PlayReturns`, `CutsOff`,
  `LedsFollow`, `ImuAlive`, `GetsMounted`, `RequestEnds`. They need fairness and
  ENABLED, which the prover does not handle.
- The liveness of `RefinesStore` (every save is stored eventually), for the same reason.
- `Found` and `NoCrossLinks`: what the card holds after a power loss depends on which
  accesses of a call have reached it and which are still in the window. An inductive
  invariant has to say what every chain and entry on the card will be after each
  prefix of what is left of the call, for each call; for the number of free clusters
  that is not needed, since it ends with the power.

## Where code and documentation disagree

Three runs show a violation and stay in the project:

- `config_torn`: a save that is cut by a power loss leaves remains behind the last
  valid block. The next save programs over them, and its data checksum is
  computed over what the flash then holds: the block is valid and altered
  (`config_flash_storage.c:165`).
- `motor_acceleration`: in velocity mode the ramp runs every millisecond with the
  time step of the slower velocity loop (`motor_controller.c:140`), so the
  setpoint changes faster than the limit by the divider.
- `sd_window`: `move_window` (`ff.c:1083`) keeps the old sector number when a read
  fails, although the transfer may have overwritten the window (`ff.h:105`:
  "Current sector appearing in the win[]"). The next call takes the window for
  the sector it names. If that is a FAT sector and the failed read was that of the
  directory in `f_sync`, which does not mark the file object as broken, a later
  `f_write` may take foreign data for links and write it over the FAT:
  `ClustersKept` ends where the window is torn.

The models also contain the following behaviours of the code; the properties of
the passing runs are stated so that the exceptions are visible in them:

- After a torn save, a read-back may also be answered "OK." with the previous
  settings (`cmd.c:413`). `ReadBackUnlessChanged` and `RefinesStore` are checked
  without power losses.
- A chain that ends less than two words before the end of the sector makes the
  scan read past the chip (with two words left the third is not read, and the save
  erases the sector, as `tests/config_save_test.cpp:311` expects), and a save from Aseba, which passes a quarter of the
  sector as its length (`skel_user.c:616`), wraps the room behind a longer chain.
  These are the two cases of `FaultsAtTheEdge`.
- When an interrupt comes while the last piece is read, its signal is still in
  the semaphore and `dac_last_conversion` returns at once (`audio_dac.c:133`); then
  `dacStop` finds the DAC converting (`audio_dac.c:240`), and the assertions of ChibiOS,
  which are on (`chconf.h:355`), halt the robot. `AllHeard` is about sounds without
  such a delay and says that nothing else leads there.
- A play command that is published while the audio thread is not waiting is lost;
  the shell then gets the result of another request, or waits for ever
  (`audio_thread.c:56`): `ReplyMatches` and `PlayReturns` are about requests that
  were taken. Even of those one may be replaced: while the shell waits, the VM thread
  can run before the audio thread that was woken, and its `sound.play` overwrites the
  buffer of the topic (`audio_thread.c:28`, `skel_user.c:676`). The other sound is
  played and the shell is told its result (`replaced` in `ReplyMatches`).
- "/motors/setpoint" is read back as a current whatever its mode, also before the
  first publication (`skel_user.c:400`): a script that sets the current of one
  wheel publishes that value for the other. `NoInterference` does not exclude it.
- A count of opcodes is used as a count of bytes (`aseba_node.c:183`): half of a
  program is stored. `BootRestores` is about that half. If power fails between the
  two bytes of the size, boot copies more than was saved, far past the memory in most
  cases (`aseba_node.c:104`); the model then goes to "overrun".
- A shell command that saves or erases the settings while the VM thread saves its
  bytecode leaves the flash locked (`aseba_node.c:180`): the rest of the save does
  nothing and is not reported. `BootRestores` is about saves without such a command.
- A proximity thread that is delayed past the start of a timer cycle takes its
  first samples at the old point (`proximity.c:184`): `AtPosition` is about a
  thread that runs when it can.
- Two savers: a tree that is changed while Aseba's save is suspended is saved half
  old and half new, with matching checksums, and answered "OK."; a block that
  Aseba's read-back has found is gone if the shell erases the sector and saves
  again, and other data is parsed in its place. `ReadBackUnlessChanged` excludes
  both. What Aseba writes or erases after a shell command finished is void, since
  that command left the flash locked (`SavedBlocksKept`); an erase requested by a
  script may so be silently dropped. The two unlock keys are one step in the
  model.
- A control period between the two writes of a VM call leaves both phases of a
  bridge on until the next one; and what a script sets as PWM is overwritten
  within a millisecond in any case.
- If the transfer that starts a range measurement is lost, the range thread polls
  for its end for ever and keeps the I2C bus, so the LEDs freeze too (`lost` in
  `LedsFollow`). A failed read uses an uninitialised variable
  (`vl6180x_chibios.c:12`), hence `fails = 0` in `RangeFresh`.
- The IMU thread registers before `exti_start` has initialised the list only if
  it gets the processor first; the order of creation and the equal priorities in
  `main.c` prevent it (`ImuAlive` fails when main waits between the two starts).
- FatFs is built without re-entrancy (`_FS_REENTRANT` is 0) although `f_mount` and
  the audio thread's calls overlap, which `fatfs/doc/en/appnote.html:177` rules
  out. A call that lasts from an unmount into the next mount, more than a second,
  may mix two cards (`late` in `OneCard`). A card that is exchanged between two
  polls is never reconnected, and a card that is removed in the middle of a read
  stops the robot with a driver assertion (`HaltsOnRemoval`);
  `fatfs_diskio.c:150` checks the state before the transfer, which does not help.
- Power loss on a FAT volume: `f_rename` has two entries for one chain for a while
  (the comment at `ff.c:4459` says so). `f_truncate` frees clusters that the entry
  on the card still names until `f_sync` (`cut`). A directory that grows is linked
  to its new cluster before that is cleared (`ff.c:1547`): old data is taken for
  entries after a power loss in between (`Uncleared`, `broken`), which is not among
  the outcomes of `fatfs/doc/en/appnote.html:230`. FSINFO is then out of date, and
  the free count wraps from 0 to the value that means unknown, after which
  `f_getfree` counts again: `FreeExact` is about a volume without power loss.
- Until the battery level is first published, duty cycles are divided by a voltage
  of 0 (`motor_pid_thread.c:32`); the clamp bounds the result.
- The cutoff is at 3.25 V per cell, `README.md:148` says 3 V.
- In `flash_addr_to_sector` bank 2, which this chip does not have, gets sector
  numbers from 24 (`flash.c:40`).

The position ramp does not come to rest: it stays within a few steps of its
target (`StaysNear`).

## Not modelled

Floats (PID filters, encoder velocity, duty cycles), the parsing of WAV headers,
register settings of the flash and the ADCs, the bytecode interpreter, CAN
framing and queues (in a submodule that is not in the tree), register values of the
chips on I2C and SPI, lwIP, USB tables, fault handlers, the handing over of the
motor current. `PROJECT.json` says so per component.

Of FatFs: the second copy of the FAT, paths with several segments, time stamps and
attributes, FAT12 and FAT16 (the layout of a FAT entry is all that differs), and
disk errors in `FatVolume` (`FatFile` has them). Long names, code pages, `f_mkfs`,
string functions, labels, locks and relative paths are switched off in `ffconf.h`;
the code page tables alone are about 31 000 of the 47 500 lines of the repository.
None of this has a behaviour in this firmware. The firmware itself only
mounts, opens, reads and closes; the writing calls are part of the library that is
built and linked, and are modelled as such.

## Plan

Order of work; all but the last item are done.

1. ConfigBlock, ConfigFlash, SettingsStore, with proofs: the only state that
   outlives a power loss.
2. MotorController and Encoder, with proofs.
3. AudioDac, AudioPlay.
4. AsebaEvents, AsebaVariables, with proofs.
5. AsebaBytecode over FlashSector, with proofs.
6. AdcSensors.
7. ConfigPreempt: two savers.
8. MotorPwm: the bridge, next to AsebaVariables.
9. Peripherals: start order, I2C bus, IMU.
10. SdCard; ByteFile, FatFile and FatVolume.
11. Proofs of the safety properties of every component and of both refinements:
    done for all but `FatVolume`.
12. Proofs about `FatVolume`, with its chains as functions and an invariant over the
    accesses still to come: `FreeExact` is done, `Found` and `NoCrossLinks` are left.
