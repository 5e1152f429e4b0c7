# ArduLinux: formal models

TLA+ models of ArduLinux, the Arduino core that runs sketches as Linux
processes (`src/cores/ardulinux`). Paths below are relative to that directory.
TLC checks the models on small instances, TLAPS proves the main safety
properties for all values of the constants. `PROJECT.json` lists the runs, the
source lines of every definition, the mutants that show each property can fail,
the disagreements found and the theorems.

## 1. Inventory

| Part | State | Operations | Talks to |
|---|---|---|---|
| AsyncUDP (`AsyncUDP.*`) | handler, send queue, parked task, watchdog timer, quit flag, socket | `writeTo`, `onPacket`, `listenMulticast`, destructor; libuv callbacks async, timer, read | application threads, libuv's loop on its own thread, the kernel |
| SPI (`linux/LinuxHardwareSPI.*`, `PosixFile.h`, `SPIChip.h`) | per object path and chip; `SPI_map`; per chip mutex, default speed, device clock | `begin`, `end`, `beginTransaction`, `endTransaction`, `transfer` | spidev ioctls |
| GPIO (`ArduLinuxGPIO.*`, `linux/gpio/LinuxGPIOPin.*`) | pin table; per pin mode, level cache, ISR and trigger, line request, chip handle | the constructors, `pinMode`, `digitalRead/Write`, `attach/detachInterrupt`, `gpioBind`, `gpioIdle`, `pulseIn` | main loop, `delay`, ISRs, libgpiod 1 or 2, `/dev` |
| I2C (`linux/LinuxHardwareI2C.*`) | transmit and receive buffers and cursors shared by all objects, device | `begin`, `end`, `beginTransmission`, `write`, `endTransmission`, `requestFrom`, `read`, `available`, `readBytes` | i2c-dev |
| Files (`FS/*`) | mount point; per handle path, FILE or DIR, stat cache, written flag | `open`, `read`, `write`, `seek`, `size`, `close`, `mkdir`, `rename`, `openNextFile`, ... | stdio, the directory tree |
| Serial (`linux/LinuxSerial.*`) | per object path and descriptor number; one termios structure for all objects; stdout's buffer | `setPath`, `begin`, `end`, `available`, `read`, `write`, `flush` | tty, stdout, logging |
| Runtime (`main.cpp`, `XDGDirs`, `AppInfo`) | options, `progArgv` kept for a reboot, file system root | option parsing, erase, the main loop, `reboot` | all of the above |
| Time (`linux/millis.cpp`, `linux/LinuxCommon.cpp`) | start time | `millis`, `micros`, `delay` | clock, GPIO poll |
| Simulated hardware, text, logging, build files | none, or output only | | |

What is hard here:

* **AsyncUDP** is the concurrent core. Writers on any thread, the libuv thread
  and the destructor share the queue and the wake-up signal; the program
  recognises its own multicast packets when the kernel loops them back, by
  content, with a watchdog for those that are lost. Correct means: no task is
  lost, doubled or stuck; one task at a time is outstanding; the handler sees
  other hosts' packets and not its own; destruction ends and leaves no thread
  behind.
* **SPI**: transactions of several threads, through several objects on one
  device. Correct means exclusion per device, the right speed inside a
  transaction and the default one outside, and that the bus is not lost when
  an ioctl throws.
* **GPIO** runs on one thread, but polls, reads and ISRs nest, since an ISR may
  call the whole API; and the cache must stay in step with a line whose
  reconfiguration can fail. Correct means: edges are reported once, the cache
  is true, lasting levels are noticed.
  A pin's constructor has many ways to fail, while devices come and go and other
  processes take lines; a C++ constructor that throws releases nothing by itself.
  `pulseIn` compares times that wrap, in variables of two widths.
* **I2C**, **Files**, **Serial** and **Runtime** are sequential; what is hard is
  long sequences of legal calls, failing calls and stale state. I2C: no byte is
  sent or read that belongs to another transfer. Files: nothing stays open that
  nobody refers to, what was written reaches the file, sizes are those of the
  data written; and another process may change a path between two system calls
  of one operation. Serial: descriptor numbers are used again, by other parts of
  the program too, and a begin that fails must not reconfigure another device.
  Runtime: a reboot replaces the process but not its descriptors; it must come
  back with the same root and without the erase, and an erase may be killed half
  way, or fail on one entry of many.

## 2. Plan

1. `SendChannel`, `AsyncUDP`: done; proofs done.
2. `SPIBus`: done; type, exclusion, speed and restoring proved.
3. `GPIO`: done; proofs done.
4. `I2C`: done; proofs done.
5. `Files`: done; proofs done. Left: the contents of files and reading
   positions, with the abstract specification that a handle shows the bytes that
   were written, in order.
6. `GpioLines`: done; proofs done.
7. `PulseIn`: done; proofs done.
8. `Runtime`, `Serial` and their composition `Program`: done; proofs done. Left:
   the composition of the main loop with `GPIO`.
9. Pure functions: the decoding of `spi_host`, `itoa`.

Order: what runs concurrently first, then the components with failing calls and
stale state, then the sequential and numeric rest.

## 3. Modules

Each component module has the code's state as variables, one action per
operation or callback, and its properties at the end. A definition called
"Mutant" is not part of the model: it is the neighbouring definition with one
plausible bug, used to show that a property notices that bug. `MC*` modules
instantiate a component for TLC; `*_proofs` hold the theorems.

### AsyncUDP

| Model | Code |
|---|---|
| `WritePush`, `WriteSignal` | `writeTo` up to the unlock, and its `uv_async_send` |
| `ListenStart`, `ListenReturn` | `listenMulticast`: the thread is started before `_connected` is set. Its early returns change no state of the model: they leave the object as it was |
| `DestroyQuit`, `DestroySignal`, `DestroyJoin` | the destructor, three steps that interleave with the loop |
| `AsyncCb`, `TimerCb` | the two callbacks; `AttemptWrite` is `_attemptWrite`, `DoWrite` is `_doWrite` |
| `ReadStart`, `Receive`, `ReadZeroLength`, `ReadLooped`, `ReadDeliver`, `HandlerReturn`, `ReadExhausted`, `ReadYield` | libuv's read loop around `_DO_NOT_CALL_uv_on_read`, and the branches of that callback |
| `Flush` | libuv sends a request it held back, from the task's buffer |
| `LoopBack`, `PeerArrives`, `Enqueue` | the kernel and the other hosts (external) |

A task is an identity with a payload in `data`, since the code compares
contents: two tasks, or a task and a foreign packet, may be equal. `fate`,
`echoes` and `gaveUp` are history variables. The handler is application code: between
`ReadDeliver` and `HandlerReturn` the I/O thread may call `writeTo` and
`onPacket`.

The critical sections of the two mutexes are one step each: they neither block
nor call out. The order "copy the handler, unlock, call it" is one step, as
a handler replaced in between is the old one in either case. A read error
(`nread < 0`) takes the branch of `nread = 0` and may come while datagrams are
waiting: the fault `"recvfail"` of `ReadExhausted`. A timer that
expires in the last loop iteration, after `uv_stop`, is not modelled. The timer
expires when the copy of the parked task is nowhere on its way, or at any time if `Faults` has
`"late"`.

### SPIBus

`beginTransaction` is `BeginTransaction`, `Lock`, `SetSpeed` or
`SetSpeedThrows`; `endTransaction` is `EndTransaction` (unlock) and
`RestoreSpeed`: the code releases the mutex before the second ioctl.
`BeginNew`, `BeginShared`, `BeginOpen`, `BeginSim` are the branches of `begin`.
`NDebug` is a constant of the build; `ioctlFails`, chosen at the start, says
whether the driver may refuse an ioctl.
`transfer` changes no modelled state. `begin` is atomic, and `begin` and `end`
are not called on an object inside a transaction; a thread has one transaction
at a time.

### GPIO

One thread; its calls are the variable `stack`: polls (`gpioIdle`), ISRs and
the sleep of `delay`. `Refresh` is `refreshState` with `callISR`: cache first,
then the ISR on top of the stack. `DigitalRead`, `PollPin` use it.
`Configured` gives what `setPinMode` may leave behind: `Reconfigured` for
libgpiod 2, which takes the cached mode back when the line refuses;
`Rerequested` for libgpiod 1, which does not, and may lose the line. `DigitalWrite` promotes to output,
drives, and only then caches. An exception unwinds the stack (`Unwind`) to a
handler or to the loop; one from main's own `gpioIdle` ends the program and is
left out. `gpioBind` of a pin whose ISR is running is excluded: it destroys the
object under the ISR.
`told` is a history variable. Lines change at any time unless they
are outputs. Pull resistors are not modelled.

### GpioLines

How a pin comes by its chip and its line, which `GPIO` takes as given.

| Model | Code |
|---|---|
| `Construct`, `Scanned` | the constructor of `LinuxGPIOPin` into `find_chip_by_label`: `access` on `/dev/<label>`, otherwise `scandir` with its filter |
| `OpenNamed`, `OpenNamedFails` | `chip_open_by_name` of the device that was found |
| `ScanHit`, `ScanMiss` | one entry of the scan: open, compare the label, keep or close |
| `Refused`, `Acquire`, `CrashesOnNull` | `getLine` and the request of the line, with their failures; libgpiod 1 gives a null line on, libgpiod 2 closes the chip afterwards |
| `GpioBind`, `Replace` | `gpioBind`: the new pin takes its place in the table, the destructor of the old one runs |
| `SetPinMode`, `Rerequest` | with libgpiod 1 `setPinMode` releases the line and requests it again |
| `Dies` | the process ends; the kernel takes everything back |
| `DeviceChanges`, `OtherProcess` | devices come and go, other processes take and give lines, between any two steps |

What an object under construction holds is kept under the holder `New`, for
which no destructor will run. `scandir` sorts by name, which is `Order`. A
device that vanishes while it is open stays usable. The many reasons for which a
line is refused (a negative offset, one too large, an unknown name) are the set
`BadLines`. `Plain` are names in `/dev` that are no chips: `access` finds such a
device under a pin's label, and the open fails. `line[p]` is a reference: with libgpiod 1 it stays when the line was
lost in `setPinMode`.

### PulseIn

`loop` is which of the three loops of `pulseIn` runs, and each turn of a loop is
two steps, `ReadPin` and `CheckClock`, since the pin and the clock move in
between. `Begin` is the second assignment to `start`, `Return` the subtraction
at the end, `Throw` an exception of `readPin`. `micros` is the function of
`millis.cpp` on a clock that wraps at the width of `unsigned long`; `start` holds
a `uint32_t`, which is narrower on 64-bit machines. `held`, `width`, `since`,
`gaveUp` and `from` are history variables; `from` is what `micros` returned at
the assignment of `start`. `Fits` says that `start` could hold it: always on 32
bits, and on 64 bits for the first 2^32 microseconds (71 minutes) of the program.
The properties hold in both cases: `PulseMeasured` gives the result modulo 2^32,
and the result itself exactly when `Fits`; `TimesOut` says that no loop gives up
early while `Fits`, and that each gives up at once when not.

Assumed: at most `LAG` microseconds pass between two steps of the program, a pin
keeps a level for at least `HOLD > 2 * LAG` (a shorter pulse cannot be seen),
nobody sets the clock during a call, and a timeout is smaller than the range of
`uint32_t` by seven steps. How often the program has called `micros` before (`Origins`) is
left open.

### Runtime

| Model | Code |
|---|---|
| `Start` | `argp_parse` of the arguments: `Refuses`, `FsDir`, `Erases` |
| `Strip` | the loop in `ardulinux_main` that keeps `progArgv` without the erase option, word by word (`Without`) |
| `MakeRoot` | the root is there, is made, or cannot be made |
| `Visit`, `RemoveEntry`, `Visited` | `nftw` with `unlink_cb`: an entry after what is in it, the root itself left, the end at the first failure |
| `Changes` | the application's files (the operations themselves are in `Files`) |
| `OthersChange` | another process changes the root during the erase |
| `Reboot`, `RebootFails`, `Restart` | `execv` with `progArgv`, its failure, a kill at any step and a new start by the service |

An argument is a word. `argp` also takes abbreviations (`--er`) and letters
written together for `--erase`; those words are the set `Shortened`. `Bad` is a
word that `argp` refuses or answers with an exit. What others add or
remove during the erase may be found by it or not, as `nftw` reads directories
one after another; of a directory it cannot read it finds nothing (`Found`).
`disturbed` is a history variable: others changed the root during the erase, or
part of it could not be read.

`Strip` compares words where `argp` reads them, and the two disagree on two kinds
of command line: with an abbreviated `--erase` (`Abbreviates`) the new process
erases again, and a `DIR` spelled `-e` or `--erase` is stripped (not `DirsKept`).
`RebootKeepsFiles` states what holds of every command line, with these exceptions.

### Serial

`Begin` and `BeginFails` are `LinuxSerial::begin` with the open that works or
not; `Rate` is its switch over the baud rates followed by `cfsetispeed` and
`cfsetospeed`, which get an unknown number as it is: they refuse it, or take it
for another rate, as 13 is what `B9600` is on Linux (`Taken`). `End`, `Use` and `SetPath`
are the other calls; `OpenFile` and `CloseFile` are the rest of the program,
whose descriptors have numbers from the same pool. The tag in `fds` says who
opened a number, which the code cannot see: `Touches` compares it with the
object that uses the number. Of the termios settings only the speed is kept, as
the raw mode is set the same way each time. The bytes that go through a port
are left out: `read`, `write` and `available` pass them to the descriptor.
`WriteByte`, `WriteNewline`, `Flush` and `Configure` are `SimSerial` on stdout:
what is lost with the process depends on how it is buffered. `Configure` is the
constructor of `Serial`; that constructors of other static objects print before
it is left out.
`tidy`, `stray`, `asked` and `cut` are history variables.

### Program

`Runtime` and `Serial` together. The constructors of static objects run before
`main` (`Start`); the application uses the ports in its main loop (`Loop`);
`Reboot` hands the open descriptors to a process that knows none of them and
drops what stdout holds (`Replaced`), where a kill closes them (`Killed`) and an
exit writes the rest out.

### I2C

| Model | Code |
|---|---|
| `Begin`, `End` | `begin`, `end`: one `hasBegun` for all objects, a descriptor per object |
| `BeginTransmission`, `Write`, `EndTransmission` | the transmit buffer: discard, queue up to the room left, send and empty |
| `RequestCombined`, `RequestFailed` | `requestFrom` with bytes pending: they go out in the same transfer and stay pending; the read cursor stays as well, on failure also the length |
| `RequestPlain` | `requestFrom` with nothing pending, 0 bytes when it fails |
| `Read` | `read` from the buffer, with the reset after the last byte |

The buffers belong to no object. A queued byte is its number, a received byte
is its answer and its place in it, so a byte that is stale, doubled or out of
order is seen as such. `queued`, `settled`, `requests`, `answers`, `owed` and
`given` are history variables: `requests` counts the requests, `answers` is the
last of them that brought bytes, `owed` what is left of the bytes it returned; `drains` is a promise of the program, to read each answer to
its end before the next request, under which `DrainedServed` holds.
`readBytes`, `writeQuick`, `available` and a `read` of an empty buffer go to the
device and change none of this. `requestFrom` does not check its count; the
model takes `count <= SIZE` as a condition of use.

### Files

| Model | Code |
|---|---|
| `Open`, `OpenTryDir`, `Construct`, `Given` | `VFSImpl::open`: its stat, the opendir for a path to be read that was not found, the object it makes, and the File that takes it |
| `ConstructStat`, then `ConstructFile`, `ConstructDir` or `ConstructOther` | the constructor of `VFSFileImpl`: its stat, and what it opens after it |
| `Probe`; `Exists`, `Remove`, `RmDir`, `MkDir`, `Rename` | the object that these calls build to see what a path is, and the branch they take after closing it |
| `Unlink`, `Make`, `Move`, `Fails` | the system call at their end, or its failure |
| `Write`, `Flush`, `Seek`, `Size`, `GetLastWrite`, `FileClose` | the calls of a `File`, through its null check to the object |
| `Copy`, `Drop` | assignment and end of a `File`, with the destructor when the last reference goes |
| `OpenNextFile`, `DirectoryEnds` | `openNextFile`, which builds an object for an entry or ends |
| `OthersChange`, `OthersReplace` | another process changes an entry |

One thread makes the calls. Those that take a path are several steps, one per
system call, since another process may act between two of them; `call` holds
the one under way. A path holds a regular file (an inode), a directory,
something else or nothing. A file is its length: contents, reading positions and
the order of a directory's entries are left out, so `read`, `peek`, `position`
and `rewindDirectory` change nothing. A stream keeps written bytes back (`buf`) or stores
them, as stdio may. Modes are `r`, `w` and `a`; a `+` changes none of what is
modelled. stdio's own failures when it stores bytes (a full disk) and failing
allocations are left out, and so is a path that becomes a device, or turns from
a file into a directory, exactly between the constructor's stat and `fopen`.
`Closed` is `close` branch by branch: it closes the DIR only of an object marked
as a directory (`ClosesDir`), and the FILE only of the others.
`owed` is a history variable: the length the writers of a file were told it has.

### SendChannel

What `writeTo` promises, without threads, signals, packets and timers: tasks are accepted,
one at a time is outstanding, done tasks stay done, and after the shutdown
nothing happens. `AsyncUDP` implements it under the mapping of `Channel`
(`pending` = queued tasks, `outstanding` = parked task, `done` = released
tasks, `open` = the loop runs).

## 4. Runs

| Run | What it shows |
|---|---|
| `AsyncUDP_safety` | two application threads, all faults, failing reads among them: accounting of tasks, timer, wake-ups, copies, echoes, destruction; refinement of `SendChannel` |
| `AsyncUDP_live` | copies lost, late, or of length zero: tasks are sent, the wait for a copy that comes ends, the watchdog ends it once the buffer was seen empty; the buffer is drained; the destructor returns |
| `SPIBus_faults` | ioctls that throw or do not, `end` and `begin` again: exclusion per path, no foreign speed, the idle device has its default speed; while no ioctl throws, the bus is granted |
| `GPIO` | libgpiod 2, two pins with nesting ISRs, and every call may fail: the cache is true, no change is lost or doubled, a lasting level is noticed |
| `GpioLines` | both versions of libgpiod, devices and lines that come and go, one of them no chip: however a constructor ends nothing leaks, and a pin keeps a line of the chip it was asked for |
| `PulseIn` | every offset of the clock, `unsigned long` as wide as `uint32_t` and wider: what is measured is the pulse up to three steps, or four if the wait for it timed out, and timeouts are neither early nor late; where `start` cannot hold `micros`, the first modulo the range and each loop ends at once |
| `I2C_buffers` | what is sent is what was queued; what is read is of one answer, once, in order, and of the last request while the program reads no more than that returned |
| `Files_handles` | two Files, shared or not, over a directory that others change: nothing is left open, an object is a file or a directory, written bytes are stored |
| `Program` | four command lines, reboots, kills and an erase others disturb: a reboot keeps root and files but for the two exceptions of `RebootKeepsFiles`, an undisturbed erase is complete also after one that was killed, descriptors are closed once and by their owner, a device runs at a speed asked for, no complete log line is lost |

Runs that end in a violation show where code and comments disagree:

| Run | Disagreement |
|---|---|
| `AsyncUDP_giveup` | after a give-up nothing sends the next queued task |
| `SPIBus_speed` | a transaction runs at the default speed, restored after the unlock |
| `GPIO_rollback` | with libgpiod 1 the mode stays cached when the line could not be requested again (`LinuxGPIOPin.cpp:385-393`); LinuxGPIOPin.h:143-149 says of both versions that it is rolled back |

Seen while modelling, decided by a statement or two and therefore without a run of
their own. `AnswerAvailable`, `SizeTrue` and `RebootNeverErases` state what comments say; TLC
refutes each in a few steps when it is added to its component's configuration:

* `listenMulticast` returns true when a setup call after `socket` fails
  (`AsyncUDP.cpp:157`); AsyncUDP.h:258 says false.
* The destructor of an object that never listened joins a thread that was never
  started, which terminates the program (`AsyncUDP.cpp:63`).
* A failed `uv_udp_send` is ignored and its task parked; with no other traffic
  the wait never ends (`AsyncUDP.cpp:305`).
* The payload may be freed before libuv sends it: a task is released by its copy
  or the watchdog, not by the send callback (`AsyncUDP.cpp:305`); AsyncUDP.h:332-333 says it
  "must remain valid until the send callback fires".
* Copies are recognised by content, so an equal packet of a peer is swallowed
  and the own copy delivered (AsyncUDP.h:238).
* With `NDEBUG` the ioctls that set the speed, inside `assert`, are not made
  (`LinuxHardwareSPI.cpp:105`).
* An ioctl that throws in `beginTransaction` leaves the mutex locked for good
  (`LinuxHardwareSPI.cpp:105`).
* `begin` ignores frequency and path of a chip that is open, and `end` never
  closes a device, which `SPI_map` keeps.
* The cache starts at HIGH: the first read of a LOW line runs a FALLING handler,
  and the first `pinMode(OUTPUT)` drives HIGH.
* With libgpiod 2 `INPUT_PULLUP` sets no bias (`LinuxGPIOPin.cpp:422`).
* `delay` polls before it sleeps only (`LinuxCommon.cpp:41`).
* The second I2C object's `begin` does nothing, since `hasBegun` is shared.
* `rmdir` calls `unlink` and so removes no directory (`FS/vfs_api.cpp:220`), as
  the comment at `tests/unit/test_fs.cpp:329` notes.
* A `File` whose `fopen` failed is true (`FS/FS.cpp:143`), and `openNextFile` also gives
  `.` and `..`.
* After a combined or failed `requestFrom` what can be read is not what it
  returned (`linux/LinuxHardwareI2C.cpp:247`; `AnswerAvailable` in `I2C` states
  it): the cursor stays in the old answer, and after a failure so do its bytes,
  where `LinuxHardwareI2C.cpp:250` says "caller checks RXlen == 0".
* `size` is that of a stat made before `fopen`, or never made, or made before
  stdio stored the bytes (`FS/vfs_api.cpp:389`; `SizeTrue` in `Files` states it).
* The erase option survives `Strip` when it is abbreviated (`--eras`) or written
  together with another letter, and a reboot then erases again; main.cpp:239-240 says it is "stripped to avoid
  re-wiping the filesystem" (`RebootNeverErases` in `Runtime`). A directory
  named `-e` after `-d` is stripped instead, and the new process refuses its
  arguments.
* A reboot leaves the descriptors of ports, files and devices open in the new
  process: only the socket of AsyncUDP is made to close on `execv`
  (`AsyncUDP.cpp:135`). And `execv` does not search `PATH`, so a
  program started by name alone cannot reboot.
* `mkdir` makes one level: without the directory above, the program runs on with no root.
* `pulseIn` on 64 bits: `start` keeps the lower 32 bits of `micros`
  (`ArduLinuxGPIO.h:142`), so after 2^32 microseconds each loop gives up at once
  and the result is huge. After a timeout it gives a part of a pulse, or the
  time of some steps, and not 0.
* On 32 bits `micros` takes its origin again when the first reading was 0.
* libgpiod 1 passes a null line on for an unknown offset (LinuxGPIOPin.h:84-85
  promises `invalid_argument`), and may lose its line in `setPinMode`.
* A `/dev/<label>` that is there and cannot be opened ends the search: chips with
  that label are not scanned for. A line cannot be bound again to the pin that
  has it: the new object asks before the old one is destroyed.
* A closed `LinuxSerial` is true, and a second `end` closes a number that another part
  of the program may have by then (`linux/LinuxSerial.cpp:204`). An odd baud rate
  leaves the speed as it was or is taken for another (13 for 9600); LinuxSerial.h:54 says "Mapped to the closest B* constant".

### Bounds

* AsyncUDP: two tasks: one parked and one queued behind it, or both queued; one
  foreign packet, able to equal a task; a receive buffer of two datagrams and
  two reads per event, so that the buffer overflows and the batch ends before
  the buffer is empty; two application threads beside the I/O thread where it
  matters who writes.
* SPIBus: two threads, two objects, two paths, two chips, two speeds: the
  smallest with overlapping transactions through different objects on one path
  and on two. `OneDefault` opens all chips with one frequency, which a transaction
  may ask for or not: liveness is checked in the same run, where symmetry would
  not be sound.
* GPIO: two pins, for handlers that act on each other; one for the rollback.
  `MaxDepth` bounds the nesting of calls; the smallest values let a poll run an
  ISR that reads a pin whose ISR runs.
* GpioLines: two pins, so that one is replaced while the other keeps its chip;
  two chips with a label each, so that a scan hits first, second or never; two
  lines per chip; the label of one chip is also the name of a device that is none.
* PulseIn: ranges of 14 and 28 instead of 2^32 and 2^64, one microsecond between
  steps (`LAG` = 1), levels of at least three, timeouts that are 0 or end in a
  loop and are longer than a pulse: the clock wraps in each loop and between
  them, at every offset, and a pulse may be as long as the narrow range. A
  shorter timeout would hide the case of four steps. States that differ only
  in clock and `startUsec`, but not in what `micros` is, are one (`Shown`): nothing
  else looks at the two.
* Program: one port on two devices and two descriptors after the standard ones,
  so that a number is used again and the pool runs out; two rates, an odd one
  that is refused and one that is taken for a rate; a root with a directory and a file in it. The command lines: the option
  twice around a `-d`, the option as a directory's name, an abbreviation, a word
  that ends the program.
* I2C: buffers of three bytes, so that a cursor can be before, inside and after
  an answer; five queued bytes fill a buffer and cut off a write; three requests:
  an answer that is left over, one that fails or comes over it, one after.
* Files: two variables and two objects, so that a variable is copied, or takes a
  new object while the old one lives on; two paths, for a rename; one regular file, which both
  objects may have open; writes of one byte, so that a file is empty or not. With
  two objects an open while both are in use does not happen; a third adds
  no step that the second does not have.

`CHECK_DEADLOCK FALSE` stands where the system may stop: an AsyncUDP object is
used up after its destructor, a bus whose mutex leaked is stuck, and a program
that ended may stay so.

### Fairness

* AsyncUDP: a thread inside `writeTo`, `listenMulticast` or the destructor
  goes on (weak). libuv serves every ready handle once per iteration, but
  between iterations the loop is inside callbacks, where the actions are
  disabled: strong for the callbacks. A packet in the air comes back or is
  lost (weak). Reads that fail for ever would keep the buffer full, so the
  liveness run has no `"recvfail"`. Nothing obliges the application to call, or a peer to send.
* SPIBus: a thread in a call goes on, a transaction is ended by its thread,
  and each chip's free mutex goes to some waiter, not to a particular one:
  `std::mutex` promises no order.
* GPIO: the main loop comes back to `gpioIdle` and ISRs return, so strong
  fairness for these (they are disabled while others run); polls and sleeps go
  on (weak).

## 5. Proofs

`AsyncUDP_proofs`, from `AsyncUDPAssumption` only. None of the invariants is inductive by
itself. `TypeOK` needs that the timer fires only for a task or for nobody.
`Inv` adds to the checked invariants what they lean on: where a
copy may be in each phase of a task, that an empty `rcvbuf` before the loop
starts has no copies, that a writer on the I/O thread exists only inside the
handler, and that the destructor's phases follow the loop's state. `InvStep` has one lemma per
action. `Implementation` maps every step of `AsyncUDP`: `WritePush` is
`Accept`; a pop is `HandOver`, and when it follows a match in the same
callback it also finishes the parked task; a give-up is `Finish`; the stop is `Shut`;
the rest are stutters.

`SPIBus_proofs`, from `SPIBusAssumption`: exclusion needs that `SPI_map[p] = c` is
the only way an object gets chip `c`, with `devicePath[c] = p`, and that a
thread between lock and unlock is the holder. `NoForeignSpeed` needs in
addition that nobody but the holder sets another speed than the default.
`SpeedRestored` follows from `WillRestore`: while no ioctl throws, a device that does not run at
its default speed has a thread in a transaction or about to restore it.

`GpioLines_proofs`, from `GpioLinesAssumption`, for any number of pins, chips
and lines. `NothingLeaks` and `PinKeepsLine` are proved from four facts about
each step of the constructor: what the object under construction holds at that
step (`Stages`), that open handles are the `chip` members (`Handles`), that a
requested line is the `line` member of its owner (`Owners`), and that a `line`
member stands for a line of the chip asked for (`LinesKept`). Without `Stages` an
exception thrown early could not be told from one that leaves a chip open.

`GPIO_proofs`, from `GPIOAssumption`: `CacheTrue` for libgpiod 2 (with libgpiod
1 and failing requests it is false, as `GPIO_rollback` shows), `ChangeReported`, and from it the action
property `RunsOncePerChange`.

`I2C_proofs`, from `I2CAssumption`, for buffers of any size: `PendingExact` and
`OneAnswer` are inductive with the types; the second half of `OneAnswer` needs that
a failed request owes nothing. `NoByteTwice` needs `GivenBefore`:
while bytes of the last answer are left, those already given stand before the
cursor. `DrainedServed` needs that the cursor of a program that drains stands
at 0 or inside the answer, since a combined request does not reset it.

`Files_proofs`, from `FilesAssumption`, for any number of variables, objects,
paths and files. `NothingLeaks` needs `CallOwns`: no `File` refers to the object
that a call builds, and before `fopen` that object holds nothing, so the one that
`fopen` fills is not one whose stream would be forgotten. `WrittenStored` needs
`OwedKept`: what the writers of a file were told is in the file, or some stream
holds it back; a stream that appends holds it back behind whatever the file is by
then. Without the second half a `write` that stdio keeps back would already
break it. That a step that stores bytes loses none of another stream is
`StoringKeepsOwed`, used for each step that flushes or closes.

`Program_proofs`, from `ProgramAssumption` (those of `Runtime` and `Serial`), for
any words, ports, devices, descriptors and files. `OwnDescriptor` needs `Owns`:
as long as the program is tidy (it ends a port once and begins it only when
closed), each open descriptor of a port is the one its object holds, and none is
left without an owner. `LinesOut` needs that stdout is line-buffered from the
start of `main`. `EraseComplete` needs `Erasing`: left alone, the erase has still
to visit just what is left in the root. `RebootKeepsFiles` needs `Parsed`
(the options are those of the arguments of the running process) and `Handed`
(what reboots have made of them), and rests on `StripSafe`, which is about every
command line: what `Strip` keeps asks for an erase only by an abbreviation, has
the abbreviations the first words had, and, if no word it drops was a `DIR`,
names the same root and is refused only if they were. `IsDir`, which words are a
directory, and `Strip` are recursive functions of the command line. `RunExists`
shows such functions exist, by a first position where the recursion would
fail (`Least`); the same argument replaces the other inductions. `WithoutEmbeds` finds each word of the result
in the command line, in order and with nothing but erase options between two of
them, so that a word follows `-d` in one if it does in the other (`DirEmbeds`).
`PulseIn_proofs`, from `PulseInAssumption`, for any widths of the integer types,
timeouts and bounds on steps and pulses. The invariant has three parts. `InTime`
bounds the time since `start` was assigned, by the place in the loops: an upper
bound of seven steps after the timeout. `Measures` says what `start` stands for: `micros` is
what it was at the assignment and the time since, less the wrap. The exception
is a clock of 0 at the first call, which `micros` takes as origin only at the
next one; `d` is what is missing then. `Pin` says, for
each place, how old the level is that the program saw last; it carries the
difference between the assignment and the begin of the pulse into the third
loop. `ElapsedIs` turns the subtraction of the code, in two widths and modulo
both, into the time since the assignment: modulo the range of `uint32_t` always,
and itself exactly when `Fits`, as what `start` lost is a multiple of that range;
this is where the range of `unsigned long` has to be one.

Only model-checked: all liveness, as fairness and `ENABLED` are out of the
prover's reach: `EveryWriteSent`, `CopyEndsWait`, `WatchdogEndsWait`,
`DestructorJoins`, `BufferDrained`, `BusGranted`, `LevelObserved`.

## 6. Not modelled

See "components" in `PROJECT.json`. Simulated chips and stubs have no state of
interest; `analogRead` and `analogWrite` return constants. Text (`Print`,
`WString`, `itoa`, formatting of log lines) is output only. Tests, boards and
build files are not part of the program. Of `Files` the contents of files and
the reading positions are left to a later module, and stdio's own failures are
outside the models. `pulseIn` is modelled on its own: its effect on the caches of
pins is that of `DigitalRead` in `GPIO`.
