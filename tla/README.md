# A verification of yoga-laptop

yoga-laptop makes the sensors and special keys of the Lenovo Yoga work under
Linux: a daemon that turns the screen and the touchscreen with the tablet,
programs that read Industrial IO (IIO) devices, patched kernel drivers for the
HID sensor hub, and a patched `ideapad-laptop` driver. This directory holds TLA+
modules that model the parts of it that run concurrently or must survive
failures, TLC configurations that check them on small instances, and proofs
that TLAPS checks for every instance. Paths below are relative to `src/`.

## 1. The system

| Component | State | Operations | Hard behaviour |
|---|---|---|---|
| Orientation daemon, `sensors/orientation.c` | last and previous reading, `screen_orientation`, `orientation_lock`, time of the last SIGUSR1, children | loop (`main`), `rotate_to`, `sigusr_callback_handler`, `sigint_callback_handler` | the handler interrupts the loop anywhere and calls `rotate_to` itself; `wait()` takes any child; `fork` and `exec` fail |
| Acquisition, `prepare_output` in `sensors/libs/iio_utils.h` | the device's trigger, buffer and descriptor | set-up, poll, read, shutdown, many error returns | poll without timeout, unverified writes, error returns that leave the device on, SIGINT at any step, a second process or `unstick` on the same device |
| Channel set-up, `sensors/libs/iio_utils.h`, `sensors.h` | the channel array | find device, enable, count, fill, sort, lay out, decode | directory read twice while others switch channels, sizes from files, drivers that push all channels whatever is enabled |
| Sensor hub, `sensors/drivers/hid-sensor-hub.c` | pending request, callback list, reference count | synchronous read, raw event, feature reports, register and remove callbacks, open and close, probe, remove, suspend | reader and event share the pending request under two different locks; removal during reads |
| Data-ready trigger, `sensors/drivers/hid-sensor-trigger.c` | `data_ready`, power and reporting state | switch on, switch off, set up, remove | order of close and power-off, failure half way |
| Sensor drivers, `sensors/drivers/hid-sensor-*.c` | last sample, channels | probe, remove, capture, push, read | unwinding, events during probe and remove |
| Embedded controller mailbox, `yoga_laptop/ideapad-laptop.c` 90-204 | the command and data registers | `read_ec_data`, `write_ec_cmd` | several threads without a lock, timeouts, late answers |
| Ideapad driver, `yoga_laptop/ideapad-laptop.c` | rfkill table, input device, backlight | probe, remove, notify, resume | failures while probing and unwinding |
| Light, hinge, generic_buffer | the device's names and channels, the last values | set up, then read and print, or set the backlight | arithmetic at the limits, set-up failures that are ignored |

How they interact. The trigger's `set_state` runs when a program writes
`buffer/enable`; it opens the hub and switches the sensor on. The hub's
`raw_event` gives each report's fields to a reader that waits for one and to the
driver's callbacks, which push a scan into the IIO buffer. A program's
`prepare_output` polls that buffer and gives the scan to a callback; for the
daemon that is `process_scan`, whose result the loop compares with the last one
before it calls `rotate_to`. Signals come from the user. `ideapad-laptop` stands
apart from the sensors.

What makes each part correct: the daemon leaves no child behind, rotates only
when it should, and what stays up is shown; an acquisition leaves the device as
it should, keeps no descriptor and can always be followed by another; a
synchronous read returns the attribute asked for, uses its buffer once and
always ends; a driver's callbacks are never used after its removal and the hub
is open exactly while a trigger is on; what a program decodes is what the sensor
measured, and the channel array holds what was counted; a mailbox command gets
its own answer; probing undoes exactly what it did.

## 2. Modules

| Module | Models | Checked by | Proved in |
|---|---|---|---|
| `Orientation` | `orientation.c`: the loop, the handlers and the rotations; a reading is an input | `MCOrientation` | `Orientation_proofs` |
| `Acquisition` | `prepare_output`, `sigint_callback_handler`, `unstick` | `MCAcquisition` | `Acquisition_proofs` |
| `HubRead` | `sensor_hub_input_attr_get_raw_value`, the pending part of `sensor_hub_raw_event`, `sensor_hub_remove` | `MCHubRead` | `HubRead_proofs` |
| `AtomicRead` | what a synchronous read promises, without locks or shared state | implemented by `HubRead` | `HubRead_proofs` |
| `SensorDriver` | the drivers' probe and remove, `hid-sensor-trigger.c`, the hub's callbacks, open and close, probe and remove, the rest of `sensor_hub_raw_event` | `MCSensorDriver` | `SensorDriver_proofs` |
| `IdeapadEC` | `read_ec_data`, `write_ec_cmd` | `MCIdeapadEC` | `IdeapadEC_proofs` |
| `Channels` | names and types of channels, sort, layout, decoding: pure operators | through `Scan` | `Values_proofs` |
| `SensorReports` | the channels, report parsing and sample capture of the eight drivers, the hub's walk over a report: pure operators | through `Scan` | `Values_proofs` |
| `Scan` | `orientation`, `light`, `generic_buffer` and `hinge` from the search for the device to what they make of a reading | `MCScan` | `Scan_proofs` |
| `Ideapad` | the rest of `ideapad-laptop.c` but for the values it shows and the radios' software-blocked state | `MCIdeapad` | `Ideapad_proofs` |

### Orientation

`pc` is the place in `main`'s loop; each action is one statement that another
activity could come before or after. The condition of the rotation (lines
428-429) is two steps, `TestStable` and `TestTarget`, since a signal may fall
between. `frame` holds up to two activations of `rotate_to`, the loop's and the
handler's, each with its stage and its argument; `RotateTo(f)` is the same code
in either. The handler's frame runs to its end before the loop goes on
(`MainAt`, `Running`), SIGUSR1 is blocked meanwhile and at most one more is
`pending`. `child` is the process table: an entry is `xrandr`, `xinput` or a
`clone`, a forked child that had nothing to exec or whose exec failed and that
therefore returned from `rotate_to` and goes on as a daemon; such a clone may
rotate the screen at any time. `display` and `touch` are what the programs did.
A reading is an input: `process_scan` gives the posture, or FLAT when the read
had nothing. The time of the last signal is the flag `recent`.

Faults, each an action or a disjunct: the device is lost (`DeviceLost`), a
verified write reads back something else (`AcquireMismatch`, the return of -1),
any other error return (`AcquireErrno`), a fork or an exec that fails, the end
by signal or by `--count`.

### Acquisition

`pc[u]` is where process `u` is in `prepare_output`, in the pause between two
calls, or in the SIGINT handler. The device is `trigger`, `buffer`, `data` and
`holder`. The kernel (external): the trigger cannot be changed while the buffer
is on, the buffer cannot be switched on without a trigger, the device can be
open once. Nothing looks at what `fprintf` and `fclose` return (lines 517-522 and
572-573), so a refused write has no effect and no error; only the verified ones
notice. A verification whose file opens but cannot be read compares with what
memory holds (`VerifyUnread`): a name is then found to differ, a number may
happen to agree. A write is one step, as its text stays in the stream until
`fclose`; but SIGINT may come after the `fprintf`, and then `pending[u]` is what
`exit()` (`sensors/orientation.c:241`) writes after the handler's own writes
(`Exit`, `Flush`). `caught[u]` (history) says that this was a 1 and the buffer was
on when the signal came. One refusal comes from `SensorDriver`'s side: when the
trigger's `set_state` cannot open the hub, the buffer stays off (`EnableRefused`).
`faulted[u]` (history) says that a fault hit the current call.
Any number of the processes may be there; one for which the others never were is
`Alone`, and what a single daemon can rely on is stated of it.

### HubRead

`pc[r]` is the statement of reader `r` between lines 255 and 291; `event` is the
one call of `raw_event` in progress, with the fields it still has to look at.
The spin lock is held exactly while `event.at # "idle"`, so only the reader's
steps under the lock (`Request`, `NoReport`, lines 262-270) and the one in
`sensor_hub_remove` wait for it; all its other steps interleave with the
event's. `raw_size` is modelled by whether it is 0, `raw_data` by whether it
points to nothing, to a live copy (and of which attribute) or to freed memory.
The test at line 438 may use the register `kmemdup` returned or read the field
again, so `SetSize` allows either. What the callbacks do at lines 444-460 does
not touch the pending request and is in `SensorDriver`.

`AtomicRead` is the same read as its caller sees it: a call for an attribute, a
report that holds it, an answer once one came, a return. `HubRead` implements it
with `asked` and `result` mapped to themselves and the mishaps of the exception
below to `excused`. `seen` (history) tells which readers' attribute has come in
a report since their call, so that an answer left over from an earlier read
would be no step of `AtomicRead`.

### SensorDriver

The eight drivers have one shape: their probe takes a copy of the channels,
parses the report, sets up the buffer and the trigger, registers the device and
then the callback; each failure goes to a label from which the same steps are
undone that a removal undoes. `pc[d]` is the step or label, `owned[d]` what the
driver holds, `left[d]` what it held when it was gone. `switch[d]` is the
statement of `set_state` that a writer of `buffer/enable` has come to;
`DeviceOpen`, `DeviceClose` and `SetPower`/`SetReporting` each hold
`data->mutex` throughout and are one step. `event` is the call of `raw_event`
in progress: the callback found for the last field, and in `missed` (history)
whether its driver was removed or its sensor switched off since. `hub` is the
hub's own probe, whose failure removes the clients added, or its removal.

External, from how the code uses it: `iio_device_unregister` waits for the
writers of the device's files and then switches off what is on; the HID layer
delivers reports once the hub's probe has returned. A driver in `Confused` (the
orient, custom and generic ones) gives `hid_sensor_remove_trigger` its `iio_dev`
where a `hid_sensor_common` is expected: what some other memory does as a
trigger is undefined, so the thread dies there (`oops`) or goes on with the
trigger in place. A sensor in `Mute` has no feature reports.

### Channels, SensorReports and Scan

`Scan` is one program on one sensor. `pc` is the phase: the search for the
device, the `_en` files one by one, the search for the trigger, the two passes
of `build_channel_array` file by file (`dir` is what is left of the directory),
the sort, and then the loop's call: trigger and buffer on, layout, wait, read
and decode, off. The call is coarser here than in `Acquisition`, as nobody else
calls; what is finer is everything before it and the values. `counter` and
`array` are the code's, and `broken` (history) says what undefined thing
happened: an entry past the end, the flag of a channel that is off written past
the end, an unfilled entry, a division by zero, a null file, a null or freed name.
`meddled` (history) holds the steps at which another actor switched a channel.

The values go all the way: a reading is laid out as a report of the device's
fields (`RawData`), walked field by field by `RawEvent` as `sensor_hub_raw_event`
does, taken out by the driver's `CaptureSample` as a whole word whatever the
field's size, pushed by `ProcEvent`, cut to the enabled channels' size by the
kernel (`HIDDatum`, external), appended to the fifo, read, and decoded by the
program's own copy of the decoding. Each of the eight drivers has its own
operators, since each is a copy of the code that could differ; `FieldAt`,
`ParseFields`, `CaptureAt` and `PushVals` hold what the copies share. A device
of some other driver (`foreign`) has types that the HID drivers never show: big
endian, three bytes used of four, unsigned, a shift, eight bytes.

Of the situations (`SetupType`) only this is assumed: the fields of a report have
distinct usages and sizes of at least a byte, and what is on or left on is of the
device. A report may hold fields of other usages, whose bits are all set, and may
lack fields of the device's own. `light` takes the first word of its memory for a
value whether or not the read gave one, and so does its model.

A byte has `ByteBits` bits and an int four bytes; every operation wraps at the
width the code gives it. A file's name is the sequence of its parts between
underscores, so `in_accel_x_type` is `<<"in", "accel", "x", "type">>`.

Faults, each at most once and at any place: a file that cannot be opened, which
ends the pass (`BuildFails`) or, if it is an `_index` file, the program, since the
result of line 389 goes to `fscanf` unseen (`IndexMissing`); a flag that opens and
cannot be read, so that the first pass counts a channel that is off
(`CountUnread`: `ret` keeps the length `asprintf` gave) and the second goes by what
was in the entry's memory (`FlagUnread`); a write that fails, a type file that
cannot be read, a driver that did not register its trigger, a refused trigger or
buffer, a read that fails. The device may come back under another number while the
daemon sleeps (`Renumber`), or with its channels off during the passes
(`DeviceReset`), when the second finds the directory it rewinds (line 334) empty.

### IdeapadEC

`pc[t]` is the next call of VPCW or VPCR in thread `t`'s read or write; several
sysfs files, rfkill, the backlight, the touchpad's state and ACPI notifications
are such threads. The driver has no lock, so their calls interleave. The
controller (external) takes the command register, executes and clears it; it
may be slow, so the command of a call that timed out is executed during the next
one. `alone[t]` (history) says that no other call and no such leftover crossed
this one, `seen[t]` what the cell to be read held meanwhile; `Flip` is a switch
of the machine turned by hand.

### Ideapad

`pc` is the step or label of probe and removal, `made` what is registered, `rfk`
the table of radios: an entry may be null, live, or freed, since a failed
`rfkill_register` (lines 523-527) leaves the pointer there and later loops use
it. `job[t]` is what the probe, the notification or a resume is doing: the bits
it still has to deal with, and the value it read and has not yet passed on. The
two syncs are the same code in any of the three threads. `cell` is the machine;
`hw`, `aux`, `told` and `power` are what rfkill, the keyboard controller, the
input layer and the backlight were told of it. A read of the controller is one
step and gives the cell's value or fails: that it is the right value is
`IdeapadEC`'s matter. `excused` (history) says what may be out of step because a
read failed or two threads crossed; a later read that nobody crosses takes it
back. A loop over the radios is one step, as nobody else looks at the table
then; using a freed entry kills the thread or does nothing.

## 3. What the runs check

| Run | Instance | Properties | Distinct states |
|---|---|---|---|
| `Orientation` | two process identifiers, flat or one edge, 3 signals, 1 fault of any kind, 1 turn of the tablet | `TypeOK`, `ChildrenAwaited`, `Agreement`, `AutoRotationJustified`, `RotationCompletes`, `StableEdgeShown` | 715 thousand |
| `Orientation_errno` | 2 faults, no signals | `AutoRotatesToEdge` (violated) | |
| `Orientation_edge` | three postures, 3 signals, no fault | `EdgeUpIsShown` (violated) | |
| `Acquisition` | one or two processes, 3 faults, unstick once | `TypeOK`, `DescriptorTracked`, `QuietAfterCleanCall`, `StopTurnsBufferOff`, `ReadsGoOn`, `PollEnds` | 1.1 million |
| `Acquisition_interrupted` | one process, one SIGINT | `DeviceOffWhenFinished` (violated) | |
| `HubRead` | two readers, two attributes, no bound on reads, reports, failures | `TypeOK`, `FreedOnce`, `AnswersMatch`, `ReadsReturn`, `ReadsAtomically` | 163 thousand |
| `HubRead_locked` | the same | `PendingProtected` (violated) | |
| `SensorDriver` | two drivers, one of them confused, reports of one sensor, of both, of one without a driver | `TypeOK`, `CallbackAlive`, `OpenWhileUsed`, `PowerFollows`, `ScanWhileOn`, `NothingLeft`, `RemovalEnds` | 186 thousand |
| `SensorDriver_removed` | the same | `Deinitialized` (violated) | |
| `IdeapadEC` | two threads, a cell and a switch of two values | `TypeOK`, `ReadRight`, `WriteRight`, `CallsReturn` | 86 thousand |
| `Ideapad` | every machine, one radio, 2 events from outside, any failures | `TypeOK`, `UsesLive`, `Undone`, `RadiosFollow`, `TouchpadFollows`, `BacklightFollows`, `RemovalEnds` | 1.2 million |
| `Scan` | 22 situations: each program, each driver, fields of 1, 2, 4 and 8 bytes and of mixed sizes, in both orders, with a foreign field or one missing, the directory in both orders, channels and buffer left on by an earlier program; bytes of two bits, two scans in the fifo, one fault, one switch by another actor | `TypeOK`, `ValuesRight`, `CallbacksRight`, `ArrayFits`, `EndsWithCause` | 1.2 million |

What they show.

* `ChildrenAwaited`: however the two frames take each other's children, there
  are never more unreaped children than waits under way, so a daemon outside
  `rotate_to` has no zombie. `RotationCompletes`: no wait blocks for ever.
* `Agreement`: with no rotation inside a rotation and every child started, the
  screen and the touchscreen agree with `screen_orientation` between rotations.
  `StableEdgeShown`: under the same condition an edge that stays up is shown.
  The condition is needed: `Orientation_edge` shows the screen turned the wrong
  way for good after a rotation by hand inside an automatic one, because line
  202 sets `screen_orientation` before `xrandr` runs.
* `AutoRotationJustified`: the loop rotates only for two equal readings, to a
  new edge, while not suspended, or when a signal was handled since the reading.
  The exception is needed: a signal between lines 429 and 430 lets a rotation
  start after rotation was suspended, and one inside the test lets it start on
  one reading.
* `Orientation_errno`: line 425 takes every result but -1 for an orientation; two
  equal error numbers rotate to an orientation that does not exist.
* `QuietAfterCleanCall`, `ReadsGoOn`: error returns leave trigger and buffer on
  (line 708 and others), yet the next call always recovers. `DescriptorTracked`:
  no path keeps the exclusive descriptor. `PollEnds`: two processes cannot stop
  each other's buffer for ever. `ReadsGoOn` excepts one fault: when the buffer is
  refused and the file read back cannot be read, the call may believe that it is
  on and poll for ever.
* `StopTurnsBufferOff`: wherever SIGINT falls, the buffer is off in the end, with
  one exception: the 1 was in its stream and the buffer on already, left so by an
  earlier call that failed. Then the kernel refuses to disconnect the trigger, the
  handler stops the buffer, and `exit()` writes the 1, which turns it on again. When
  the buffer was off, the trigger is disconnected and the late 1 refused.
  `Acquisition_interrupted` shows the trigger left connected, because the handler
  disconnects it before it stops the buffer.
* `FreedOnce`: no buffer is freed twice or read after it was freed, although
  `kfree` leaves the pointer. `AnswersMatch`: an answer is 0 or to the question,
  unless a reader clears the request under an event past its test, or a second
  copy for the same read fails. `HubRead_locked` shows why the exception is
  there: the value of another attribute is returned. `ReadsReturn`: every read
  ends, through timeouts, missing reports and removal. `ReadsAtomically`: a read is
  `AtomicRead`'s, so an answer comes out of a report received after the call.
* `OpenWhileUsed`: the hub's count is exactly the number of sensors in use,
  whatever opens fail and drivers go, and until the hub's removal its device is
  open just when that is not 0. `PowerFollows`: a sensor whose driver is gone was told to stop, and one
  that is on to report, although switching off closes the device first.
* `CallbackAlive`, `ScanWhileOn`: an event uses the callbacks of bound drivers and
  pushes scans of sensors that are on, except when the driver was removed, or the
  sensor switched off, between the lookup or the test and the use. Nothing in
  the code waits for such an event: `sensor_hub_remove_callback` takes the lock of
  the list, and `raw_event` holds another one.
* `NothingLeft`: whichever step of a probe fails, all but the copy of the channels
  is undone; when `parse_report` fails, the driver frees `indio_dev->channels`,
  which is not yet the copy. `SensorDriver_removed` shows that the three confused
  drivers leave their trigger. `RemovalEnds`: the hub's removal ends with sensors
  on and files being written, unless a confused driver's thread dies in it.
* `ValuesRight`: whatever the order of the directory and of the report's fields and
  whatever their sizes, a decoded value is the number the sensor measured, if the
  array holds the channels that are on. In generic_buffer it is that number times
  the channel's own scale, and one kind of value is excepted: unsigned values of
  four bytes it neither shifts nor masks (`sensors/generic_buffer.c:133-138`), so
  that of `le:u24/32>>8` it prints 256 times the number and whatever is in the unused
  bits (`Converted`). The condition on HID sensors is needed: their
  drivers push all channels and the kernel hands on the first bytes, so with `x`
  off a program takes `x` for `y`. So is the one on the width: of a quaternion
  only the first word is captured. The comment at `sensors/generic_buffer.c:110`
  says that values are printed in SI units. That is not so for these unsigned values,
  nor for HID sensors: generic_buffer finds a channel's own scale only, never
  the one that a HID sensor's channels share, and prints the raw number.
* `CallbacksRight`: the daemon's edge is one that gravity pulls at, and none pulls
  more than one and a half times as much; the backlight is between 1 and its
  maximum whatever was read, and within these limits is the light's proportion of
  the maximum rounded down, from below as from above. The first needs four times each
  reading to fit an int, the last a reading that is not negative, a product that
  fits an unsigned and a quotient that fits an int.
* `ArrayFits`: the array is overrun only when a channel was switched after the
  counting began or a flag could not be read in the second pass, and sorted with
  holes only for these reasons or when a flag could not be read in the first pass
  or the device went away: neither pass looks at what `fscanf` returns (lines 323 and
  354). The flag of a channel that is off is written
  behind the last entry whenever one follows it, which takes a channel that
  `enable_sensors` did not get on: the kernel refuses while an earlier program's
  buffer is on, and nobody looks at what the write returned.
* `EndsWithCause`: a division by zero takes an unreadable type or an array without
  channels; a null file takes an `_index` file that cannot be opened; null names take
  hinge and a set-up that failed; and a daemon that gives
  up had no device, no trigger, an unreadable file, or a device that came back
  under another number, whose trigger it looks for under the old name.
* `ReadRight`, `WriteRight`: a mailbox call that succeeds did what it was for, if
  nothing crossed it. Without that condition neither holds: a second thread's
  command, or one left by a timeout, answers the read. `CallsReturn`: every call
  ends even if the controller never answers.
* `UsesLive`: whichever thread it is, and however far probe or removal is, the
  input device and the backlight are used only while they are registered.
  `Undone`: a driver that is not bound left nothing registered. The exception is
  `ideapad_debugfs_init`, which when it fails halfway leaves its directory, as
  `debugfs_failed` is below `ideapad_debugfs_exit`; every later probe then fails.
* `RadiosFollow`, `TouchpadFollows`, `BacklightFollows`: when nothing is pending,
  what the kernel was told is what the machine does. The exceptions are needed: a
  resume that read before a switch was turned and reports after the notification
  leaves the old value until the next change, and so does a notification of the backlight's
  power that crosses a program's setting.

Bounds and why they are enough. Two process identifiers are the most children
two frames can have (`NoZombies` proves it for any number). Three signals
suspend, rotate by hand, and interrupt what follows; one fault of each kind
falls at every step, and errors in a row are the second run's. `Acquisition`
allows three faults, so that a call can meet the leftovers of several. In
`HubRead` nothing is counted: the state space is finite as it is, and two
readers suffice because the mutex admits one while the others wait. The reports
hold two attributes or one of them twice, so that an event can match twice.
`SensorDriver` and `IdeapadEC` count nothing
either: two drivers are what it takes for one to use the hub while the other
comes or goes, and two threads for one call to cross another. In `Ideapad`
two events are a switch turned and turned back, or a switch and a setting; one
radio is enough because the loops treat all alike and the entries do not meet.
In `Scan` a byte of two bits makes an int of eight, so that readings, sign bits,
products and the wrap-around all meet within a few hundred values; the code's
decoding is the same for every width. Two scans are what tells the oldest from
the latest, and one switch between any two steps what it takes for the passes to
differ. The readings have each edge, the borders between them and the extremes.
Deadlock is not checked where the process may end or the device may be removed.

Fairness. `Orientation`: the daemon, the kernel's delivery of a pending signal
and the programs started run (weak fairness); nothing is assumed of clones, the
user, the clock or the faults. `Acquisition`: each process is scheduled and the
sensor goes on sampling (the hub reports periodically once a trigger is on).
`HubRead`: threads run and the sleep ends after five seconds (weak); the mutex
and the spin lock queue their waiters, so no waiter is passed over for ever
(strong fairness of `Lock` and `Send`); nothing is assumed of the device.
`SensorDriver`: threads run, and the hub's removal removes every driver (weak);
a driver's removal shuts its files to new writers, so that it is not kept waiting
for ever (strong fairness of `Unwind`); nothing is assumed of the device, of
programs, or of users who bind and unbind drivers. `IdeapadEC`: threads run and
time passes (weak); nothing is assumed of the controller. `Ideapad`: the probe,
the removal and each thread go on (weak); nothing is assumed of the machine or of
who binds and unbinds the driver.

## 4. What is proved

For every value of the constants that the named assumptions admit:

* `Orientation_proofs`: `Typing`; `RotationJustified`, from the invariant that at
  the two test steps the last reading recorded is the value the loop holds,
  unless a signal came; `NoZombies`, whose invariant is `ChildrenAwaited` itself:
  a fork adds at most one child where one wait becomes due (`ForkCounts`), a wait
  that returns has taken one or found none (`WaitCounts`); `ScreensAgree`, for which
  `AgreeInv` says of the one active frame how far it is: its only child is the one
  it waits for, and a child that is done has done its work.
* `Acquisition_proofs`: `Typing` and `DescriptorSafe` for any set of processes;
  `CleanCallIsQuiet` and `StopIsSafe` for any that is alone of them, as these
  properties ask. The invariant `CleanUpInv` says what the labels from
  `verifyTrigger` on know of trigger and buffer; that a 1 still in its stream is
  either `caught` or meets, by the time of `exit()`, a disconnected trigger; and
  that a process once alone stays so (`AloneFromTheStart`). It does not hold of two processes at once, nor do the
  properties.
* `HubRead_proofs`: `Typing`, `NoUseAfterFree` and `AnswerIsToTheQuestion`. `Inv`
  says that only the holder of the mutex is past the lock, that status is off
  between memset and request, and that between memset and kfree the pointer is
  not a freed one. `Clean` adds, for runs without mishaps, that the request, the
  matched field, the copy and the reader's own argument are one attribute, and
  that a size that is not 0 has a copy behind it. `HubReadsAtomically` is the
  refinement: `FreshInv` adds that a copy in the clean hub belongs to a call whose
  attribute came since, `ReaderRefines` and `OtherRefines` map each action to a
  step of `AtomicRead` or to a stutter.
* `SensorDriver_proofs`: `Typing`, `CallbacksLive`, `CountIsRight`, `ScansWanted`
  and `CleanRemoval`, for any drivers, usages and reports. `DriverInv` says of each
  label which resources are held, that only a bound driver is in the list, and
  what `switch` and `data_ready` may be there; `EventInv` says what the event in
  progress knows of its callback's driver; the count is `OpenWhileUsed` itself,
  by the cardinality of the users before and after one of them comes or goes.
  `SensorsFollow` rests on `PowerInv`, which says of each step of switching which of
  the two features were set, because nobody but the sensor's own driver sets them.
* `IdeapadEC_proofs`: `Typing`, `ReadsOwnAnswer` and `WritesTakeEffect`, for any
  threads and cells. The invariant says, of a call that is alone, which command is
  in the register or running, that no other thread is in a call, and, past the
  poll, that the data register holds a value seen or the cell the value written.
* `Ideapad_proofs`: `Typing`, `OnlyWhatLives` and `NothingRegistered`, for any
  radios and events. `MadeInv` says what is registered at each step and label,
  `JobInv` in which of them each thread may be at work and where. `RadiosRight`,
  `TouchpadRight` and `BacklightRight`: the properties speak of settled states only,
  so the invariants speak of all others. While something is pending nothing is
  claimed; else a value being passed on is the machine's (`RadioInv`, `TouchpadInv`,
  `BacklightInv`), and two threads that pass on the same are excused (`Alone`), so
  the one that ends last is right. `Effects` lemmas say what each action does to a
  job, `Frames` lemmas which actions leave radios or touchpad alone.
* `Values_proofs`, about the operators of `Channels` and `SensorReports` for every
  width of a byte and data of every length. These operators are recursive functions
  (`Pow2`, `Number`, `Ends`, `FlattenSeq`, the walk over a report), so each needs an
  induction over data. Since no induction rule over a predicate is at hand, it goes
  by the least counterexample: `Least` takes it from the well-foundedness of the
  natural numbers, a fact about sets, `Induction` says it of sets of numbers, and
  `Recursion` that a recursive function is what its equations say. On these rest
  the machine's integers (`Signed` and `Unsigned`, shifts, the bytes of a number and
  back), `LayoutHolds`, `DecodeSignedRight`, that an array in the directory's order or
  in the opposite one is sorted (`SortRising`, `SortFalling`; other orders are not
  modelled), and what each of the eight drivers parses and captures.
* `Scan_proofs`, for any situations, readings, faults and bounds. Its invariant
  `AllInv` has these parts.
  * `PassInv` gives `ArrayHolds`: `DirInv` says that `dir` is what is left of the
    listing and `FilledInv` that the array has at most an entry for each file read.
    `CountInv` says that, unless a channel was switched since, a flag was not read or
    the device was reset, `counter` is the number of enabled channels among the files
    counted and the array has as many entries as there are among the files read.
    For the overrun less is enough: `RoomInv` says that there is room for what is
    still to be read, which a flag not read in the first pass and a reset only add to.
    `OnInv` and `CountedInv` say that the channels seen are on, and were counted,
    unless something kept one off.
  * `BasicInv`, `ArrayInv` and `SomeOn`: each entry of the array is a channel of the
    device with its name, index and type, or with the memory's junk for its type once
    a type could not be read; the indices rise or fall with the directory, and rise
    when the program runs. The array is empty only if some channel was off. With them
    `EndsWithCause` is inductive (`EndHasCause`).
  * `ResultInv`: the buffer holds readings, and what the program decoded is its
    operator (`ProcessScan3`, `PrintScan`, `DecodeSigned`) of the bytes read.
    `HIDWords` says what the driver captured of a report, `DatumHolds` and `DataHolds`
    that the kernel lays the enabled channels out where the program looks for
    them, `ReadRight` that the decoding undoes the encoding. From these follow
    `TypeHolds`, `ValuesHold` and `CallbacksHold`.

Every safety property of the passing runs, the refinement included, is stated by a
theorem. Model-checked only are the liveness properties (`RotationCompletes`,
`StableEdgeShown`, `ReadsGoOn`, `PollEnds`, `ReadsReturn`, `RemovalEnds` of two
modules, `CallsReturn`), since the proof system has no reasoning about fairness, and
the violations, which are counterexamples.

## 5. Plan

Done, in this order: `Orientation`, `Acquisition`, `HubRead`, `SensorDriver`,
`IdeapadEC` and `Ideapad`, each with its theorems; `Scan` on `SensorReports` and
`Channels`; `AtomicRead`, its refinement checked and proved. What is left are
further abstract specifications: a display that follows its user, implemented by
`Orientation` without overlaps; an atomic mailbox, implemented by `IdeapadEC` for
calls that are alone.

## 6. Not modelled

The scripts, unit files and key tables (straight-line, without state of their
own), and the lists of constants. Of the modelled files: option parsing, printing
and the desktop notification; the clean-up of memory at the end of a program.

* `ideapad_rfk_set`: rfkill gives the callback the index of the radio, which line
  469 sends to the controller as the command, in place of the radio's opcode. What
  the controller makes of the commands 0 to 2 is not known from the code, so a
  model of the radios' software-blocked state would be invented.
* The values of camera, fan and brightness, and the debugfs reports: each a read or
  write of the controller, which `IdeapadEC` has, and a conversion.
* In the hub: suspend and resume, which call callbacks that no driver sets;
  `get_feature`, which changes no state; `report_fixup`, which patches one
  device's descriptor before the HID core parses it.
* In the drivers: `read_raw` and `write_raw`, but for the synchronous read they
  make (`HubRead`).
* In hinge: that two devices are read in turn, and its signal handlers, copies of
  those that `Orientation` and `Acquisition` model.
* In `build_channel_array`, an `fscanf` of an `_index`, scale or offset file that
  fails after the file opened: the number is then what memory holds, and the array
  may be in any order. That the device goes away and comes back at another time than
  during the two passes, or while the daemon sleeps.
* In `Acquisition`, SIGUSR1: its handler (`Orientation`) does not touch the device,
  wherever it interrupts a call or the SIGINT handler interrupts it.
* Locks inside the C library and the notification library, which the SIGUSR1
  handler may take while the loop holds them, and the setting of the wall clock.
