# Formal models of smartaq

smartaq is the firmware of an ESP32 aquarium controller. It keeps a table of
devices (sensors, pins, pumps, schedules, switches), serves it over HTTP, stores
it on flash and runs the devices' periodic work in a small pool of threads. This
directory holds TLA+ models of it, TLC configurations that check them on small
instances, and TLAPS proofs that hold for every value of the constants. Paths
below are relative to `src/smartaq/`.

## 1. Inventory

| Component | State | Operations | Talks to |
|---|---|---|---|
| Task pool (`utils/task_pool.h`, `utils/container/fixed_size_optional_array.h`) | array of optional tasks, next id, one recursive lock and a condition variable; trackers held by owners | `postTask`, `removeTask`, `doWork` (scan, run, repost, wait), tracker moves and destructors | every component with periodic or delayed work |
| Main task, workers (`main_thread.cpp`) | three threads, a heartbeat task each | start-up sequence, `doWork` | task pool, store, web server |
| File setting (`storage/settings.h`) | one structure in RAM, its last saved copy, the file and its `.tmp` | `get_value`, `set_value` | file system, store |
| Other storage (`storage/local_flash_storage.h`, `utils/filesystem_utils.*`, `storage/flash_storage.h`, `sd_filesystem.*`, `rest_storage.h`, `dummy_storage.h`) | wear-levelling handle, mount state, files written safely | mount, backup, restore, `safeWriteToFile`, `loadFile` | FAT driver |
| Device table (`utils/container/event_access_array.h`, `actions/device_actions.*`, `drivers/devices.h`, `storage/store.h`) | per index: configuration, initialised flag, name, and a runtime device or none | add, remove, write, write options, read, overview, periodic update; save after each changing event | drivers, file setting, REST, worker threads |
| REST layer (`rest/*`, `network/webserver.h`) | one request at a time, a buffer | decode, dispatch, answer | device table, buffers |
| Buffer pools (`utils/large_buffer_pool.h`) | available and borrowed lists under a lock | get, move, give back | REST, logger, storage |
| Sensor wrapper (`drivers/driver_interface.h`) | driver, error count, tracker | update, read, move | task pool, sensor drivers |
| Pin driver (`drivers/pin_driver.*`) | GPIO level, PWM channel, timer | write, timed write, reset | task pool, device resources |
| Switch driver (`drivers/switch_driver.h`) | previous value, state, tracker | watch and react, safety off | device table |
| Schedule driver (`drivers/schedule_driver.*`, `utils/time/*`) | day and week schedules, per channel the event run last, a file with it | find the current event, catch up, save the tracker | device table, file system, clock |
| Steppers and pumps (`drivers/drv8825_driver.*`, `rmt_stepper_driver.*`, `dosing_pump_driver.*`) | 16-bit steps left, worker thread | add steps, run, stop | device resources |
| Bus sensors (`ds18x20`, `ads111x`, `bme280`, `dhtxx`, `pcf8575`, `ph_probe`, `scale`, `pico_device`) | address registries, last samples | create, read, calibrate | I2C, one-wire |
| Device resources (`drivers/device_resource.*`) | owner of each GPIO, timer, LED channel, bus | claim, release | drivers |
| Mutexes (of the table, the tasks, the resources, the pools, the settings, the samples, the log; `main_thread.cpp`, `storage/store.h`) | who holds and who waits for what | every call under a lock, joins of drivers' threads, the store's first initialisation | all threads |
| Samples (`utils/container/sample_container.h`, `ring_buffer.h`, `drivers/stats_driver.h`, `actions/stats_actions.*`) | bounded windows of samples | add, average | device table |
| Small containers (`bitset.h`, `lookup_table.h`, `stack_string.h`), settings and stats actions, logger, WiFi, clock, JSON, TLS files | | | |

### What is hard in it

- Objects post tasks whose argument is `this`, and are moved and destroyed by
  another thread while their task may be running.
- A save consists of six calls that can each fail, and the power can fail
  between any two of them.
- The table is saved from a reference that is read after the lock was released.
- Workers and the HTTP thread share every device behind one recursive lock, and
  devices call back into the table.
- Timers, retries and schedules must not be lost, run twice or run late.
- A partition is unmounted, erased and rewritten while settings use it.
- Functions lock inside each other: the table, then whatever a device needs;
  devices use devices, and threads are joined under the table's lock.

### What makes each part correct

- Task pool: a task is in exactly one place; a removed task never comes back; a
  handle names its own task or none; nothing is late while a worker is idle;
  every task runs.
- File setting: a reboot finds the old value or the new one, complete; a save is
  skipped only if the file holds the value.
- Device table: what is saved is what the table holds; a slot's name, driver and
  runtime device belong together; names identify devices.
- Buffers: a buffer has one holder; none is lost.
- Sensor wrapper: a sensor that answers can be read; one that does not is refused
  until it was initialised again.
- Switch: the device written to gets the level the reading calls for, or the
  default where there is no reading, whatever failed before.
- Samples: the last ones in their order; one wild sample is rejected, a value
  that has moved is accepted again.
- Device resources: one owner each; what a device held is given back.
- Schedule: every event runs once, in order, and is not run again after a reboot.
- Steppers: the steps requested are the steps made.
- Timed pins: on for as long as asked, and off again, however writes and timers
  cross.
- Flash: an image that was uploaded in full and answered is what the partition
  holds.
- Mutexes: no threads wait for each other in a circle, and none for itself.

## 2. Plan

Most important first: what every other part runs in, then what survives a reset,
then what the owner of an aquarium relies on.

1. `TaskPool`, with proofs. *(done)*
2. `AtomicSetting`, `FilesystemSetting`: the configuration survives, and the file
   setting refines what it promises. *(done, with proofs)*
3. `DeviceTable`, `BufferPool`: the devices and the requests that change them.
   *(done, with proofs; reading events, decoding and answering are left out)*
4. `WeekSchedule`, `DaySchedule`, `ScheduleDriver`: doses once and not twice, the
   right event whatever was edited, interpolated values. *(done, with proofs)*
5. `RingBuffer` refining `SlidingWindow`, `SampleContainer`, `ControlLoop`: what
   sensors tell and what switches make of it. *(done, with proofs; liveness is
   checked only)*
6. `Stepper`: the 16-bit counter `mStepsLeft` that requests add to and the
   stepping thread takes from, the thread's end, the pump's factor. *(done, with
   proofs)*
7. `DeviceResources`: pins, timers, LED channels, the I2C port and the lists of
   bus addresses: one owner each, what a removed device gives back, what a boot
   finds. *(done, with proofs)*
8. `PinDriver`: outputs, PWM and timed pins. *(done, with proofs)*
9. `LocalFlash`: mounting, and the upload of an image. *(done, with proofs)*
10. `Locks`: the order of all mutexes. *(done, with proofs)*
11. *(open)* A schedule's doses composed with the stepper that makes them, and a
    sensor's refusals with the pool's fairness: each is shown to do its part here,
    under the assumption that the other does.

Parts of drivers are checked together in `MCDevices` and `MCResources`, storage
and locks in `MCStorage` (section 3).

## 3. Modules

A comment in front of an action or operator names the function it stands for;
`PROJECT.json` has its lines. Definitions marked "Mutant" are plausible mistakes,
used to see that the properties notice them; nothing else refers to them.

### TaskPool

A critical section under `taskListMutex` is one action. `slot` is `_tasks` (an
id per slot; the description is in `kind`, `arg`, `due`, `epoch`), `job[w]` the
copy `nextTask` a worker runs, `pc[w]` where worker `w` is in `doWork`, `sleep`
its planned wake-up, `tracker[o]` the id in the tracker an object holds and
`old[o]` the id of a tracker that a move assignment has swapped out and that is
about to be destroyed. Time is relative: `due[i]` counts down in `Tick`.

| Action | Code |
|---|---|
| `PickTask`, `NothingDue`, `LockTimeout` | the locked part of `handleTaskExecutions` |
| `EndSingleShot`, `Repost` | what follows when `func_ptr` returns, with `repostTask` |
| `EnterWait`, `TimeOut`, `Notified` | the rest of `doWork`'s loop, and the two ends of its condition-variable wait |
| `PostRepeating`, `PostSingleShot` | `postTask` as its callers use it: sensors, updater and heartbeat post while the tracker is inactive, a timed pin posts and then swaps |
| `DestroyOld`, `Invalidate`, `Destroy`, `Create` | the tracker's destructor and `invalidate`, the life of the objects that hold trackers |

Left out: what tasks do (each is modelled where it belongs), the wrap of the
64-bit ids, `doWork`'s clock reading between the scan and the wait (a tick may
fall between them).

### AtomicSetting, FilesystemSetting

`AtomicSetting` says what a save promises: the durable value changes in one step
from the old to the new one. `FilesystemSetting` is the code: the real file
`main`, the temporary file `tmp`, `m_setting`, `m_written` and `m_initialized`,
one action per call that changes the disk, and `PowerFail` between any two. Which
calls fail is the constant `Faults`. Files hold a value, a mixture (`Torn`), or
something of another size (`Short`). FAT does not rename onto an existing file.
The refinement maps the durable value to what a boot would read, the pending one
to `m_setting` while a save runs, and `exposed` to the absence of the real file.

### DeviceTable

`values`, `initialized` and `names` are the persisted arrays of
`EventAccessArray`; a configuration is the pair of the driver it names and the
driver whose data it holds. `runtimeData` holds the devices that exist, `file`
is what a boot reads and `written` is `m_written`. The HTTP server handles one
request at a time, so a request and its save are two actions between which only a
boot may come (`unsaved`). A save of what `m_written` holds is skipped and counts as
done; one may fail, which nobody is told (`store.h:23`): `lost` says that the last
one did, and the next one that works makes up for it. One whose `rename` fails has
removed the file by then, and a boot reads the new table's `.tmp` while `m_written`
stays behind (`astray`): after tables A, B (its rename fails) and A again, which is
skipped, a boot finds B. That is `setting_rename`'s finding, and `AnsweredIsSaved`
speaks of the times before it and after the next save that works. It begins with the
first save of a boot that writes (`assigned`): before, a table of zeroes equals the
`m_written` nobody has assigned, so that removing the last device may be skipped and
a boot finds it again. A boot that cannot mount or open the file goes on with
zeroes (`RebootUnread`). What is torn by a write or a read that stops in its middle
or by `fclose`, and what a failing save does to a table that is in `.tmp` only, is
`FilesystemSetting`'s and left out here. Bytes that the model does not tell apart,
behind a name's end say, may make a save write where it could skip: `Save` needs no
difference.

| Action | Code |
|---|---|
| `AddDevice` (`Add`, `AddFails`) | `dispatch(SetValue)`: `findIndex`, `create_device`, the driver's `create_driver`, the insertion, failures before and after the driver wrote its data |
| `RemoveDevice` | `dispatch(RemoveValue)` |
| `WriteOptions` | `WriteDeviceOptions`, whose event has no name |
| `LeaveTable` | a value written to a device, an index out of range, a full table |
| `Save`, `SkipSave`, `SaveFails` | `handleStore`, `set_value`, `storeToFilesystem` |
| `Reboot`, `RebootUnread` | power failure, `initValues` with and without the file, `initialize` |

`given` is history: the name the slot's device was added under. The first boot
is taken to find zeroed memory. Two more ways in which one name comes to stand
for two devices need no run of their own: adding by an index gives a name
without a search, and a name that does not fit leaves the slot's name as it was.
The runs that check names therefore add by fitting names only, and the theorem
says so in its assumptions.

### BufferPool

`borrowed` are the buffers whose status says so, `held[s]` what the borrower in
scope `s` holds: the request, its headers and the action it runs, and the health
task of each worker. A scope that finds no buffer is not stopped by the program,
which goes on to use it; what happens then is beyond the language and the model
just goes on. `NoEmptyUse` says when it cannot happen. The second pool, of small
buffers, is used unasked too (`pico_device_driver.cpp:193`, `settings.h:175`); its
scopes are not modelled.

### WeekSchedule, DaySchedule, ScheduleDriver

`WeekSchedule` is the search for the event in effect at a time of the week, and
for the next one, as the code does it (`CurrentEvent`, `NextEvent`) and as it is
meant (`Occurrence`, `NextOccurrence`, on a line of time that does not wrap), and
the interpolation between the two. Only repeating schedules exist: the parser can
build no other. A day has `Slots` times instead of its seconds.

`DaySchedule` has the array behind those sets: `datapoints`, kept sorted by time,
where a removed time point keeps its data in a place that only its time marks as
unused (`Insert`, `RemovePoint`), and the searches from the back and from the front
as they run over the places. `std::ranges::sort` leaves the order of equal times
open, so `Reordered` is the set of all sorted arrays with the same contents. `SearchFinds` says that they find
what `WeekSchedule` says of the set of time points that are there.

`ScheduleDriver` is one device with its two files. `now` runs on an unbounded
line, and every action sees `now % Week` only, as `localtime` tells it. The
channel times are times of the week in RAM (`channelTime`) and in the state file.
History variables carry the moments they stand for: `written` (per channel time),
`lastWrite` (per channel), `forgot` (the channels whose last write is on no file
any more, was not read, or whose events were replaced), `served` (the update at `now` wrote all
it had to) and `again` (what it wrote twice).

| Action | Code |
|---|---|
| `Create`, `Start`, `StartFails` | `create_driver` from a request, `loadAndUpdateSchedule`, the steps of `safeWriteToFile` |
| `Start`, `NothingRead` | `readChannelTimes`, with all, some or none of the file read |
| `Boot`, `BootWithout` | `create_driver` from the table |
| `Update` | `updateValues` with `SingleShotTracker` or the hold tracker; any of the writes may fail |
| `SyncFails` ... `SyncRenameFails` | `synchronizeChannelTimesToFile` |
| `Remove`, `PowerFail`, `Tick` | the table, the power, the clock |
| `SetClockBack` | the end of summer time or a correction of the clock |

Behaviour worth knowing, which the model reproduces: a state file that is lost,
that cannot be opened (`schedule_driver.cpp:273` takes the -1 for success) or that
is short reads as zeros, which stand for Sunday's first slot, so that on most days
the event in effect counts as due again and on some as done; only a file of which
not one byte is read fails the creation, or the boot, after the schedule file was
rewritten. `Start` chooses the channels whose times are not read at every start, so
that a state file cut short by an `fclose` that failed (`safeWriteToFile` does not
look at it, `filesystem_utils.cpp:151`) is one of its cases, but for a time cut in
its middle; a schedule file cut short is not modelled. Replacing the schedule
forgets what was written; a device that was just created writes the event in
effect at once.

`Spec` is the program while local time does not go back, `SpecAnyClock` adds
`SetClockBack`.

### SlidingWindow, RingBuffer, SampleContainer

`SlidingWindow` is a sequence of at most `Capacity` items. `RingBuffer` is the
array, its first place and its count; `IsWindow` is the refinement, the window
being `Contents`. `SampleContainer` adds `putSample`: time since the last sample
in ticks, rates of change in integral parts of a tick's (`Unit`), so that no
division of the code is rounded in the model. The samples' average is not
modelled; where a property speaks of it, it is of the samples it is taken of.

### ControlLoop

A sensor in its wrapper, the switch that reads it, and the device the switch
writes to. `errors` is `mErrorCount`, `posted` says that the wrapper's task is in
the pool, `reading` is what `read_value` gives. The switch keeps `previous`
(`mPreviousValue`), `since` (the time since `mSwitchedStatesAt`) and `target`;
`level` is what the written device holds and `silent` is history.

| Action | Code |
|---|---|
| `Create`, `Remove`, `Reboot` | `create_driver` of the wrapper, `RemoveValue`, `initValues` |
| `Iterate`, `Reinit`, `ReinitAstray` | `updateThread` below and at `MaxErrors`, the latter with `ds18x20` or `dhtxx`, and with `bme280` |
| `Update` | `update_runtime_data` of both: post the task, `watchValuesAndReact` |
| `SetTarget` | `write_value` |
| `SensorChanges`, `DeviceChanges`, `OtherWrite`, `Tick` | the surroundings |

The comparison of device values belongs to a library that is not in the
repository; only its sign matters and it is taken from the code (the comment at
`switch_driver.h:258` describes it the other way round). Behaviour worth knowing:
drivers whose `reinit` always succeeds (`ds18x20`, `dhtxx`) answer with a dead
sensor's last average in three of four periods; the only `reinit` that talks to its
sensor, `bme280`'s, reads its configuration through `mConf`
(`bme280_driver.cpp:180`), which the move constructor (`:204`) does not copy and
nothing else sets, and every wrapped driver was moved (`driver_interface.h:72`,
`:132`, `:146`). What the pointer holds is indeterminate, so `ReinitAstray` lets the
call seem to succeed, fail, or end in a panic and a reset, whatever the sensor does.
`Noticed` holds for all drivers all the same: the sensor is refused again and again,
if not for good. A `bme280` that is silent at a reset is not created (`Creatable`).
Also, a switch configured to write on
changes only takes what it sent last for what the device holds, so that after a
write that failed, or after the default level, it may never send again; before
the first sample the average is whatever the memory held.

### Stepper

A `DRV8825Driver` and its thread. `stepsLeft` is `mStepsLeft`, a counter that
wraps at `Modulus`; `current` is what the thread has taken with `exchange(0)`,
`phase` where it is; `asked` and `made` are history and count without wrapping.
`factor` is a pump's `unitTimesTenPerMl` and `measured` the calibration it is of.

| Action | Code |
|---|---|
| `CreateStepper`, `BeginRemove`, `EndRemove`, `PowerCycle` | `create_driver`, the destructor's `request_stop` and `join`, a reset |
| `TakeSteps`, `MakeStep`, `PutBack`, `ThreadEnds` | `updatePumpThread`, one action per access to what is shared |
| `WriteSteps`, `Dose`, `Calibrate` | `write_value` of the stepper and of the pump, `call_device_action` |

Rounding is an outcome: a whole product of floats may come out one step short,
and what does not fit becomes any number. Behaviour worth knowing: a driver whose
encoder cannot be created stays without a thread and accepts steps it never
makes; a step counts as made although its transmission failed; a pump answers ok
whatever the stepper did; what is left at a reset is lost although the schedule
has recorded it. The pump reaches the stepper through the device table; the
registry of drivers (`smartqua_config.h:57`) names a class that is not in the
repository in place of `DosingPumpDriver`, so the pump is modelled as written.

### DeviceResources

`purpose[p]` is what a pin was first taken for, which never changes until a
reset; who holds it is read off `device`, as the code reads it off the use count
of a shared pointer. `timers`, `channels`, `port` and `addresses` are the static
tables. A request drops the slot's old device (`Ask`) and creates the new one
(the action of its driver); a boot does the latter slot by slot. `Fault` is an
error of the hardware or of a library.

| Action | Code |
|---|---|
| `Ask`, `RemoveFrom`, `SkipSlot`, `Reset` | `dispatch(SetValue)`, `dispatch(RemoveValue)`, `initialize`, a reset |
| `CreatePin`, `CreatePwm`, `CreateScale`, `CreateDrv8825` | `create_driver` of those drivers, `get_gpio_resource`, `get_timer_resource`, `get_led_channel` |
| `CreateDs18x20`, `CreateAds111x`, `CreatePcf8575`, `CreatePico`, `CreateBme280` | the same of sensors on a bus, with `addAddress` and `removeAddress`, `get_i2c_port` |

Behaviour worth knowing, which the model reproduces: channels are never given
back, so that the ninth creation of a PWM output since a boot fails; a timer the
hardware cannot set up keeps its place; a `drv8825` keeps its first pin only, so
that its enable pin may be granted to another device, and dereferences a null
pointer where that pin is refused (`drv8825_driver.cpp:55`), which may happen at
every boot; an update of a `ds18x20`, `pcf8575` or `pico` that is refused leaves
the old data under the new driver's name (`ConfigOfDriver` of `DeviceTable`, and
`Ask` therefore replaces no stored device by one of them); any other refused update stays stored and is tried again at the next boot, where it may come before the
device whose pins it wants; an `ads111x`, and at a boot a `pcf8575` or a `pico`,
goes on without its descriptor and without its address; a
`bme280` has the pins of the port that exists, not those it names, and no address
(its `FlagTracker` is disarmed by nothing when it is moved, so the flag is free
again when `create_driver` returns). `AddressesExclusive` and `BootKeeps` exclude
what follows from these by name (`flawed`, `AllWell`).

A `pico` device asks for its bus, then for a place in its list; then its memory is
read, in a request as at a boot, and one that does not answer fails. What is in
that memory, and what is written to it later, is not modelled.

### PinDriver

An output, a PWM output or a timed pin. A write to a timed pin is three steps,
because the task it posts may be due, or the one it replaces may run, between any
two: `TurnOn` (the level), `Post` or `PostFails` (the new task), `Swap` (the
trackers). `timer` and `newTimer` count the ticks to the tasks of the trackers,
`running` and `stale` the workers that have taken such a task and not set the
level yet, the latter for a driver that is gone. `owed`, `overtaken`, `leftOn`
and `given` are history.

| Action | Code |
|---|---|
| `CreatePin`, `RemovePin`, `PinPowerCycle` | `create_driver`, the destructor, a reset |
| `TurnOn`, `Post`, `PostFails`, `Swap` | `adjustTimedValue` |
| `Pick`, `Reset`, `StaleReset` | a worker of the pool, `resetPinTimed` |
| `WriteOutput`, `WritePwm` | `adjustPinLevel`, `adjustPwmOutput` |

Behaviour worth knowing: a timed pin that is removed while it is on stays on; a
timed pin that is inverted is on from its creation until a write has ended; a
worker that took a task before a write may turn the pin off just after it
(`overtaken`); a hundred percent need not be the maximal duty, since a hundredth
of it is cut off first.

### LocalFlash

`content` is what the partition holds, `mounted` and `handle` are FAT's state and
`m_flashWearLevelHandle`; `creating[u]` is where the `create` of the setting `u`
is and `restoring` where `unMountWriteBackupAndMount`, one action per call, each
of which may fail. A mount formats what is no file system (`Formatted`, from
`format_if_mount_failed` at `local_flash_storage.h:132`), or takes what was only
partly written for one. Receiving that ends early is taken for the end of the image,
as the code does; `received` says what an upload has brought, an image of a file
system, something else, or a part. Nothing in the code tells the second from the
first: it is formatted away, and the answer is "Ok" (`ImageRestored` states both).
`alone` limits the property to uploads that found the handle set, as they do once a
setting has mounted the partition at boot; without a handle any mount disturbs
them. A file that is open while its partition is unmounted is not modelled. What is
behind `esp_vfs_fat_spiflash_mount_rw_wl` is external and taken from its use.

### Locks

The other modules take what is done under a mutex for one action; this one says
that the mutexes themselves cannot make the program stand still. `Calls` names
for every function that locks, or that calls one that does, what it may call
while it is running; `Mutex` what it holds meanwhile, `Awaits` what must be free
when it is entered (an event waits for the store's `call_once`, a join for the
thread's iteration) and `Recursive` which of them one thread may take twice. A
thread is its stack of functions; it calls anything its function may call in any
order and any number of times. Mutexes of one kind (of every pool, every list of
addresses, every container of samples) are taken for one, which is never locked
twice. Conditions and data are left out, so that there are more behaviours than
the program has: a deadlock that is excluded here is excluded there. A thread that
waits in `call_once` is taken to wait as for a mutex.

Behaviour worth knowing: creating a device locks nothing of the store, or the
first requests would wait for the boot that waits for them; a device that names
itself as the one it uses (a pH probe its own analog device,
`ph_probe_driver.cpp:91`, a pump its own stepper) calls itself under the recursive
mutex without bound, which the models have no stack for.

### MCDevices, MCResources, MCStorage

The parts of the drivers that share no state are checked in one run, and so are
the buffers, the resources of devices and the places of a day's schedule, and the
setting, the partition and the locks: `part` is chosen by the initial state, the
part it names takes all the steps and the others stand still. The properties of a
part hold where it stands still too, so each is about the behaviours of its own
part. For resources and storage it is proved that a behaviour of all is one of each
part (`PartsAlone`), so that the theorems about the parts hold of the whole.

## 4. Runs

| Run | Question | Result |
|---|---|---|
| `pool_safety` | tasks, handles and orphans with two workers, two objects and a full pool | holds |
| `pool_fair` | can a full pool drop a repeating task, how late can a task be while a worker sleeps, does every task run? | only after an orphan; `MaxSleep`; yes |
| `setting_crash` | power failures and failing calls at any point of a save; an image uploaded while settings mount; who waits for whom | old or new value, complete; `m_written` is what the file holds; an answered image is there; nobody waits in a circle |
| `setting_rename` | the same with a failing `rename` | **violated**: a later save is skipped wrongly |
| `table_requests` | all requests, failing adds, saves and loads, boots | slots, names and devices belong together |
| `table_names` | clients that add by fitting names and remove; saves that fail before or in the rename | names identify devices, answered requests survive but for a boot's first skipped saves and failed renames |
| `table_options` | options written to a device | **violated**: the name is erased, a second device gets it |
| `table_driver` | an update the new driver rejects | **violated**: its name stays on the old driver's data |
| `resources` | three workers and a request, three buffers and six; two slots, devices that want the same pins, faults and resets; time points inserted and removed | buffers never shared or lost, with six never missing; one user per pin, channel and address; a boot brings back what ran in good order; the searches find the right events, interpolation runs the right way but at the week's end |
| `schedule` | failing writes and files, power failures, late updates, re-creation | no occurrence twice but where its record was lost, not read or of another schedule; none skipped within a week |
| `schedule_clock` | local time goes back | **violated**: an occurrence is written a second time |
| `devices` | ring buffer, sample container, sensor and switch, stepper and pump, timed pin | the window; recovery; refusal; the switch follows or falls back; steps made once, doses as calibrated; a pin on as long as asked and off again |

### Bounds

- `TaskPool`: three or four ids and two slots are enough for a task that runs,
  one that waits and one posted meanwhile, and for a full pool; a tick is 5 s,
  the longest wait and the shortest sensor interval. Lateness is counted up to
  `MaxLag` ticks, which neither stops time nor changes the order of tasks: `Aged`
  keeps apart what is later still, and `MaxLag` is more than the longest wait and
  the slots together, so that `IdleWorkerBound` loses nothing. Tasks of one, two
  and three ticks make one due whenever the worker looks.
- `FilesystemSetting` is finite by itself; three values tell the file, the copy
  and a new value apart. `fclose`, whose result `settings.h:287` does not look
  at, fails in no run and is excluded in the theorems: with it a partial file
  replaces the real one.
- `DeviceTable`: two slots let one be free beside one in use, before it or after;
  two drivers. `table_names` has two names that fit, `table_requests` one that does
  not and the empty one, since with requests that give an index a name decides
  nothing about devices. The rename fails in `table_names` only, for which the other
  run's tables are too many; the theorems assume nothing about faults.
- `BufferPool`: three workers as in `main_thread.cpp`; three buffers, fewer than
  the scopes, and six, as many. The theorem is for any number of both.
- `ScheduleDriver`: a week of three days has a first, a last and an inner one;
  two slots put an event before, at and after `now`; two channels fail
  independently; `MaxTime` is two weeks, so that every time of the week comes
  again and a record may be a week old.
- `RingBuffer`: `Capacity` is 5, the smallest the code allows for samples; a
  buffer goes round several times. Three samples, two of equal size and opposite
  sign.
- `SampleContainer`: first samples lie at most `FirstGaps` ticks apart, and
  `Scale` is divided by each of those gaps; after `MaxAge` ticks the smallest
  limit that is not zero admits every sample of the set.
- `ControlLoop`: readings below, in and above the tolerated range; `MaxErrors` is
  2 (3 in the code), which still tells one failure from the limit; a stay of one
  tick; one default level, "low", since "high" is alike up to the direction and
  "hold" writes nothing.
- `Stepper`: the counter wraps at 4 instead of 65536 and at most six steps are
  asked of an object, so that it wraps while the thread holds some; two tenths of
  a step instead of ten; doses and calibrations of nothing, one and two
  millilitres.
- `DeviceResources`: two slots, four pins, two timers and two channels, one less
  than there are configurations and fewer than creations between two resets;
  devices that share one pin, both pins or none; lists of one address
  (`ListSize`), so that a second one finds them full. The theorems are for any
  number of slots, pins, timers, channels and addresses.
- `DaySchedule`: as many places as fill up with three of the four times of a day;
  three days, the first, the last and an inner one, so that the event in effect
  may be today's, yesterday's or last Saturday's; two channels, and data for
  either or both, so that a time point may mean nothing to one of them. `moment`
  stays within one week, the second, so that there is an earlier one to look back
  to.
- `PinDriver`: delays of no time, of one tick and of three, so that a second write
  may ask for less, the same or more than is left of the first; two workers, so
  that resets of two writes may be under way at once; the theorem is for any number.
  `MaxDuty` is the default `max_value` (`pin_driver.h:46`).
- `LocalFlash` is finite by itself; two settings mount while an image is uploaded.
- `Locks`: the server, the main task, which does a worker's work too, one thread of
  a driver, and stacks of nine functions, which a device that uses another one
  needs. A larger instance with one more worker (4.05 million states) shows the
  same; the theorem is for any number of threads and any depth.

### Fairness

`pool_fair`: time passes, task functions return, threads are scheduled, and a
worker that asks for the lock again and again gets it within its second now and
then (strong fairness of the scan, because `LockTimeout` may intervene). A wait
ends when its time is up (`TimeOut`); `Notified`, the end of a wait by a
notification or a spurious wake-up, has no fairness, so that `TasksRun` rests on
the 5 s time-out, and its mutant, `wait` instead of `wait_for`, breaks it.

`devices`: weak fairness of the stepper's thread, which the scheduler runs, of
the join that waits for it, of the sensor's iteration and of the re-initialisation
that always succeeds, of the device updater and of time. How bme280's
re-initialisation comes out is never assumed. The tasks repeat, and `TasksRun` of `pool_fair` is
that repeating tasks run again and again. A request that
turned a timed pin on goes on, a worker takes what is due and sets the level
(again `TasksRun`), and time passes. Nothing is assumed of the arrival of requests,
of sensors and of the devices written to. `Follows` excludes endless resets (`Resets`), as each
starts the waiting time anew.

## 5. Proofs

All theorems hold for every value of the constants that satisfies the named
assumptions beside them.

`TaskPoolProofs`: `TypeOK`, `Accounted`, `Handles` and `NoOrphans` follow from
one inductive invariant, their conjunction with `Busy` (a worker holds a task
exactly while it runs it). `IdleWorkerBound` needs in addition that no planned
sleep exceeds `MaxSleep`. `DropNeedsOrphan` is the pigeonhole principle: without an
orphan each task in a full pool, and the one a worker runs, has its own handle, and
`Owners`, which are assumed finite, have two each (`RoomForRunning`). Objects outlive
their tasks (`ArgumentsAlive`, but for tasks that were given up while they ran),
because a destroyed object leaves no handle (`NoHandleLeft`). `StaysAway` is an
action property: what was removed, dropped or done does not come back, and keeps the
reason it went for.

`StorageProofs`, the setting: `SaveInv` (while a save runs a value is in RAM, and
from the flush on in the temporary file; the real file is complete) is inductive
if `fclose` does not fail, and gives `MainIntact` and the refinement of
`AtomicSetting`: the commit point is `remove`, or the flush where there is no
real file. `WrittenIsDurable` follows from it and `WrittenInv`, that `m_written` and
the real file differ at most while there is none. `SkipIsSafe`, which the run
`setting_rename` violates, holds where a `rename` onto a missing file works
(`SkipsSafely`): its failure is the one cause, beside `fclose`. `ReadsOwnWrites` and
`TypeOK` need no assumption on faults.

The partition: `Undisturbed` says what an upload has reached at each of its
calls, and that no setting is about to mount then; `ImageRestored` is part of it.

The mutexes: each has a rank, and functions only lead upward: the store's first
initialisation, the table, the settings, then those of the tasks, resources,
addresses, buffers and joined threads, the samples, the log. `Bound` is the highest
rank a thread may hold while it is in a function, and `LockInv` says that the mutexes
below and at each place of a thread's stack keep to it, that the recursive mutexes
that are taken again have one holder, and that until the initialisation is over
nobody asks the store for an event. So who keeps another waiting waits for a
higher mutex himself (`HolderWaitsHigher`), which cannot go on (`NoEndlessClimb`):
`NoDeadlock`, whatever devices use each other and however deeply.

`StorageCorrect` puts these together to all that `setting_crash` checks.

`DeviceTableProofs`: the properties speak of RAM, a boot replaces RAM by the
file, so each invariant is strengthened by the same fact about the file
(`SlotInv`, `NamesInv`, `ConfigInv`). `OneDevicePerName` assumes that neither
indices nor options nor overlong names are used, `ConfigOfDriver` that no driver
rejects an update before it wrote its data, which is what the violated runs show
to be needed. `AnsweredIsSaved` is inductive with `SavedInv`: once assigned and while
no rename fails, `m_written` is what a boot reads, so that what is skipped is there.

`ResourceProofs`, the buffers: `OneHolder` with `Closed` (what a scope holds at
each place of a request) is inductive. `NoEmptyUse` is the pigeonhole principle:
the scopes other than the one that asks hold different buffers, hence one is left.

The devices' resources: `PinsExclusive`, `PwmIndependent` and `AddressesExclusive`
are inductive with what links the tables to the devices that run (`PinInv`,
`PwmInv`; the lists hold the addresses of running devices and no other). `BootKeeps`
needs `BootInv`: what runs in good order fits the hardware all together
(`Bootable`: its pins are of one purpose each and its own, its timers and channels
are enough, its lists are long enough), and during a boot each table holds only
what the slots before it took. That the slot whose turn it is still finds a timer,
a channel and a place is the pigeonhole principle again.

`WeekScheduleProofs`: what the searches in a set of events find at a time of the week is the
occurrence in effect, and the next one, on the unbounded line
(`CurrentIsOccurrence`, `NextIsOccurrence`, for any number of days and slots and
any events), and where both are in one week the interpolated value lies on the
line between them (`InterpolationOnLine`).

`DayScheduleProofs`: the array's inductive invariant `DayInv` says that it is
`Sorted`, that no time is in it twice (`Single`), and that it has for each time what
was put in for it last (`Agrees`). `ReorderedIs` says what sorting keeps, and
`PlaceChanged` that inserting and removing both are one place that changes, and
sorting. From it `SearchFinds` for any number of places: unused places come last, as
`InvalidTime` is the greatest time, so the first and last places with a property are
those of the first and last times with it. `Interpolates` compares distances on the
week with those on the line (`GapWraps`): where the week ends between the two events
the code's distance is a week too short, so that its value lies on the side of the
first event that is away from the second, by a share that is bounded (`RunsAway`).
`PartsCorrect` puts these and `ResourceProofs` together to all that the run
`resources` checks.

`ScheduleDriverProofs`: the code
compares times of the week; `DueIffLater` says that this comparison is right
while the two moments are less than a week apart. The inductive invariant is the
conjunction of `TypeOK`, `RunningIsStored`, `Past` (no record is of the future,
and each time of the week is that of its moment), `Stands` (a state file is of
such moments), `Kept` (a channel that is not in `forgot` has its last write on
record) and the two properties. `TypeOK` and `RunningIsStored` are proved for
`SpecAnyClock`, the others for `Spec`, and the run `schedule_clock` shows why.

`DeviceProofs`, the samples: `RingTypeOK` is inductive by itself. For `IsWindow` the
operations are compared item by item with the window's: an index is taken around
the array at most once (`Wrap`), two items lie in different places
(`WrapInjective`), and moving the first place moves all (`WrapShift`). A sample
container takes ring buffer steps only, so its samples are a window too.
`FlatStartFreezes` is inductive together with `Still`: nothing is summed up while
all samples are equal in size, so the limit becomes zero and no distance is below
zero times a gap. Any other limit is a configured one or at least two
(`LimitKnown`), and `Recovers` is proved wherever `MaxAge` is long enough for the
smallest of these and the samples furthest apart (`Waited`, which the run's numbers
satisfy).

The sensor and the pin: `RefusedIfSilent` follows from `Counted`, that the error
count never exceeds the iterations in a row without an answer. `SilenceCounts` is
what the liveness property `Noticed` needs of the steps, whichever the driver: while
a sensor is silent each iteration adds an error, and only a re-initialisation takes
errors back, once the sensor is refused. `OwedIsOn` needs `Owing`: while
the last write's time runs, the task that ends it is in the pool or about to be
posted, with no less time to go, and no worker has taken one that
would end it early, unless `overtaken` says so. `EndInSight` is the other side, and
what `GoesOff` needs of the states: a timed pin that a write turned on has a task in
the pool that is due no later than asked for, or a worker runs one, or the write is
still to post it. `DutyNearShare` bounds what the duty lacks of the share asked for by one count for
each percent asked for: `pin_driver.cpp:289` cuts a hundredth of the range off before
it multiplies.

The stepper and its pump: `StepsAccounted` is inductive once the wrapped counter is a remainder of
the exact one (`Missing`, `Wraps`); `CalibrationHolds` follows from `Calibrated`, that
the factor is that of the measured calibration, by arithmetic on its quotient
(`DoseOfFactor`). `Distance` is a variant of the thread, three turns for each step
it knows of and those to its end: `NearerRest` says that no step but a request
and a new driver adds to it and that each turn of the thread takes from it, which is
what `Finishes` needs beside fairness.

Stated by theorems and by no run, because TLC adds little to them: the type
invariants of the parts that are put together in one run, `MainFileIntact`,
`IdleWorkerBound`, `ArgumentsAlive`, `StaysAway`, `FreeIsClean`, `RunningIsStored`,
`DutyNearShare`, `EndInSight`, `FlatStartFreezes`, `SilenceCounts`, `NearerRest` and
the three theorems of the week.

Model-checked only: `TasksRun`, `Follows`, `FailsSafe`, `Noticed`, `Finishes` and
`GoesOff`, since liveness under fairness is out of the prover's reach; and the four
violations, which are counterexamples.

## 6. Not modelled

- Bus protocols and what their libraries answer (`ds18x20`, `ads111x`, `bme280`,
  `dhtxx`, `pcf8575`, `hx711`, the `pico`'s memory), the fading of LED channels, WiFi,
  the clock's synchronisation. Where a device of one of them fails, the failure is
  an outcome of the action that uses it (`DeviceResources`, `ControlLoop`).
- The web server's dispatch, files and decoding of JSON. Requests are taken as
  decoded; that at most one is handled at a time, and the buffers it holds, are
  modelled (`DeviceTable`, `BufferPool`, `Locks`). The settings' handler is registered
  without a leading slash (`main_thread.cpp:121`), and no handler serves files.
- The statistics: their handlers are registered nowhere and they are not in the
  store (`smartqua_config.h:69`), so that no request reaches them. Nor are the
  settings (`:73`).
- The remote storage, the NVS setting, the SD card and a second flash partition are
  not configured. JSON, the log's formatting and the settings' names have no state
  of their own to get wrong.
- External and taken from their use: that mounting formats what it cannot mount,
  and that `call_once` lets others wait.

Noticed while reading, in code that is not modelled: a `pcf8575` keeps only the bit
of the pin written last, sends its configuration's pins instead, and reads with the
pin's number as a mask (`pcf8575_driver.cpp:170`, `:171`, `:193`); the pH probe tests
`dy` where its message says `dx`, so that two calibrations at one reading divide by
zero (`ph_probe_driver.cpp:100`); the scale is calibrated in grams and answers in
milligrams (`scale_driver.cpp`).

`PROJECT.json` lists every component with its reason.
