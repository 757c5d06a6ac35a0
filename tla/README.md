# nzxt-ctl: TLA+ models, checks and proofs

nzxt-ctl drives the pump, the fan and the LCD of an NZXT Kraken cooler. A root
daemon (`daemon/`) reads temperatures from sysfs, decides duties and writes
them; a Qt GUI (`gui/`) edits the configuration and shows the daemon's state;
`common/` holds the schema of the configuration and of the socket.

A wrong step here is a cooler that runs too slowly. The models are about that,
and about the two things next to it that are concurrent: the config file with
its several writers, and the LCD thread with its unreliable device.

## 1. Inventory

| Component | State it keeps | Operations | What makes it correct |
|---|---|---|---|
| Curve, Config (`common/src/config.rs`) | none | `duty_for_temp`, `validate`, `load`, `set_active_mode` | a valid curve gives a percentage, never less for more heat; a bad file is refused |
| Control loop (`daemon/src/main.rs`, `control.rs`, `hwmon.rs`) | config in force, `last_pump_duty`/`last_fan_duty`, path of the device, `running` | start, discovery with retries, manual mode, reload, sense, decide, write, publish, exit | the failsafe wins, the write cache never lies, a reload is all or nothing, startup and exit end |
| IPC server (`daemon/src/ipc.rs`) | `reload_flag`, `SharedState`, `write_lock`, one thread per connection | `GetState`, `ReloadConfig`, `SetMode` | SetMode is atomic and exact, no reload is lost |
| Config file | `config.toml`, `config.toml.tmp`, the GUI's temporary file | read, create, sync, rename | it is always a whole config, over kills and power failures |
| LCD thread (`daemon/src/lcd_worker.rs`, `lcd.rs`) | wanted state, controller, active bucket, what was rendered, time of the last touch | init, upload, commit, release | the panel shows what the thread believes, never part of a frame; it is handed back |
| Gauge (`daemon/src/gauge.rs`) | none | render | pixels only |
| GUI bridge (`gui/src/bridge.rs`, `config.rs`, `ipc_client.rs`) | a copy of the config, the edited properties | refresh, save, revert | a save writes what the user meant and nothing else |
| GUI window and tray (`gui/qml/`) | visibility, the editors' points | close, toggle, mode from the tray | the program can always be reached |
| GUI settings (`gui/src/settings.rs`) | `gui.toml`, an autostart entry | load, save | the two agree |

How they interact. The control loop shares `reload_flag` and the `LiveState`
with the IPC threads, and sends commands over an unbounded channel to the LCD
thread, which answers once, when it is done. Clients and the daemon exchange one
line per request. The GUI and SetMode write the same file, by renames, without a
common lock; the loop rereads it when the flag is up. The LCD thread and the
kernel driver share a USB device.

What is hard about it: a device that disappears and returns, writes that fail on
one channel, a cache of what was written, a file with two programs writing it and
a third party editing it, kills between any two system calls (nothing handles
SIGTERM), a firmware watchdog, and calls to a panel whose answer is lost.
PROJECT.json lists each hazard at its line.

## 2. Modules

| Module | Models | Notes |
|---|---|---|
| `Curve` | `ChannelCurve` | pure operators |
| `Config` | `Config`, `set_active_mode` | pure; a text is the record it parses to |
| `ControlLoop` | `main.rs`, `control.rs`, `hwmon.rs` | extends `Config` |
| `ConfigStore` | SetMode, the GUI's save, the reload | extends `Config` |
| `AtomicConfig` | what SetMode promises | abstract; `ConfigStore` implements it |
| `Daemon` | `ControlLoop` and `ConfigStore` as one program | instances of both, which it implements |
| `LcdWorker` | `lcd_worker.rs`, `lcd.rs` | stands alone |
| `GuiBridge` | `bridge.rs`, the GUI's `config.rs`, the editors and actions of `gui/qml/` | extends `Config`; has no specification of its own |
| `GuiApp` | window, tray, settings, autostart (`Main.qml`, `SettingsPage.qml`, `settings.rs`) | extends `GuiBridge` |
| `CurveProofs`, `MCCurveProofs`, `ControlLoopProofs`, `ConfigStoreProofs`, `LcdWorkerProofs`, `DaemonProofs`, `GuiProofs` | | theorems and proofs about the module of the same name; `GuiProofs` is about `GuiApp` |
| `NatLemmas` | | least and greatest elements, for the proofs |
| `MC*` | | values of the constants |

Definitions named "Mutant" in a comment are deliberate bugs, one per checked
property; nothing uses them unless one is put in place of the definition after
it to see that the property notices.

Temperatures are integers, `Degree` of them to a degree: 1 where whole degrees are
enough, 2 in the GUI's run, where a ceiling may lie between two of the numbers that
the window can show.

### ControlLoop

`pc` names the calls of `main` between which another thread, the device or a
signal may act: `load`, `discover`, `manual_pump`, `manual_fan`, `serve`, then
the cycle `top`, `reload`, `sense`, `write_pump`, `write_fan`, `publish`, `show`.
Reading the sensors and deciding is one step, as nothing it uses is shared. The
device is its hwmon number, and `pwmN_enable` and `pwmN` of each channel: a write
is ignored while the channel is not in manual mode, as `hwmon.rs:114-116` says,
and a device that is bound again starts under the firmware's control. The file
changes at any moment; `ConfigStore` says how.

Left out: the CPU and GPU sensors' discovery (a source yields a reading or none),
fan speeds, log lines, the length of a sleep, and the exact number of the 30 s /
500 ms polls (`MaxAttempts`). `NaN` is a value of its own with which every
comparison is false.

### ConfigStore and AtomicConfig

A thread of `handle_client` runs SetMode as `lock`, `read`, `create`, `fill`,
`sync`, `rename`, `flag`, `unlock`, one system call each, and any of them may
fail. A GUI writes a file of its own and renames it, then asks for a reload.
`file` is what a read returns; `disk` is the set of what a power failure may
leave, where a rename of an unsynced text may also leave nothing useful
(`Unparsable`). The main thread takes the flag and reads the file in two steps, and
the read may fail, of a file that loads as of one that does not (`LoadFails`; in
`ControlLoop` `ReloadFails` and `LoadConfigFails`). `unannounced` is history: the
config in force may be behind the file, because an edit was not announced or because
the read that a request led to failed.

`AtomicConfig` has one step in which a request takes effect. The refinement maps
a thread between `lock` and `rename` to "asked", at `flag` to "applied", and its
reply to the answer.

### Daemon

The two components share `file`, `reload_flag` and the config in force; what one
leaves open is a step of the other. For `ControlLoop` the file is edited, and the
flag raised, by a SetMode thread or another program; for `ConfigStore` the daemon
starts, serves, reloads and ends as the loop does (`DaemonState`: the socket is
there when startup is over). A step of the loop that ends the process takes the
IPC threads with it and frees the mutex, at any step of a SetMode. `owed` is
history: the mode that the last `ModeSet` promised, whether a cycle has begun
since, and whether that cycle failed to read the file (`owed.unread`): the loop does
not raise the flag again, so that the mode is not applied then, although the doc of
`ModeSet` mentions no exception. An answer promises something only while the file still says so and loads: a
hand edit between the rename and the answer may have made it a file that the reload
refuses.

`ImplementsLoop` and `ImplementsStore` say that the composition does nothing that
the components may not do, with the identity as the mapping but for `DaemonState`,
so that their invariants and theorems hold of it too.

### GuiBridge and GuiApp

The GUI handles one event at a time, so that one event is one step. A save is two,
since another program may act between its rename and its `ReloadConfig`; the system
calls of a save, and of a SetMode, are in `ConfigStore`. The variables are the
bridge's properties (`props`, `curves_json`), the copy of the config that it keeps
for the fields that the window does not show (`cfg`), and what the two curve editors
hold (`editor`), which are seeded from `curves_json` and written back to it by Save &
Apply only. `Open` reads without validating, `SaveRefused` is every early return of
`save`, `SaveFails` a config that does not validate or a write that fails, and a mode
from the tray is the same save without the editors. In a curve editor a point is
dragged, one of its fields is typed over, a point is put where the plot is clicked or
after the last one (`NextPoint`), and a point is removed (`EditedPoints`). `touched`,
`foreign`, `writer` and `unread` are history: which parts have edits that are not in the
file, whether another program wrote the file since the GUI last read or wrote it, who
wrote it last, and whether a reload failed since the daemon last took it. `ToldTruth`
covers another client's SetMode; only a hand edit and a failed reload excuse it.

`GuiApp` says when these can happen: in the window, from the tray, or neither. A
switch of the settings page writes `gui.toml` in place, and then writes or removes the
autostart entry. An error or a kill leaves any first part of the lines (`Torn`; what is
missing is the default when it is read), or the file without the entry. Whether the
desktop shows an icon that is on (`trayIcon.available`) is an input of every step that
looks at it: closing, "Hide to tray", a click on the icon. The start does not look.

Left out: `refresh`, which copies the daemon's state to the screen; drawing; the
numbers a spin box rounds to; the text of the desktop entry.

### LcdWorker

The control loop posts commands (`Cycle`, `Close`); the thread receives them with
its draining (`Receive`, one step, because nobody else reads the channel),
handles them call by call, and ticks when the keep-alive is due. The panel has a
screen, two buckets with their contents, and the firmware's watchdog. A call to a
panel that answers does what it says. A flaky one may lose the answer, before or
after it took effect. Where time matters to the watchdog, in the switch to a new frame
and in the keep-alive, the effect and the answer are two steps (`SwitchToTarget` and
`SwitchDone`, `Commit` and `CommitDone`): the panel counts from the first, the thread
from the second. `Pass` is the only step that takes time: it needs everyone
who has something to do without waiting to have done it. A bulk transfer is part
of the start of its upload.

Left out: report bytes, stray packets (`hid_command` skips them), rotation,
memory addresses, the fourteen buckets that are only ever wiped, and the channel's
disconnection, which happens only when the process ends.

## 3. Runs

| Run | Shows | Bounds |
|---|---|---|
| `curve` | interpolation against a reference stated on the set of points; monotonicity | all curves of at most 3 points over 4 temperatures and 4 duties, invalid ones included, 11 temperatures |
| `curve_unsorted` | *violated*: an unsorted curve is accepted and gives too little above its hottest point | 2 points |
| `loop` | cache, failsafe, reload, published state | 3 files (valid, valid, refused), 2 hwmon numbers, liquid 30/60 or none, CPU 40 or none, 1 retry |
| `loop_nan` | *violated*: `failsafe_temp_c = nan` is accepted | |
| `loop_replug` | *violated*: same hwmon number after a replug, writes are ignored | `ReuseNode` |
| `store` | whole file, own temporary file, no lost reload | 2 clients with 2 requests each, 1 GUI, 1 hand edit text; clients symmetric |
| `store_atomic` | refinement, power failure, answers | the same clients, no other writer |
| `store_race` | *violated*: SetMode overwrites a GUI's save | 1 client, 1 GUI |
| `lcd` | draining, double buffering, keep-alive, skipped uploads; the gauge comes up, the panel is handed back | 2 readings that make 2 frames, keep-alive 1, watchdog 4, a command's calls at most 1 unit of time, no cycle posts while more than 1 command waits |
| `daemon` | both refinements; an answered mode is in force in the next cycle; startup, reload and SIGINT end; overheating ends in full speed | 1 client with 1 request, which changes the mode, 2 files, 1 hwmon number, liquid at the ceiling or none, 1 retry, other programs ask for reloads at any time |
| `gui` | the view against the file, what is saved, what is reported, the tray, the window, the settings | 2 edits in the window or by hand, 4 texts by hand (another ceiling and poll, one that is refused, a curve without points, one that does not parse), curves of at most 2 points, half degrees |
| `gui_revert` | *violated*: a failed revert discards the edits of the curves | the only text by hand does not parse |

Why the bounds are enough. Two files that differ in mode, LCD switch and source,
and one that is refused, give a reload every outcome; two channels on different
sources disagree about readings; a second node tells the node of the process from
the device's. Two clients are the least that can interleave, and a second request
of each meets what the first left behind. Two frames are what two buckets need to
alternate, and the watchdog is as short as `LcdAssumption` permits: the keep-alive
may be late by one command's calls, and the panel's last touch may have been seen late
by another's. That the answers come in such a time is what the comments say of the
panel (`lcd.rs:61-66`, `163-165`); the code's own bound, 200 waits of 2 s, does not give
it, and the models claim nothing of a panel that is slower. `Backlog`
bounds how far the loop may run ahead of a slow upload: with it up to three commands
wait, as a reading, a switch and a reading, and a shutdown after them. Two edits in the
GUI's run are one of the file and one of the window in either order, or two of
different parts of the window, which is what the properties tell apart; opens, saves,
reverts, switches from the tray, quits and the daemon's starts and ends are not
bounded. A second client, refused reloads and hand edits are left to `store` and
`loop`, whose specifications `daemon` implements: it has what only the two together
can do. `store` and `loop` have no bound on length: files, kills and replugs recur for ever.
Symmetry is used in `store` only, which checks invariants. No run is expected to
stop, except the sweep of `curve`, which ends at its last temperature.

The five violations are listed in PROJECT.json under "findings" with the
sentences of the repository that they contradict. Further observations, which the
models show or the properties except by name, have no run:

* `applyModeFromTray` saves pending edits of the silent duty, the ceiling and the LCD
  too, though `Main.qml:45` says that only the mode is written. `TrayKeepsCurves` shows
  that curves which were never sent to Save & Apply are safe. After a Save & Apply that
  failed, `curvesJson` holds the curves that were refused, and a mode from the tray
  writes them: the conjunct `"curves_json" \notin touched` is the exception.
* A read of the file that fails at a reload uses the request up (`main.rs:92-109`), and
  the mode of an answered SetMode is not applied. `ModeSetApplied`, `ToldTruth` and
  `LoadedCatchesUp` except the time from there to the next load.
* A minimized start asks for the switches and not for `trayIcon.available`
  (`Main.qml:24`), as closing does: without a tray host there is nothing to click.
  `HiddenHasTray` says that the icon is switched on, and no more.
* If the driver can return an error for a write that took effect (`AmbiguousErrors`, off
  in every run), the cache holds the duty of before, and a write of 100% may be skipped:
  `CacheCoherent` and `FailsafeForcesFull` fail then. Nothing in the repository says
  whether it can.

### Fairness

`Daemon`: the main thread and the IPC threads keep running (`WF`), and a write that
is attempted again and again succeeds some time (`SF`, used by `HotEventuallyFull`
only). No fairness for the device, signals, edits or requests. `ConfigStore`: each
thread keeps running; requests are finitely many, so the mutex needs no fairness.
The GUI has no liveness property: it waits for its user.
`LcdWorker`: the loop and the LCD thread keep running, and time passes (`SF`:
kills and restarts may interrupt it but not stop it). The panel owes nothing;
`GaugeComesUp` assumes that it answers from some time on.

## 4. Proofs

All theorems hold for every value of the constants under the named ASSUMEs.

* `CurveProofs`: `DutyBounded`, from lemmas on clamping and on the first window.
  `DutyMonotone`: in one window the rounded line rises (`LineRises`,
  `RoundingMonotone`), a hotter reading is in the same window or a later one, and the
  duty of a window is between those of its points (`Interpolated`). It assumes what
  the run assumes, that points and duties ascend; `validate` only warns of the rest.
* `MCCurveProofs`: the three properties of `curve`, for any number of points.
  `MatchesReference` shows that the code's walk over the windows finds the nearest
  point on either side (`BetweenPoints`, `AtPoint`, `BeyondEnds`), and that rounding
  is off by half a percent at the most (`RoundedToNearest`).
* `ControlLoopProofs`: `TypeCorrect` needs `ConfigValid` beside `TypeOK`, because a
  duty is a percentage only under a valid config. `ConfigAlwaysInForce` adds `Told`.
  `WritesAlwaysTakeEffect` rests on `ManualInv`: a channel that startup has passed
  is in manual mode while the device stays at its node. `CacheAlwaysCoherent` uses
  `CacheInv`, which adds that a process outside the loop has cached nothing.
  `FailsafeAlwaysForcesFull` and `LiveAlwaysReportsDevice` use `CycleInv`, which
  ties the decision of a cycle to its readings and to what was written since.
  Assumptions: `~ ReuseNode` for the first, and also `~ AmbiguousErrors` for the
  others. `loop_replug` shows that the first is needed; section 3 says what the second
  excludes.
* `ConfigStoreProofs`: `ReloadRequestsSurvive` and `RenamesOwnText` and
  `StoreTypeCorrect` need no assumption beyond the types. The invariant `StoreInv` says
  that only the holder of the lock is past it, that the text of each step is whole
  and that `config.toml.tmp` is the holder's. `FileStaysWhole` assumes that the power
  does not fail. `DiskStaysWhole` and `SetModeIsAtomic` assume that SetMode is the
  only writer (`OnlySetMode`); `EditInv` says that then what a thread is about to
  rename is the edit of the file that is there. `store_race` shows the need.

* `LcdWorkerProofs`, under `LcdAssumption` and `LcdMarkers` (the values that stand for
  "nothing" and for the built-in image are not buckets, commands or frames).
  `LcdTypesCorrect` comes first. `PanelShowsWholeFrames`: `PlaceInv` ties the place in
  an upload to the controller, `FramesInv` says that the active bucket is whole, that
  the target is off screen while it is written, and holds the frame before the switch.
  `RememberedIsShown`: a remembered frame is on screen only as long as the watchdog has
  not fired, so `FreshInv` bounds the panel's silence by the time since the last touch
  plus what two commands' calls may take (`RememberedInv`), and between a switch and its
  answer by the time that the call has taken (`SwitchedInv`); `LcdAssumption`,
  `Keepalive + 2 * MaxCall < Watchdog`, keeps that below the watchdog. `DrainingLosesNothing`: `CommandsInv` says that what the
  channel still holds ends in the loop's last wish, with a shutdown only at the end.
* `DaemonProofs`, under `DaemonAssumption` (the components' own assumptions, and that
  the texts of the store are files of the loop). `DaemonImplementsStore` needs `Alive`:
  threads, lock and flag exist only while the loop runs. `DaemonImplementsLoop` needs
  `TextsInv` and the store's `StoreInv`, because a step of a SetMode is an edit of the
  loop's file only if what it renames is one of `Files`. Through the two, the theorems
  of the components hold in the whole program: `LoopHolds`, `DeviceObeysDaemon` and
  `StoreObeysLock`. `ModeSetKept` relates all of it: `OwedInv` follows a promise from
  the answer (the file says it and the flag is up) through the reload (`cfg` says it) to
  the end of the cycle, and in Performance mode has every duty of the cache at 100. It
  needs `~ ReuseNode`, since a stale cache would skip the write, and not
  `~ AmbiguousErrors`.
* `GuiProofs`, under `BridgeAssumption`. `GuiTypesCorrect` shows that whatever file was
  opened, a save builds a config: it rests on lemmas about the conversions, that the
  sort of `apply_curve` returns the same points in ascending order and leaves a sorted
  curve as it is (`SortSorts`, `SortLosesNothing`, `SortOfSorted`), that clamping twice is
  clamping once, that whole degrees come back as they were (`WholeDegreesType`), and that a file which
  a save wrote shows as what was saved (`BuiltType`). `BridgeInv` joins `ViewMatchesFile`,
  `SavedLoads` and `ToldTruth`, which need each other, with `EditorSeeded` (editors
  without edits hold `curves_json`, without which a switch from the tray or a failed
  revert would break the first) and `ClosedHoldsNothing`. `TrayLeavesCurves` follows
  from it. `HiddenAlwaysHasTray` and `SettingsAlwaysAgree` are inductive beside the types.

The inductive invariants were checked by TLC on the instances of the runs before they
were proved. Every invariant and every action property of a passing run, and all
three refinements, are theorems.

Only model-checked: liveness, which is out of the provers' reach with its fairness
and `ENABLED` (`HotEventuallyFull`, `StartupEnds`, `ReloadAttempted`, `InterruptEnds`,
`RequestAnswered`, `LoadedCatchesUp`, `GaugeComesUp`, `PanelHandedBack`), and the five
violations, which are runs that end in a counterexample.

## 5. Not modelled

What the GUI shows of the daemon's state (`refresh`), drawing and layout; gauge
rendering; request framing and
its size limit; socket and file permissions (every step of SetMode may fail, for
whatever reason; under the shipped unit, with `ProtectSystem=strict` and no
writable path, its create always does); TOML's text, so that "byte for byte" means
every field; f32 rounding; poisoned mutexes after a panic; the timing of sysfs.

## 6. Plan

1. Curve, Config, ControlLoop, ConfigStore, AtomicConfig, LcdWorker: done, with
   the proofs of section 4.
2. `GuiBridge`, `GuiApp` and `Daemon`: done.
3. The composition's refinements; the invariants of `LcdWorker`, `GuiApp` and `Daemon`;
   the curve against its reference: proved.
4. Next: an abstract specification of what the LCD thread promises the loop (the last
   wish it was sent is what the panel comes to show) for `LcdWorker` to implement, and
   one of a save as a single step for the GUI.
