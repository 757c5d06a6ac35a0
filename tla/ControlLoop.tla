---------------------------- MODULE ControlLoop ----------------------------
(***************************************************************************)
(* The daemon's main thread (daemon/src/main.rs) and the pump/fan device    *)
(* it drives through sysfs (daemon/src/hwmon.rs): startup, the polling      *)
(* loop with its reload, failsafe and write cache, and shutdown, against a  *)
(* device that fails writes, is unplugged and comes back, a config file     *)
(* that other programs rewrite, and kills at any point.                     *)
(*                                                                          *)
(* One step of the model is one call of the loop that another thread, the   *)
(* device or a kill can fall before or after.  Polling delays are left out: *)
(* a sleep is the time the loop spends at "top".                            *)
(***************************************************************************)
EXTENDS Config

CONSTANTS
    None,             \* Option::None
    Files,            \* contents the config file may have
    Readings,         \* for each source, what reading it may return
    Nodes,            \* the hwmonN numbers the kernel may give the device
    MaxAttempts,      \* polls of /sys/class/hwmon before startup gives up
    ReuseNode,        \* may a replugged device get the number it had?
    AmbiguousErrors   \* may a write that returns an error have taken effect?

ASSUME LoopAssumption ==
    /\ Files \subseteq ConfigType \cup {Unparsable}
    /\ Readings \in [Sources -> SUBSET (Int \cup {None})]
    /\ None \notin Int /\ None \notin Nodes /\ None \notin ConfigType
    /\ MaxAttempts \in Nat
    /\ ReuseNode \in BOOLEAN /\ AmbiguousErrors \in BOOLEAN

VARIABLES
    pc,            \* where the main thread is; "down": no process
    running,       \* the flag that SIGINT clears
    reload_flag,   \* the flag that the IPC threads raise
    file,          \* the contents of config.toml
    cfg,           \* the config in force
    base,          \* the hwmon node the paths of the process were built from
    attempt,       \* failed discoveries so far
    temps,         \* this cycle's readings
    failsafe,      \* failsafe_triggered
    want,          \* pump_duty and fan_duty: what this cycle decided
    last_duty,     \* last_pump_duty and last_fan_duty
    failed,        \* history: the channels whose write failed this cycle
    live,          \* the LiveState that IPC clients read
    lcd_enabled,   \* what the LCD thread was last told
    dev            \* the device: its hwmon node, and pwmN_enable and pwmN

cycle == <<temps, failsafe, want, failed>>
process == <<running, reload_flag, cfg, base, attempt, last_duty, live, lcd_enabled>>
vars == <<pc, file, dev, cycle, process>>

NoTemps == [s \in Sources |-> None]
NoDuty  == [c \in Channels |-> None]
NoState == [duty |-> NoDuty, active_mode |-> None, failsafe_active |-> FALSE]

ManualPc   == [pump |-> "manual_pump", fan |-> "manual_fan"]
\* Mutant: the fan is never put into manual mode
AfterManualPumpOnly == [pump |-> "serve", fan |-> "serve"]

AfterManual == [pump |-> "manual_fan", fan |-> "serve"]
WritePc    == [pump |-> "write_pump", fan |-> "write_fan"]
AfterWrite == [pump |-> "write_fan", fan |-> "publish"]

Startup == {"load", "discover", "manual_pump", "manual_fan", "serve"}
Decided == {"write_pump", "write_fan", "publish", "show"}
Looping == {"top", "reload", "sense"} \cup Decided

InLoop == pc \in Looping

\* The device is at the node that this process writes to
Attached == dev.node # None /\ dev.node = base

-----------------------------------------------------------------------------
(* The decisions of one cycle.                                              *)

(* failsafe_triggered: the liquid, when it is known, against the ceiling    *)
FailsafeTriggered(c, t) ==
    t["Liquid"] # None /\ F32Ge(t["Liquid"], c.failsafe_temp_c)

\* Mutant: the mode is looked at before the failsafe
DecideDutyModeFirst(c, hot, t) ==
    [ch \in Channels |->
        LET curve == c.curve[ch]
            temp  == t[curve.temp_source]
        IN  IF c.mode = "Silent" THEN c.silent_duty_pct
            ELSE IF hot \/ c.mode = "Performance" THEN 100
            ELSE IF temp = None THEN None
            ELSE DutyForTemp(curve.points, temp)]

(* control::decide_duty                                                     *)
DecideDuty(c, hot, t) ==
    [ch \in Channels |->
        LET curve == c.curve[ch]
            temp  == t[curve.temp_source]
        IN  IF hot \/ c.mode = "Performance" THEN 100
            ELSE IF c.mode = "Silent" THEN c.silent_duty_pct
            ELSE IF temp = None THEN None
            ELSE DutyForTemp(curve.points, temp)]

(* set_duty_pct: the value written to pwmN                                  *)
RawDuty(d) == ((IF d < 100 THEN d ELSE 100) * 255) \div 100

\* What a write of raw to pwmN leaves there: ignored while pwmN_enable is 0
Written(ch, raw) ==
    IF dev.manual[ch] THEN [dev EXCEPT !.pwm[ch] = raw] ELSE dev

-----------------------------------------------------------------------------
Init ==
    /\ pc = "down" /\ file \in Files
    /\ dev \in [node : Nodes \cup {None}, manual : {[c \in Channels |-> FALSE]}, pwm : {NoDuty}]
    /\ temps = NoTemps /\ failsafe = FALSE /\ want = NoDuty /\ failed = {}
    /\ running = FALSE /\ reload_flag = FALSE /\ cfg = None /\ base = None
    /\ attempt = 0 /\ last_duty = NoDuty /\ live = NoState
    /\ lcd_enabled = FALSE

\* The locals of a cycle go out of scope
EndCycle == temps' = NoTemps /\ failsafe' = FALSE /\ want' = NoDuty /\ failed' = {}

\* The process ends, by return or by a kill.  The device keeps what it was told.
ProcessEnds ==
    /\ pc' = "down" /\ running' = FALSE /\ reload_flag' = FALSE
    /\ cfg' = None /\ base' = None /\ attempt' = 0 /\ last_duty' = NoDuty
    /\ live' = NoState /\ lcd_enabled' = FALSE
    /\ EndCycle
    /\ UNCHANGED <<file, dev>>

-----------------------------------------------------------------------------
(* Startup.                                                                 *)

\* systemd, or a user, starts the daemon
Start ==
    /\ pc = "down"
    /\ pc' = "load"
    /\ UNCHANGED <<file, dev, cycle, process>>

LoadConfig ==
    /\ pc = "load"
    /\ Loads(file)
    /\ cfg' = file /\ running' = TRUE
    /\ pc' = "discover"
    /\ UNCHANGED <<reload_flag, base, attempt, last_duty, live, lcd_enabled, file, dev, cycle>>

\* The file is refused, or cannot be read
LoadConfigFails == pc = "load" /\ ProcessEnds

DiscoverFound ==
    /\ pc = "discover" /\ dev.node # None
    /\ base' = dev.node /\ attempt' = 0
    /\ pc' = "manual_pump"
    /\ UNCHANGED <<running, reload_flag, cfg, last_duty, live, lcd_enabled, file, dev, cycle>>

\* Mutant: the time spent is not counted
DiscoverRetryUncounted ==
    /\ pc = "discover" /\ dev.node = None
    /\ UNCHANGED vars

DiscoverRetry ==
    /\ pc = "discover" /\ dev.node = None
    /\ attempt < MaxAttempts
    /\ attempt' = attempt + 1
    /\ UNCHANGED <<pc, running, reload_flag, cfg, base, last_duty, live, lcd_enabled, file, dev, cycle>>

DiscoverGivesUp ==
    pc = "discover" /\ dev.node = None /\ attempt = MaxAttempts /\ ProcessEnds

(* ensure_manual_mode: the write is skipped when pwmN_enable reads 1        *)
EnsureManual(ch) ==
    /\ pc = ManualPc[ch] /\ Attached
    /\ dev' = [dev EXCEPT !.manual[ch] = TRUE]
    /\ pc' = AfterManual[ch]
    /\ UNCHANGED <<file, cycle, process>>

\* The read or the write of pwmN_enable fails, as it does when the node is gone
EnsureManualFails(ch) == pc = ManualPc[ch] /\ ProcessEnds

\* LcdHandle::spawn and set_enabled, then ipc::start_server with a new flag and state
Serve ==
    /\ pc = "serve"
    /\ lcd_enabled' = cfg.lcd.enabled
    /\ pc' = "top"
    /\ UNCHANGED <<running, reload_flag, cfg, base, attempt, last_duty, live, file, dev, cycle>>

ServeFails == pc = "serve" /\ ProcessEnds

-----------------------------------------------------------------------------
(* The polling loop.                                                        *)

Stop == pc = "top" /\ ~ running /\ ProcessEnds

\* Mutant: a pending reload goes before the check of running
TakeReloadFirst ==
    /\ pc = "top" /\ reload_flag
    /\ reload_flag' = FALSE
    /\ pc' = "reload"
    /\ UNCHANGED <<running, cfg, base, attempt, last_duty, live, lcd_enabled, file, dev, cycle>>

TakeReload ==
    /\ pc = "top" /\ running /\ reload_flag
    /\ reload_flag' = FALSE
    /\ pc' = "reload"
    /\ UNCHANGED <<running, cfg, base, attempt, last_duty, live, lcd_enabled, file, dev, cycle>>

\* Mutant: a cycle may start without a look at the flag
NoReloadUnchecked ==
    /\ pc = "top" /\ running
    /\ pc' = "sense"
    /\ UNCHANGED <<file, dev, cycle, process>>

NoReload ==
    /\ pc = "top" /\ running /\ ~ reload_flag
    /\ pc' = "sense"
    /\ UNCHANGED <<file, dev, cycle, process>>

\* Mutant: the LCD thread is not told
ReloadWithoutLcd ==
    /\ pc = "reload" /\ Loads(file)
    /\ cfg' = file
    /\ last_duty' = NoDuty
    /\ pc' = "sense"
    /\ UNCHANGED <<running, reload_flag, base, attempt, live, lcd_enabled, file, dev, cycle>>

Reload ==
    /\ pc = "reload"
    /\ Loads(file)
    /\ cfg' = file
    /\ last_duty' = NoDuty
    /\ lcd_enabled' = file.lcd.enabled
    /\ pc' = "sense"
    /\ UNCHANGED <<running, reload_flag, base, attempt, live, file, dev, cycle>>

\* "KEEPING previous config": the file is refused, or this once it cannot be read
ReloadFails ==
    /\ pc = "reload"
    /\ pc' = "sense"
    /\ UNCHANGED <<file, dev, cycle, process>>

\* The readings a cycle may get: the liquid sensor hangs off the device's node
Sensed ==
    {t \in [Sources -> UNION {Readings[s] : s \in Sources} \cup {None}] :
        /\ \A s \in Sources : t[s] \in Readings[s] \cup {None}
        /\ ~ Attached => t["Liquid"] = None}

Sense ==
    /\ pc = "sense"
    /\ temps' \in Sensed
    /\ failsafe' = FailsafeTriggered(cfg, temps')
    /\ want' = DecideDuty(cfg, failsafe', temps')
    /\ pc' = "write_pump"
    /\ UNCHANGED <<file, dev, failed, process>>

\* No duty decided, or the one this channel is believed to have
WriteSkipped(ch) ==
    /\ pc = WritePc[ch]
    /\ want[ch] \in {None, last_duty[ch]}
    /\ pc' = AfterWrite[ch]
    /\ UNCHANGED <<file, dev, cycle, process>>

WriteOk(ch) ==
    /\ pc = WritePc[ch] /\ Attached
    /\ want[ch] \notin {None, last_duty[ch]}
    /\ dev' = Written(ch, RawDuty(want[ch]))
    /\ last_duty' = [last_duty EXCEPT ![ch] = want[ch]]
    /\ pc' = AfterWrite[ch]
    /\ UNCHANGED <<running, reload_flag, cfg, base, attempt, live, lcd_enabled, file, cycle>>

\* Mutant: the duty is cached although the write failed
WriteFailsCached(ch) ==
    /\ pc = WritePc[ch]
    /\ want[ch] \notin {None, last_duty[ch]}
    /\ failed' = failed \cup {ch}
    /\ last_duty' = [last_duty EXCEPT ![ch] = want[ch]]
    /\ pc' = AfterWrite[ch]
    /\ UNCHANGED <<running, reload_flag, cfg, base, attempt, live, lcd_enabled, file, dev,
                   temps, failsafe, want>>

\* The write returns an error, as it does when the node is gone
WriteFails(ch) ==
    /\ pc = WritePc[ch]
    /\ want[ch] \notin {None, last_duty[ch]}
    /\ \/ dev' = dev
       \/ AmbiguousErrors /\ Attached /\ dev' = Written(ch, RawDuty(want[ch]))
    /\ failed' = failed \cup {ch}
    /\ pc' = AfterWrite[ch]
    /\ UNCHANGED <<file, temps, failsafe, want, process>>

\* Mutant: the duty decided is shown, written or not
PublishWanted ==
    /\ pc = "publish"
    /\ live' = [duty |-> want, active_mode |-> cfg.mode, failsafe_active |-> failsafe]
    /\ pc' = "show"
    /\ UNCHANGED <<running, reload_flag, cfg, base, attempt, last_duty, lcd_enabled, file, dev, cycle>>

\* The update of the LiveState, under its lock.  The temperatures and the fan speeds
\* that it also copies are left out.
Publish ==
    /\ pc = "publish"
    /\ live' = [duty |-> last_duty, active_mode |-> cfg.mode, failsafe_active |-> failsafe]
    /\ pc' = "show"
    /\ UNCHANGED <<running, reload_flag, cfg, base, attempt, last_duty, lcd_enabled, file, dev, cycle>>

\* lcd.show, which queues a reading for the LCD thread, and the sleep
Show ==
    /\ pc = "show"
    /\ pc' = "top"
    /\ EndCycle
    /\ UNCHANGED <<file, dev, process>>

-----------------------------------------------------------------------------
(* What happens around the main thread.                                     *)

\* The handler of SIGINT, installed after the config is loaded
Interrupt ==
    /\ pc \in (Startup \ {"load"}) \cup Looping
    /\ running' = FALSE
    /\ UNCHANGED <<pc, reload_flag, cfg, base, attempt, last_duty, live, lcd_enabled, file, dev, cycle>>

\* SIGTERM and SIGKILL, which nothing handles, or a crash
Kill == pc # "down" /\ ProcessEnds

\* An IPC thread serves ReloadConfig
RequestReload ==
    /\ InLoop
    /\ reload_flag' = TRUE
    /\ UNCHANGED <<pc, running, cfg, base, attempt, last_duty, live, lcd_enabled, file, dev, cycle>>

\* A program, or a user, replaces the config file
EditFile ==
    /\ file' \in Files
    /\ UNCHANGED <<pc, dev, cycle, process>>

\* The device is disconnected; its sysfs node disappears
Unplug ==
    /\ dev.node # None
    /\ dev' = [dev EXCEPT !.node = None]
    /\ UNCHANGED <<pc, file, cycle, process>>

\* The driver binds the device: a new node, under the firmware's control
Enumerate ==
    /\ dev.node = None
    /\ \E n \in Nodes :
          /\ ReuseNode \/ n # base
          /\ dev' = [node |-> n, manual |-> [c \in Channels |-> FALSE], pwm |-> NoDuty]
    /\ UNCHANGED <<pc, file, cycle, process>>

-----------------------------------------------------------------------------
StartupStep ==
    \/ LoadConfig \/ LoadConfigFails
    \/ DiscoverFound \/ DiscoverRetry \/ DiscoverGivesUp
    \/ \E ch \in Channels : EnsureManual(ch) \/ EnsureManualFails(ch)
    \/ Serve \/ ServeFails

LoopStep ==
    \/ Stop \/ TakeReload \/ NoReload \/ Reload \/ ReloadFails \/ Sense
    \/ \E ch \in Channels : WriteSkipped(ch) \/ WriteOk(ch) \/ WriteFails(ch)
    \/ Publish \/ Show

MainThread == StartupStep \/ LoopStep

Signals == Start \/ Interrupt \/ Kill

DeviceStep == Unplug \/ Enumerate

Next == MainThread \/ Signals \/ DeviceStep \/ RequestReload \/ EditFile

Spec == Init /\ [][Next]_vars

-----------------------------------------------------------------------------
(* Properties.                                                              *)

Percentage == 0..100

TempsType == [Sources -> Int \cup {None}]

DutyType == [Channels -> Percentage \cup {None}]

LiveState == [duty : DutyType, active_mode : Modes \cup {None}, failsafe_active : BOOLEAN]

DeviceType ==
    [node : Nodes \cup {None}, manual : [Channels -> BOOLEAN],
     pwm : [Channels -> 0..255 \cup {None}]]

\* Every variable has its type; the locals of a process exist only while it does.
TypeOK ==
    /\ pc \in {"down"} \cup Startup \cup Looping
    /\ running \in BOOLEAN /\ reload_flag \in BOOLEAN /\ failsafe \in BOOLEAN
    /\ file \in Files
    /\ cfg \in ConfigType \cup {None}
    /\ (cfg = None) <=> (pc \in {"down", "load"})
    /\ base \in Nodes \cup {None}
    /\ attempt \in 0..MaxAttempts
    /\ temps \in TempsType
    /\ want \in DutyType
    /\ last_duty \in DutyType
    /\ failed \subseteq Channels
    /\ live \in LiveState
    /\ lcd_enabled \in BOOLEAN
    /\ dev \in DeviceType

(* "writes duty values nobody applies - exactly the bug we hit by hand      *)
(* earlier" (main.rs:72-74): while the loop runs and the node it writes to  *)
(* is there, both channels are in manual mode, so its writes are obeyed.    *)
WritesTakeEffect == InLoop /\ Attached => \A ch \in Channels : dev.manual[ch]

(* The loop skips a write when last_duty says that the channel has the duty *)
(* already.  The cache never lies: as long as the device stays, a channel   *)
(* with a cached duty runs at it, across failed writes, reloads, readings   *)
(* that come and go, and restarts of the daemon.                            *)
CacheCoherent ==
    InLoop /\ Attached =>
        \A ch \in Channels :
            last_duty[ch] # None => dev.pwm[ch] = RawDuty(last_duty[ch])

\* The reading of the current cycle is at or above the ceiling of the config in force
Hot == FailsafeTriggered(cfg, temps)

(* "if liquid temp reaches or exceeds this, pump+fan are forced to 100%     *)
(* regardless of active mode" (config.rs:49-51): when a cycle that read a   *)
(* liquid temperature at the ceiling has done its writes, every channel     *)
(* whose write did not return an error runs at full speed, whatever the     *)
(* mode, the curves and the duties cached before.                           *)
FailsafeForcesFull ==
    pc \in {"publish", "show"} /\ Hot /\ Attached =>
        \A ch \in Channels \ failed : dev.pwm[ch] = 255

(* A reload that is refused changes nothing and one that is accepted is     *)
(* taken whole: the loop only ever runs a config that validates, and the    *)
(* LCD thread was last told what that config says.                          *)
ConfigInForce ==
    InLoop => ValidConfig(cfg) /\ lcd_enabled = cfg.lcd.enabled

(* What a GetState client reads is what the device does: from one update to *)
(* the next cycle's writes, a duty it is shown is the duty of the channel.  *)
LiveReportsDevice ==
    pc \in {"show", "top", "reload", "sense"} /\ Attached =>
        \A ch \in Channels :
            live.duty[ch] # None => dev.pwm[ch] = RawDuty(live.duty[ch])

(* "validated to be at least 40C" (config.rs:53): the ceiling in force is a *)
(* temperature of 40 or more, which a reading can reach.                    *)
FailsafeCeilingValidated == InLoop => F32Ge(cfg.failsafe_temp_c, MinFailsafe)
=============================================================================
