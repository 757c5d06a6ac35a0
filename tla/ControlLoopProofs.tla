------------------------- MODULE ControlLoopProofs -------------------------
(***************************************************************************)
(* Proofs about the polling loop, for every set of config files, readings  *)
(* and nodes.                                                              *)
(***************************************************************************)
EXTENDS ControlLoop, CurveProofs

LEMMA RawDutyType == \A d \in Percentage : RawDuty(d) \in 0..255
BY DEF RawDuty, Percentage

\* What Config::load returns is a config that validates
LEMMA LoadsConfig ==
    ASSUME NEW text \in Files, Loads(text)
    PROVE  text \in ConfigType /\ ValidConfig(text) /\ text # None
BY LoopAssumption DEF Loads

LEMMA FailsafeType ==
    ASSUME NEW c, NEW t PROVE FailsafeTriggered(c, t) \in BOOLEAN
BY DEF FailsafeTriggered, F32Ge

(* decide_duty returns a percentage for each channel, or None.              *)
LEMMA DecideDutyType ==
    ASSUME NEW c \in ConfigType, ValidConfig(c), NEW hot \in BOOLEAN,
           NEW t \in TempsType
    PROVE  DecideDuty(c, hot, t) \in DutyType
<1> SUFFICES ASSUME NEW ch \in Channels
             PROVE  DecideDuty(c, hot, t)[ch] \in Percentage \cup {None}
  BY DEF DecideDuty, DutyType
<1>1. /\ c.silent_duty_pct \in Percentage
      /\ c.curve[ch].temp_source \in Sources
      /\ c.curve[ch].points \in CurvePoints
      /\ ValidCurve(c.curve[ch].points)
  BY DEF ConfigType, ValidConfig, Percentage
<1>2. ASSUME NEW temp \in Int
      PROVE  DutyForTemp(c.curve[ch].points, temp) \in Percentage
  BY <1>1, <1>2, DutyBounded DEF Percentage
<1>3. t[c.curve[ch].temp_source] \in Int \cup {None}
  BY <1>1 DEF TempsType
<1>4. 100 \in Percentage
  BY DEF Percentage
<1> QED
  BY <1>1, <1>2, <1>3, <1>4 DEF DecideDuty

-----------------------------------------------------------------------------
(* Types.  want is typed because the config in force validates.             *)

ConfigValid == cfg # None => ValidConfig(cfg)

TypeInv == TypeOK /\ ConfigValid

LEMMA BlankTypes ==
    NoTemps \in TempsType /\ NoDuty \in DutyType /\ NoState \in LiveState
<1>1. NoTemps \in TempsType
  BY DEF NoTemps, TempsType
<1>2. NoDuty \in DutyType
  BY DEF NoDuty, DutyType
<1> QED
  BY <1>1, <1>2 DEF NoState, LiveState

LEMMA ProcessEndsType == TypeInv /\ ProcessEnds => TypeInv'
<1> SUFFICES ASSUME TypeInv, ProcessEnds PROVE TypeInv'
  OBVIOUS
<1>1. pc' = "down" /\ cfg' = None /\ ConfigValid'
  BY DEF ProcessEnds, ConfigValid
<1>2. temps' \in TempsType /\ want' \in DutyType /\ last_duty' \in DutyType /\ live' \in LiveState
  BY BlankTypes DEF ProcessEnds, EndCycle
<1>3. base' \in Nodes \cup {None} /\ attempt' \in 0..MaxAttempts
  BY LoopAssumption DEF ProcessEnds
<1>4. failed' \subseteq Channels /\ running' \in BOOLEAN /\ reload_flag' \in BOOLEAN
      /\ failsafe' \in BOOLEAN /\ lcd_enabled' \in BOOLEAN
  BY DEF ProcessEnds, EndCycle
<1>5. file' \in Files /\ dev' \in DeviceType
  BY DEF TypeInv, TypeOK, ProcessEnds
<1> QED
  BY <1>1, <1>2, <1>3, <1>4, <1>5 DEF TypeInv, TypeOK

LEMMA InitType == Init => TypeInv
<1> SUFFICES ASSUME Init PROVE TypeInv
  OBVIOUS
<1>1. dev \in DeviceType
  BY DEF Init, DeviceType, NoDuty
<1>2. pc = "down" /\ cfg = None /\ ConfigValid
  BY DEF Init, ConfigValid
<1>3. temps \in TempsType /\ want \in DutyType /\ last_duty \in DutyType /\ live \in LiveState
  BY BlankTypes DEF Init
<1>4. base \in Nodes \cup {None} /\ attempt \in 0..MaxAttempts /\ file \in Files
  BY LoopAssumption DEF Init
<1>5. failed \subseteq Channels /\ running \in BOOLEAN /\ reload_flag \in BOOLEAN
      /\ failsafe \in BOOLEAN /\ lcd_enabled \in BOOLEAN
  BY DEF Init
<1> QED
  BY <1>1, <1>2, <1>3, <1>4, <1>5 DEF TypeInv, TypeOK

LEMMA StartupType == TypeInv /\ StartupStep => TypeInv'
<1> SUFFICES ASSUME TypeInv, StartupStep PROVE TypeInv'
  OBVIOUS
<1> USE DEF TypeInv, TypeOK, ConfigValid, Startup, Looping, Decided
<1>1. CASE LoadConfig
  BY <1>1, LoadsConfig, LoopAssumption DEF LoadConfig, cycle
<1>2. CASE DiscoverFound
  <2>1. dev.node \in Nodes \cup {None}
    BY DEF DeviceType
  <2> QED BY <1>2, <2>1, LoopAssumption DEF DiscoverFound, cycle
<1>3. CASE DiscoverRetry
  BY <1>3, LoopAssumption DEF DiscoverRetry, cycle
<1>4. ASSUME NEW ch \in Channels, EnsureManual(ch)
      PROVE  TypeInv'
  <2>1. dev' \in DeviceType
    BY <1>4 DEF EnsureManual, DeviceType
  <2>2. pc' \in {"manual_fan", "serve"} /\ pc \in {"manual_pump", "manual_fan"}
    BY <1>4 DEF EnsureManual, ManualPc, AfterManual, Channels
  <2> QED BY <1>4, <2>1, <2>2 DEF EnsureManual, cycle, process
<1>5. CASE Serve
  <2>1. cfg \in ConfigType
    BY <1>5 DEF Serve
  <2>2. cfg.lcd.enabled \in BOOLEAN
    BY <2>1 DEF ConfigType
  <2> QED BY <1>5, <2>1, <2>2 DEF Serve, cycle
<1> QED
  BY <1>1, <1>2, <1>3, <1>4, <1>5, ProcessEndsType
     DEF StartupStep, LoadConfigFails, DiscoverGivesUp, EnsureManualFails, ServeFails

\* The readings of a cycle
LEMMA SensedType == Sensed \subseteq TempsType
BY LoopAssumption DEF Sensed, TempsType

LEMMA WrittenType ==
    ASSUME TypeOK, NEW ch \in Channels, NEW d \in Percentage
    PROVE  Written(ch, RawDuty(d)) \in DeviceType
BY RawDutyType DEF TypeOK, Written, DeviceType

LEMMA LoopType == TypeInv /\ LoopStep => TypeInv'
<1> SUFFICES ASSUME TypeInv, LoopStep PROVE TypeInv'
  OBVIOUS
<1> USE DEF TypeInv, TypeOK, ConfigValid, Startup, Looping, Decided
<1>1. CASE Stop
  BY <1>1, ProcessEndsType DEF Stop
<1>2. CASE TakeReload
  BY <1>2 DEF TakeReload, cycle
<1>3. CASE NoReload
  BY <1>3 DEF NoReload, cycle, process
<1>4. CASE Reload
  <2>1. file \in ConfigType /\ ValidConfig(file) /\ file # None
    BY <1>4, LoadsConfig DEF Reload
  <2>2. file.lcd.enabled \in BOOLEAN
    BY <2>1 DEF ConfigType
  <2> QED BY <1>4, <2>1, <2>2, BlankTypes DEF Reload, cycle
<1>5. CASE ReloadFails
  BY <1>5 DEF ReloadFails, cycle, process
<1>6. CASE Sense
  <2>1. cfg \in ConfigType /\ ValidConfig(cfg)
    BY <1>6 DEF Sense
  <2>2. temps' \in TempsType
    BY <1>6, SensedType DEF Sense
  <2>3. failsafe' \in BOOLEAN
    BY <1>6, FailsafeType DEF Sense
  <2>4. want' \in DutyType
    BY <1>6, <2>1, <2>2, <2>3, DecideDutyType DEF Sense
  <2> QED BY <1>6, <2>2, <2>3, <2>4 DEF Sense, process
<1>7. ASSUME NEW ch \in Channels, WriteSkipped(ch) \/ WriteOk(ch) \/ WriteFails(ch)
      PROVE  TypeInv'
  <2>1. pc \in {"write_pump", "write_fan"} /\ pc' \in {"write_fan", "publish"}
    BY <1>7 DEF WriteSkipped, WriteOk, WriteFails, WritePc, AfterWrite, Channels
  <2>2. want[ch] \in Percentage \cup {None}
    BY DEF DutyType
  <2>3. CASE WriteSkipped(ch)
    BY <2>1, <2>3 DEF WriteSkipped, cycle, process
  <2>4. CASE WriteOk(ch)
    <3>1. want[ch] \in Percentage
      BY <2>2, <2>4 DEF WriteOk
    <3>2. dev' \in DeviceType
      BY <2>4, <3>1, WrittenType DEF WriteOk
    <3>3. last_duty' \in DutyType
      BY <2>4, <3>1 DEF WriteOk, DutyType
    <3> QED BY <2>1, <2>4, <3>2, <3>3 DEF WriteOk, cycle
  <2>5. CASE WriteFails(ch)
    <3>1. want[ch] \in Percentage
      BY <2>2, <2>5 DEF WriteFails
    <3>2. dev' \in DeviceType
      BY <2>5, <3>1, WrittenType DEF WriteFails
    <3> QED BY <2>1, <2>5, <3>2 DEF WriteFails, process
  <2> QED BY <1>7, <2>3, <2>4, <2>5
<1>8. CASE Publish
  <2>1. cfg \in ConfigType
    BY <1>8 DEF Publish
  <2>2. cfg.mode \in Modes
    BY <2>1 DEF ConfigType
  <2>3. live' \in LiveState
    BY <1>8, <2>2 DEF Publish, LiveState
  <2> QED BY <1>8, <2>3 DEF Publish, cycle
<1>9. CASE Show
  BY <1>9, BlankTypes DEF Show, EndCycle, process
<1> QED
  BY <1>1, <1>2, <1>3, <1>4, <1>5, <1>6, <1>7, <1>8, <1>9 DEF LoopStep

LEMMA AroundType ==
    TypeInv /\ (Signals \/ DeviceStep \/ RequestReload \/ EditFile) => TypeInv'
<1> SUFFICES ASSUME TypeInv, Signals \/ DeviceStep \/ RequestReload \/ EditFile
             PROVE  TypeInv'
  OBVIOUS
<1> USE DEF TypeInv, TypeOK, ConfigValid, Startup, Looping, Decided
<1>1. CASE Start
  BY <1>1 DEF Start, cycle, process
<1>2. CASE Interrupt
  BY <1>2 DEF Interrupt, cycle
<1>3. CASE Kill
  BY <1>3, ProcessEndsType DEF Kill
<1>4. CASE Unplug
  <2>1. dev' \in DeviceType
    BY <1>4 DEF Unplug, DeviceType
  <2> QED BY <1>4, <2>1 DEF Unplug, cycle, process
<1>5. CASE Enumerate
  <2>1. dev' \in DeviceType
    BY <1>5 DEF Enumerate, DeviceType, NoDuty
  <2> QED BY <1>5, <2>1 DEF Enumerate, cycle, process
<1>6. CASE RequestReload
  BY <1>6 DEF RequestReload, cycle
<1>7. CASE EditFile
  BY <1>7 DEF EditFile, cycle, process
<1> QED
  BY <1>1, <1>2, <1>3, <1>4, <1>5, <1>6, <1>7 DEF Signals, DeviceStep

LEMMA NextType == TypeInv /\ [Next]_vars => TypeInv'
<1> SUFFICES ASSUME TypeInv, [Next]_vars PROVE TypeInv'
  OBVIOUS
<1>1. CASE UNCHANGED vars
  BY <1>1 DEF vars, cycle, process, TypeInv, TypeOK, ConfigValid
<1> QED
  BY <1>1, StartupType, LoopType, AroundType DEF Next, MainThread

(* Every variable keeps its type, and the config in force always validates. *)
THEOREM TypeCorrect == Spec => []TypeOK
<1>1. TypeInv => TypeOK
  BY DEF TypeInv
<1> QED
  BY <1>1, InitType, NextType, PTL DEF Spec

-----------------------------------------------------------------------------
(* The config in force.                                                     *)

Told == InLoop => lcd_enabled = cfg.lcd.enabled

LEMMA NextTold == TypeInv /\ Told /\ [Next]_vars => Told'
<1> SUFFICES ASSUME TypeInv, Told, [Next]_vars PROVE Told'
  OBVIOUS
<1> USE DEF Told, InLoop, Looping, Decided
<1>1. CASE UNCHANGED vars
  BY <1>1 DEF vars, process
<1>2. ASSUME ProcessEnds PROVE Told'
  BY <1>2 DEF ProcessEnds
<1>3. CASE StartupStep
  BY <1>2, <1>3 DEF StartupStep, LoadConfig, LoadConfigFails, DiscoverFound, DiscoverRetry,
     DiscoverGivesUp, EnsureManual, EnsureManualFails, Serve, ServeFails, Channels, ManualPc,
     AfterManual, process
<1>4. CASE LoopStep
  <2>1. ASSUME NEW ch \in Channels, WriteSkipped(ch) \/ WriteOk(ch) \/ WriteFails(ch)
        PROVE  Told'
    <3>1. pc \in Decided /\ UNCHANGED <<cfg, lcd_enabled>>
      BY <2>1 DEF WriteSkipped, WriteOk, WriteFails, WritePc, Channels, process
    <3> QED BY <3>1
  <2> QED BY <1>2, <1>4, <2>1 DEF LoopStep, Stop, TakeReload, NoReload, Reload, ReloadFails,
       Sense, Publish, Show, process
<1>5. CASE Signals
  BY <1>2, <1>5 DEF Signals, Start, Interrupt, Kill, process
<1>6. CASE DeviceStep \/ RequestReload \/ EditFile
  BY <1>6 DEF DeviceStep, Unplug, Enumerate, RequestReload, EditFile, process
<1> QED
  BY <1>1, <1>3, <1>4, <1>5, <1>6 DEF Next, MainThread

(* The loop only runs configs that validate, and never with an LCD setting  *)
(* other than the one the LCD thread was last told.                         *)
THEOREM ConfigAlwaysInForce == Spec => []ConfigInForce
<1>1. Init => TypeInv /\ Told
  BY InitType DEF Init, Told, InLoop, Looping, Decided
<1>2. TypeInv /\ Told => ConfigInForce
  BY DEF TypeInv, TypeOK, ConfigValid, Told, ConfigInForce, InLoop, Looping, Decided
<1> QED
  BY <1>1, <1>2, NextType, NextTold, PTL DEF Spec

-----------------------------------------------------------------------------
(* The write cache.  Two assumptions on the device: a replugged device gets *)
(* a new node, and a write that returns an error had no effect.  (Without   *)
(* either one CacheCoherent is false.)                                      *)

ManualDone == [pump |-> {"manual_fan", "serve"} \cup Looping, fan |-> {"serve"} \cup Looping]

\* A channel is in manual mode from its ensure_manual_mode on
ManualInv ==
    Attached => \A ch \in Channels : pc \in ManualDone[ch] => dev.manual[ch]

LEMMA NextManual ==
    ASSUME ~ ReuseNode
    PROVE  TypeInv /\ ManualInv /\ [Next]_vars => ManualInv'
<1> SUFFICES ASSUME TypeInv, ManualInv, [Next]_vars,
                    NEW ch \in Channels, Attached', pc' \in ManualDone[ch]
             PROVE  dev'.manual[ch]
  BY DEF ManualInv
<1> USE DEF ManualInv, ManualDone, Attached, Looping, Decided, Channels
<1>1. CASE UNCHANGED <<dev, base>> /\ pc \in ManualDone[ch]
  BY <1>1
<1>2. pc' # "down" /\ ~ ProcessEnds
  BY DEF ProcessEnds
<1>3. CASE UNCHANGED vars
  BY <1>1, <1>3 DEF vars, process
<1>4. CASE StartupStep
  <2>1. ASSUME NEW c \in Channels, EnsureManual(c)
        PROVE  dev'.manual[ch]
    BY <2>1 DEF EnsureManual, ManualPc, AfterManual, TypeInv, TypeOK, DeviceType, process
  <2>2. CASE LoadConfig \/ DiscoverFound \/ DiscoverRetry
    BY <2>2 DEF LoadConfig, DiscoverFound, DiscoverRetry
  <2>3. CASE Serve
    BY <1>1, <2>3 DEF Serve
  <2> QED BY <1>2, <1>4, <2>1, <2>2, <2>3 DEF StartupStep, LoadConfigFails, DiscoverGivesUp,
       EnsureManualFails, ServeFails
<1>5. CASE LoopStep
  <2>1. ASSUME NEW c \in Channels, WriteSkipped(c) \/ WriteOk(c) \/ WriteFails(c)
        PROVE  dev'.manual[ch]
    <3>1. pc \in ManualDone[ch] /\ base' = base
      BY <2>1 DEF WriteSkipped, WriteOk, WriteFails, WritePc, process
    <3>2. dev' = dev \/ dev' = Written(c, RawDuty(want[c]))
      BY <2>1 DEF WriteSkipped, WriteOk, WriteFails
    <3>3. dev'.node = dev.node /\ dev'.manual = dev.manual
      BY <3>2 DEF Written, TypeInv, TypeOK, DeviceType
    <3> QED BY <3>1, <3>3
  <2>2. CASE TakeReload \/ NoReload \/ Reload \/ ReloadFails \/ Sense \/ Publish \/ Show
    BY <1>1, <2>2 DEF TakeReload, NoReload, Reload, ReloadFails, Sense, Publish, Show, process
  <2> QED BY <1>2, <1>5, <2>1, <2>2 DEF LoopStep, Stop
<1>6. CASE Signals \/ RequestReload \/ EditFile
  BY <1>1, <1>2, <1>6 DEF Signals, Start, Interrupt, Kill, RequestReload, EditFile, process
<1>7. CASE DeviceStep
  BY <1>7 DEF DeviceStep, Unplug, Enumerate, process, TypeInv, TypeOK, DeviceType
<1> QED
  BY <1>3, <1>4, <1>5, <1>6, <1>7 DEF Next, MainThread

\* Outside of the loop nothing is cached and nothing is shown
Fresh == ~ InLoop => last_duty = NoDuty /\ live = NoState

LEMMA NextFresh == TypeInv /\ Fresh /\ [Next]_vars => Fresh'
<1> SUFFICES ASSUME TypeInv, Fresh, [Next]_vars, ~ InLoop'
             PROVE  last_duty' = NoDuty /\ live' = NoState
  BY DEF Fresh
<1> USE DEF Fresh, InLoop, Looping, Decided
<1>1. CASE UNCHANGED vars
  BY <1>1 DEF vars, process
<1>2. CASE ProcessEnds
  BY <1>2 DEF ProcessEnds
<1>3. CASE StartupStep
  BY <1>2, <1>3 DEF StartupStep, LoadConfig, LoadConfigFails, DiscoverFound, DiscoverRetry,
     DiscoverGivesUp, EnsureManual, EnsureManualFails, Serve, ServeFails, Channels, ManualPc,
     AfterManual, process
<1>4. CASE LoopStep
  <2>1. ASSUME NEW ch \in Channels, WriteSkipped(ch) \/ WriteOk(ch) \/ WriteFails(ch)
        PROVE  FALSE
    BY <2>1 DEF WriteSkipped, WriteOk, WriteFails, AfterWrite, Channels
  <2> QED BY <1>2, <1>4, <2>1 DEF LoopStep, Stop, TakeReload, NoReload, Reload, ReloadFails,
       Sense, Publish, Show
<1>5. CASE Signals
  BY <1>2, <1>5 DEF Signals, Start, Interrupt, Kill, process
<1>6. CASE DeviceStep \/ RequestReload \/ EditFile
  BY <1>6 DEF DeviceStep, Unplug, Enumerate, RequestReload, EditFile, process
<1> QED
  BY <1>1, <1>3, <1>4, <1>5, <1>6 DEF Next, MainThread

CacheInv == TypeInv /\ ManualInv /\ Fresh /\ CacheCoherent

\* A write that succeeds leaves its channel, in manual mode, at the value written
LEMMA WrittenChannel ==
    ASSUME TypeOK, NEW ch \in Channels, dev.manual[ch], NEW d
    PROVE  /\ Written(ch, RawDuty(d)).node = dev.node
           /\ Written(ch, RawDuty(d)).pwm = [dev.pwm EXCEPT ![ch] = RawDuty(d)]
BY DEF Written, TypeOK, DeviceType

LEMMA NextCache ==
    ASSUME ~ ReuseNode, ~ AmbiguousErrors
    PROVE  CacheInv /\ [Next]_vars => CacheCoherent'
<1> SUFFICES ASSUME CacheInv, [Next]_vars, InLoop', Attached',
                    NEW ch \in Channels, last_duty'[ch] # None
             PROVE  dev'.pwm[ch] = RawDuty(last_duty'[ch])
  BY DEF CacheCoherent
<1> USE DEF CacheInv, CacheCoherent, Attached
<1>1. CASE UNCHANGED <<dev, base>> /\ InLoop /\ last_duty'[ch] \in {None, last_duty[ch]}
  BY <1>1
<1>2. ~ ProcessEnds
  BY DEF ProcessEnds, InLoop, Looping, Decided
<1>3. CASE UNCHANGED vars
  BY <1>1, <1>3 DEF vars, process, InLoop
<1>4. CASE StartupStep
  <2>1. ~ InLoop /\ last_duty' = last_duty
    BY <1>2, <1>4 DEF StartupStep, LoadConfig, LoadConfigFails, DiscoverFound, DiscoverRetry,
       DiscoverGivesUp, EnsureManual, EnsureManualFails, Serve, ServeFails, Channels, ManualPc,
       InLoop, Looping, Decided, process
  <2> QED BY <2>1 DEF Fresh, NoDuty
<1>5. CASE LoopStep
  <2>1. ASSUME NEW c \in Channels, WriteSkipped(c)
        PROVE  dev'.pwm[ch] = RawDuty(last_duty'[ch])
    BY <1>1, <2>1 DEF WriteSkipped, WritePc, Channels, InLoop, Looping, Decided, process
  <2>2. ASSUME NEW c \in Channels, WriteOk(c)
        PROVE  dev'.pwm[ch] = RawDuty(last_duty'[ch])
    <3>1. InLoop /\ dev.manual[c] /\ Attached
      BY <2>2 DEF WriteOk, WritePc, Channels, InLoop, Looping, Decided, ManualInv, ManualDone
    <3>2. dev'.pwm = [dev.pwm EXCEPT ![c] = RawDuty(want[c])]
      BY <2>2, <3>1, WrittenChannel DEF WriteOk, TypeInv
    <3>3. dev.pwm \in [Channels -> 0..255 \cup {None}] /\ last_duty \in [Channels -> Percentage \cup {None}]
      BY DEF TypeInv, TypeOK, DeviceType, DutyType
    <3>4. last_duty' = [last_duty EXCEPT ![c] = want[c]]
      BY <2>2 DEF WriteOk
    <3>5. CASE ch = c
      BY <3>2, <3>3, <3>4, <3>5
    <3>6. CASE ch # c
      BY <3>1, <3>2, <3>3, <3>4, <3>6
    <3> QED BY <3>5, <3>6
  <2>3. ASSUME NEW c \in Channels, WriteFails(c)
        PROVE  dev'.pwm[ch] = RawDuty(last_duty'[ch])
    BY <1>1, <2>3 DEF WriteFails, WritePc, Channels, InLoop, Looping, Decided, process
  <2>4. CASE Reload
    BY <1>1, <2>4 DEF Reload, NoDuty, InLoop, Looping, Decided
  <2>5. CASE TakeReload \/ NoReload \/ ReloadFails \/ Sense \/ Publish \/ Show
    BY <1>1, <2>5 DEF TakeReload, NoReload, ReloadFails, Sense, Publish, Show, process, InLoop,
       Looping, Decided
  <2> QED BY <1>2, <1>5, <2>1, <2>2, <2>3, <2>4, <2>5 DEF LoopStep, Stop
<1>6. CASE Signals
  <2>1. CASE Start
    BY <2>1 DEF Start, InLoop, Looping, Decided
  <2>2. CASE Interrupt
    BY <1>1, <2>2 DEF Interrupt, InLoop
  <2> QED BY <1>2, <1>6, <2>1, <2>2 DEF Signals, Kill
<1>7. CASE RequestReload \/ EditFile
  BY <1>1, <1>7 DEF RequestReload, EditFile, process, InLoop
<1>8. CASE DeviceStep
  BY <1>8 DEF DeviceStep, Unplug, Enumerate, process, TypeInv, TypeOK, DeviceType
<1> QED
  BY <1>3, <1>4, <1>5, <1>6, <1>7, <1>8 DEF Next, MainThread

LEMMA InitCache == Init => CacheInv
<1> SUFFICES ASSUME Init PROVE CacheInv
  OBVIOUS
<1>1. ~ InLoop /\ ~ Attached
  BY DEF Init, InLoop, Looping, Decided, Attached
<1> QED
  BY <1>1, InitType DEF Init, CacheInv, ManualInv, Fresh, CacheCoherent

LEMMA CacheInductive ==
    ASSUME ~ ReuseNode, ~ AmbiguousErrors
    PROVE  Spec => []CacheInv
<1>1. CacheInv /\ [Next]_vars => CacheInv'
  BY NextType, NextManual, NextFresh, NextCache DEF CacheInv
<1> QED
  BY <1>1, InitCache, PTL DEF Spec

(* Where the device stays at its node and errors are honest, a cached duty  *)
(* is the duty the channel runs at, so a write is skipped only when it      *)
(* would change nothing.                                                    *)
THEOREM CacheAlwaysCoherent ==
    ASSUME ~ ReuseNode, ~ AmbiguousErrors
    PROVE  Spec => []CacheCoherent
<1>1. CacheInv => CacheCoherent
  BY DEF CacheInv
<1> QED
  BY <1>1, CacheInductive, PTL

(* Where a replugged device gets a new node, every write of the loop that   *)
(* reaches a device reaches one in manual mode.                             *)
THEOREM WritesAlwaysTakeEffect ==
    ASSUME ~ ReuseNode
    PROVE  Spec => []WritesTakeEffect
<1>1. Init => TypeInv /\ ManualInv
  BY InitType DEF Init, ManualInv, Attached
<1>2. TypeInv /\ ManualInv => WritesTakeEffect
  BY DEF ManualInv, ManualDone, WritesTakeEffect, InLoop, Channels
<1> QED
  BY <1>1, <1>2, NextType, NextManual, PTL DEF Spec

-----------------------------------------------------------------------------
(* The failsafe.                                                            *)

\* Past the writes: whether a cycle is done with a channel
Done == [pump |-> {"write_fan", "publish", "show"}, fan |-> {"publish", "show"}]

\* What a cycle decided stays decided, and a channel it is done with either has it or failed
CycleInv ==
    pc \in Decided =>
        /\ failsafe = FailsafeTriggered(cfg, temps)
        /\ want = DecideDuty(cfg, failsafe, temps)
        /\ \A ch \in Channels \ failed :
              pc \in Done[ch] => want[ch] \in {None, last_duty[ch]}

LEMMA NextCycle == TypeInv /\ CycleInv /\ [Next]_vars => CycleInv'
<1> SUFFICES ASSUME TypeInv, CycleInv, [Next]_vars, pc' \in Decided
             PROVE  CycleInv'
  BY DEF CycleInv
<1>1. ~ ProcessEnds
  BY DEF ProcessEnds, Decided
<1>2. CASE UNCHANGED <<pc, cfg, last_duty, cycle>>
  BY <1>2 DEF CycleInv, cycle
<1>3. CASE UNCHANGED vars
  BY <1>2, <1>3 DEF vars, process
<1>4. CASE StartupStep
  BY <1>1, <1>4 DEF StartupStep, LoadConfig, LoadConfigFails, DiscoverFound, DiscoverRetry,
     DiscoverGivesUp, EnsureManual, EnsureManualFails, Serve, ServeFails, Channels, AfterManual,
     Decided
<1>5. CASE LoopStep
  <2>1. CASE Sense
    BY <2>1 DEF Sense, CycleInv, Done, Channels, process
  <2>2. ASSUME NEW c \in Channels, WriteSkipped(c) \/ WriteOk(c) \/ WriteFails(c)
        PROVE  CycleInv'
    <3>1. /\ pc \in Decided
          /\ UNCHANGED <<cfg, temps, failsafe, want>>
      BY <2>2 DEF WriteSkipped, WriteOk, WriteFails, WritePc, Channels, Decided, cycle, process
    <3>2. \A ch \in Channels : pc' \in Done[ch] => ch = c \/ pc \in Done[ch]
      BY <2>2 DEF WriteSkipped, WriteOk, WriteFails, WritePc, AfterWrite, Channels, Done
    <3>3. \A ch \in Channels \ failed' : ch # c => ch \notin failed /\ last_duty'[ch] = last_duty[ch]
      BY <2>2 DEF WriteSkipped, WriteOk, WriteFails, cycle, process, TypeInv, TypeOK, DutyType
    <3>4. c \notin failed' => want'[c] \in {None, last_duty'[c]}
      BY <2>2, <3>1 DEF WriteSkipped, WriteOk, WriteFails, cycle, process, TypeInv, TypeOK, DutyType
    <3> QED BY <3>1, <3>2, <3>3, <3>4 DEF CycleInv
  <2>3. CASE Publish
    BY <2>3 DEF Publish, CycleInv, Done, Decided, Channels, cycle
  <2>4. CASE TakeReload \/ NoReload \/ Reload \/ ReloadFails \/ Show
    BY <2>4 DEF TakeReload, NoReload, Reload, ReloadFails, Show, Decided
  <2> QED BY <1>1, <1>5, <2>1, <2>2, <2>3, <2>4 DEF LoopStep, Stop
<1>6. CASE Signals
  <2>1. CASE Start
    BY <2>1 DEF Start, Decided
  <2>2. CASE Interrupt
    BY <1>2, <2>2 DEF Interrupt
  <2> QED BY <1>1, <1>6, <2>1, <2>2 DEF Signals, Kill
<1>7. CASE DeviceStep \/ RequestReload \/ EditFile
  BY <1>2, <1>7 DEF DeviceStep, Unplug, Enumerate, RequestReload, EditFile, process
<1> QED
  BY <1>3, <1>4, <1>5, <1>6, <1>7 DEF Next, MainThread

(* The failsafe, for every config that validates and every sequence of      *)
(* readings, reloads, failed writes, kills and replugs: when a cycle that   *)
(* read the liquid at the ceiling has done its writes, each channel whose   *)
(* write did not fail runs at 255.                                          *)
THEOREM FailsafeAlwaysForcesFull ==
    ASSUME ~ ReuseNode, ~ AmbiguousErrors
    PROVE  Spec => []FailsafeForcesFull
<1>1. Init => CycleInv
  BY DEF Init, CycleInv, Decided
<1>2. CacheInv /\ CycleInv => FailsafeForcesFull
  <2> SUFFICES ASSUME CacheInv, CycleInv, pc \in {"publish", "show"}, Hot, Attached,
                      NEW ch \in Channels \ failed
               PROVE  dev.pwm[ch] = 255
    BY DEF FailsafeForcesFull
  <2>1. want[ch] = 100 /\ want[ch] \in {None, last_duty[ch]}
    <3>1. pc \in Decided /\ pc \in Done[ch]
      BY DEF Decided, Done, Channels
    <3>2. want = DecideDuty(cfg, failsafe, temps) /\ failsafe
      BY <3>1 DEF CycleInv, Hot
    <3>3. want[ch] = 100
      BY <3>2 DEF DecideDuty
    <3> QED BY <3>1, <3>3 DEF CycleInv
  <2>2. last_duty[ch] = 100 /\ last_duty[ch] # None
    BY <2>1, LoopAssumption
  <2>3. InLoop
    BY DEF InLoop, Looping, Decided
  <2> QED BY <2>2, <2>3 DEF CacheInv, CacheCoherent, RawDuty
<1>3. CacheInv => TypeInv
  BY DEF CacheInv
<1> QED
  BY <1>1, <1>2, <1>3, NextCycle, CacheInductive, PTL DEF Spec

-----------------------------------------------------------------------------
(* What the IPC clients are shown.                                          *)

LEMMA NextLive ==
    ASSUME ~ ReuseNode, ~ AmbiguousErrors
    PROVE  CacheInv /\ LiveReportsDevice /\ [Next]_vars => LiveReportsDevice'
<1> DEFINE Shown == {"show", "top", "reload", "sense"}
<1> SUFFICES ASSUME CacheInv, LiveReportsDevice, [Next]_vars, pc' \in Shown, Attached',
                    NEW ch \in Channels, live'.duty[ch] # None
             PROVE  dev'.pwm[ch] = RawDuty(live'.duty[ch])
  BY DEF LiveReportsDevice
<1> USE DEF CacheInv, Attached, Shown
<1>1. CASE UNCHANGED <<dev, base, live>> /\ pc \in Shown
  BY <1>1 DEF LiveReportsDevice
<1>2. ~ ProcessEnds
  BY DEF ProcessEnds
<1>3. CASE UNCHANGED vars
  BY <1>1, <1>3 DEF vars, process
<1>4. CASE StartupStep
  <2>1. CASE Serve
    BY <2>1 DEF Serve, Fresh, InLoop, Looping, Decided, NoState, NoDuty
  <2> QED BY <1>2, <1>4, <2>1 DEF StartupStep, LoadConfig, LoadConfigFails, DiscoverFound,
       DiscoverRetry, DiscoverGivesUp, EnsureManual, EnsureManualFails, ServeFails, Channels,
       AfterManual
<1>5. CASE LoopStep
  <2>1. ASSUME NEW c \in Channels, WriteSkipped(c) \/ WriteOk(c) \/ WriteFails(c)
        PROVE  FALSE
    BY <2>1 DEF WriteSkipped, WriteOk, WriteFails, AfterWrite, Channels
  <2>2. CASE Publish
    BY <2>2 DEF Publish, CacheCoherent, InLoop, Looping, Decided
  <2>3. CASE TakeReload \/ NoReload \/ Reload \/ ReloadFails \/ Show
    BY <1>1, <2>3 DEF TakeReload, NoReload, Reload, ReloadFails, Show, process
  <2> QED BY <1>2, <1>5, <2>1, <2>2, <2>3 DEF LoopStep, Stop, Sense
<1>6. CASE Signals
  <2>1. CASE Start
    BY <2>1 DEF Start
  <2>2. CASE Interrupt
    BY <1>1, <2>2 DEF Interrupt
  <2> QED BY <1>2, <1>6, <2>1, <2>2 DEF Signals, Kill
<1>7. CASE RequestReload \/ EditFile
  BY <1>1, <1>7 DEF RequestReload, EditFile, process
<1>8. CASE DeviceStep
  BY <1>8 DEF DeviceStep, Unplug, Enumerate, process, TypeInv, TypeOK, DeviceType
<1> QED
  BY <1>3, <1>4, <1>5, <1>6, <1>7, <1>8 DEF Next, MainThread

(* From an update of the LiveState to the next cycle's writes, the duties   *)
(* that GetState answers are the duties the device runs at.                 *)
THEOREM LiveAlwaysReportsDevice ==
    ASSUME ~ ReuseNode, ~ AmbiguousErrors
    PROVE  Spec => []LiveReportsDevice
<1>1. Init => LiveReportsDevice
  BY DEF Init, LiveReportsDevice
<1> QED
  BY <1>1, NextLive, CacheInductive, PTL DEF Spec
=============================================================================
