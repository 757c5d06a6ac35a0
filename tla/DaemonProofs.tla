---------------------------- MODULE DaemonProofs ----------------------------
(***************************************************************************)
(* Proofs about the daemon as one program: it implements both components    *)
(* that it is made of, so what is proved about each of them alone holds     *)
(* here; and the promise of SetMode, which takes both, is kept.             *)
(***************************************************************************)
EXTENDS Daemon, TLAPS

AllIdle == [c \in Clients |-> Store!Idle]

Pcs == {"down"} \cup Loop!Startup \cup Loop!Looping

-----------------------------------------------------------------------------
(* Loads means the same in every module that extends Config.                *)

LEMMA OneLoads ==
    ASSUME NEW text
    PROVE  /\ Loop!Loads(text) <=> Loads(text)
           /\ Store!Loads(text) <=> Loads(text)
  BY DEF Loads, ValidConfig, ValidCurve, F32Lt, MinFailsafe, Channels,
         Loop!Loads, Loop!ValidConfig, Loop!ValidCurve, Loop!F32Lt, Loop!MinFailsafe, Loop!Channels,
         Store!Loads, Store!ValidConfig, Store!ValidCurve, Store!F32Lt, Store!MinFailsafe,
         Store!Channels

LEMMA OneSetActiveMode ==
    ASSUME NEW text, NEW m
    PROVE  Store!SetActiveMode(text, m) = SetActiveMode(text, m)
  BY DEF SetActiveMode, Store!SetActiveMode

-----------------------------------------------------------------------------
(* The threads, the lock and the flag exist only while the loop runs, and   *)
(* the config in force only once it is loaded.                              *)

Alive ==
    /\ pc \in Pcs
    /\ pc \in {"down", "load"} => cfg = None
    /\ ~ Loop!InLoop => thread = AllIdle /\ write_lock = None /\ reload_flag = FALSE
    /\ unannounced \in BOOLEAN

\* What the store can see of a step of the main thread or a signal
Unseen ==
    /\ UNCHANGED <<cfg, reload_flag, DaemonState>>
    /\ pc = "reload" <=> pc' = "reload"
    /\ pc' \in Pcs
    /\ ~ TakesFile /\ ~ LeavesFile

Loading(from, to) ==
    /\ pc = from /\ pc' = to /\ TakesFile
    /\ Loads(file) /\ cfg' = file
    /\ UNCHANGED reload_flag

Dying == pc # "down" /\ pc' = "down" /\ cfg' = None /\ reload_flag' = FALSE

Serving == pc = "serve" /\ pc' = "top" /\ UNCHANGED <<cfg, reload_flag>>

FlagTaken ==
    pc = "top" /\ pc' = "reload" /\ reload_flag /\ reload_flag' = FALSE /\ UNCHANGED cfg

Refused == pc = "reload" /\ pc' = "sense" /\ LeavesFile /\ UNCHANGED <<cfg, reload_flag>>

Seen ==
    \/ Unseen \/ Loading("load", "discover") \/ Loading("reload", "sense")
    \/ Dying \/ Serving \/ FlagTaken \/ Refused

LEMMA FileSteps ==
    /\ TakesFile => pc \in {"load", "reload"} /\ pc' \in {"discover", "sense"}
    /\ LeavesFile => pc = "reload" /\ pc' = "sense"
  BY DEF TakesFile, LeavesFile, Loop!LoadConfig, Loop!Reload, Loop!ReloadFails

\* A step of the loop that changes none of these and stays within startup or within the loop
LEMMA UnseenStep ==
    ASSUME UNCHANGED <<cfg, reload_flag>>,
           \/ pc \in Loop!Startup \ {"load"} /\ pc' \in Loop!Startup \ {"load"}
           \/ pc \in Loop!Looping \ {"reload"} /\ pc' \in Loop!Looping \ {"reload"}
    PROVE  Unseen
  BY FileSteps DEF Unseen, Pcs, DaemonState, Loop!Startup, Loop!Looping, Loop!Decided

LEMMA StartupSeen ==
    ASSUME Loop!StartupStep PROVE Seen /\ UNCHANGED file
  <1> USE DEF Seen, Loop!process, Loop!Startup
  <1>1. CASE Loop!LoadConfig
    BY <1>1, OneLoads DEF TakesFile, Loop!LoadConfig, Loading
  <1>2. CASE Loop!DiscoverFound \/ Loop!DiscoverRetry
    BY <1>2, UnseenStep DEF Loop!DiscoverFound, Loop!DiscoverRetry
  <1>3. ASSUME NEW ch \in Loop!Channels, Loop!EnsureManual(ch) PROVE Seen /\ UNCHANGED file
    BY <1>3, UnseenStep DEF Loop!EnsureManual, Loop!ManualPc, Loop!AfterManual, Loop!Channels
  <1>4. CASE Loop!Serve
    BY <1>4 DEF Loop!Serve, Serving
  <1>5. CASE pc # "down" /\ Loop!ProcessEnds
    BY <1>5 DEF Loop!ProcessEnds, Dying
  <1> QED
    BY <1>1, <1>2, <1>3, <1>4, <1>5 DEF Loop!StartupStep, Loop!LoadConfigFails,
       Loop!DiscoverGivesUp, Loop!EnsureManualFails, Loop!ManualPc, Loop!Channels, Loop!ServeFails

LEMMA LoopSeen ==
    ASSUME Loop!LoopStep PROVE Seen /\ UNCHANGED file
  <1> USE DEF Seen, Loop!process, Loop!Looping, Loop!Decided
  <1>1. CASE Loop!TakeReload
    BY <1>1 DEF Loop!TakeReload, FlagTaken
  <1>2. CASE Loop!NoReload \/ Loop!Sense \/ Loop!Publish \/ Loop!Show
    BY <1>2, UnseenStep DEF Loop!NoReload, Loop!Sense, Loop!Publish, Loop!Show
  <1>3. CASE Loop!Reload
    BY <1>3, OneLoads DEF TakesFile, Loop!Reload, Loading
  <1>4. CASE Loop!ReloadFails
    <2>1. CASE Loop!Reload
      BY <1>3, <2>1
    <2>2. CASE ~ Loop!Reload
      <3>1. ~ TakesFile
        BY <1>4, <2>2 DEF TakesFile, Loop!LoadConfig, Loop!ReloadFails
      <3> QED BY <1>4, <3>1 DEF LeavesFile, Loop!ReloadFails, Refused
    <2> QED BY <2>1, <2>2
  <1>5. ASSUME NEW ch \in Loop!Channels,
               Loop!WriteSkipped(ch) \/ Loop!WriteOk(ch) \/ Loop!WriteFails(ch)
        PROVE  Seen /\ UNCHANGED file
    BY <1>5, UnseenStep DEF Loop!WriteSkipped, Loop!WriteOk, Loop!WriteFails, Loop!WritePc,
       Loop!AfterWrite, Loop!Channels
  <1>6. CASE Loop!Stop
    BY <1>6 DEF Loop!Stop, Loop!ProcessEnds, Dying
  <1> QED
    BY <1>1, <1>2, <1>3, <1>4, <1>5, <1>6 DEF Loop!LoopStep

LEMMA SignalSeen ==
    ASSUME Loop!Signals PROVE Seen /\ UNCHANGED file
  <1> USE DEF Seen, Loop!process
  <1>1. CASE Loop!Start \/ Loop!Interrupt
    BY <1>1, FileSteps DEF Loop!Start, Loop!Interrupt, Unseen, Pcs, DaemonState, Loop!Startup
  <1>2. CASE Loop!Kill
    BY <1>2 DEF Loop!Kill, Loop!ProcessEnds, Dying
  <1> QED
    BY <1>1, <1>2 DEF Loop!Signals

LEMMA MainSeen == MainThread \/ Signals => Seen /\ UNCHANGED file /\ WithThreads
  BY StartupSeen, LoopSeen, SignalSeen DEF MainThread, Signals, Loop!MainThread

LEMMA MainAlive ==
    ASSUME Alive, MainThread \/ Signals PROVE Alive'
  <1>1. Seen /\ WithThreads
    BY MainSeen
  <1> USE DEF Alive, Pcs, Loop!Startup, Loop!Looping, Loop!Decided
  <1>2. pc' \in Pcs
    BY <1>1 DEF Seen, Unseen, Loading, Dying, Serving, FlagTaken, Refused
  <1>3. pc' \in {"down", "load"} => cfg' = None
    BY <1>1 DEF Seen, Unseen, Loading, Dying, Serving, FlagTaken, Refused, DaemonState
  <1>4. ~ Loop!InLoop' => thread' = AllIdle /\ write_lock' = None
    <2>1. pc' # "down" => UNCHANGED <<thread, write_lock>>
      BY <1>1 DEF WithThreads, ThreadsEnd
    <2>2. pc' = "down" => thread' = AllIdle /\ write_lock' = None
      BY <1>1 DEF WithThreads, ThreadsEnd, AllIdle
    <2>3. ~ Loop!InLoop' /\ pc' # "down" => ~ Loop!InLoop
      BY <1>1, <1>2 DEF Seen, Unseen, Loading, Dying, Serving, FlagTaken, Refused, DaemonState,
         Loop!InLoop
    <2> QED BY <2>1, <2>2, <2>3
  <1>5. ~ Loop!InLoop' => reload_flag' = FALSE
    BY <1>1, <1>2 DEF Seen, Unseen, Loading, Dying, Serving, FlagTaken, Refused, DaemonState,
       Loop!InLoop
  <1>6. unannounced' \in BOOLEAN
    BY <1>1 DEF WithThreads
  <1> QED BY <1>2, <1>3, <1>4, <1>5, <1>6

\* A thread that does something has found the socket, so the loop runs
LEMMA ThreadsInLoop ==
    ASSUME Alive, NEW c \in Clients, Store!AskSetMode(c) \/ Store!SetModeStep(c)
    PROVE  Loop!InLoop
  <1>1. ~ Loop!InLoop => DaemonState # "serving" /\ thread[c].pc = "idle"
    BY DEF Alive, Pcs, AllIdle, Store!Idle, Store!At, DaemonState, Loop!InLoop
  <1> QED
    BY <1>1 DEF Store!AskSetMode, Store!SetModeStep, Store!Lock, Store!ReadText, Store!CreateTmp,
       Store!FillTmp, Store!SyncTmp, Store!Rename, Store!StepFails, Store!RaiseFlag, Store!Unlock,
       Store!Goto

LEMMA OthersAlive ==
    ASSUME Alive,
           \/ Device \/ OtherPrograms \/ UNCHANGED vars
           \/ \E c \in Clients : Asks(c) \/ IsServed(c)
    PROVE  Alive'
  <1>1. CASE Device \/ UNCHANGED vars
    BY <1>1 DEF Device, vars, loopOnly, storeOnly, Loop!DeviceStep, Loop!Unplug, Loop!Enumerate,
       Loop!process, Alive, Loop!InLoop
  <1>2. ASSUME NEW c \in Clients, Asks(c) \/ IsServed(c) PROVE Alive'
    <2>1. Loop!InLoop /\ UNCHANGED <<pc, cfg>>
      BY <1>2, ThreadsInLoop DEF Asks, IsServed, loopOnly
    <2>2. unannounced' \in BOOLEAN
      BY <1>2 DEF Alive, Asks, IsServed, Store!AskSetMode, Store!SetModeStep, Store!Lock,
         Store!ReadText, Store!CreateTmp, Store!FillTmp, Store!SyncTmp, Store!Rename,
         Store!StepFails, Store!RaiseFlag, Store!Unlock
    <2> QED BY <2>1, <2>2 DEF Alive, Loop!InLoop
  <1>3. CASE OtherPrograms
    <2>1. UNCHANGED <<pc, cfg, thread, write_lock>>
      BY <1>3 DEF OtherPrograms, loopOnly, Store!GuiStep, Store!GuiSave, Store!GuiWrite,
         Store!GuiRename, Store!GuiAnnounce, Store!GuiGivesUp, Store!HandEdit, Store!AskReload,
         Store!ipc
    <2>2. reload_flag' = reload_flag \/ DaemonState = "serving"
      BY <1>3 DEF OtherPrograms, Store!GuiStep, Store!GuiSave, Store!GuiWrite, Store!GuiRename,
         Store!GuiAnnounce, Store!GuiGivesUp, Store!HandEdit, Store!AskReload, Store!main
    <2>3. unannounced' \in BOOLEAN
      BY <1>3 DEF Alive, OtherPrograms, Store!GuiStep, Store!GuiSave, Store!GuiWrite,
         Store!GuiRename, Store!GuiAnnounce, Store!GuiGivesUp, Store!HandEdit, Store!AskReload
    <2> QED BY <2>1, <2>2, <2>3 DEF Alive, Pcs, Loop!InLoop, DaemonState
  <1> QED BY <1>1, <1>2, <1>3

LEMMA InitAlive == Init => Alive
  BY DEF Init, Loop!Init, Store!Init, Alive, AllIdle, Pcs, Loop!InLoop, Loop!Looping, Loop!Decided

LEMMA NextAlive == Alive /\ [Next]_vars => Alive'
  BY MainAlive, OthersAlive DEF Next

LEMMA AlwaysAlive == Spec => []Alive
  BY InitAlive, NextAlive, PTL DEF Spec

-----------------------------------------------------------------------------
(* The daemon implements ConfigStore.                                       *)

LEMMA MainIsStoreStep ==
    ASSUME Alive, MainThread \/ Signals
    PROVE  [Store!Next]_(Store!vars)
  <1>1. Seen /\ UNCHANGED file /\ WithThreads
    BY MainSeen
  <1> USE DEF Store!vars, Store!store, Store!ipc, Store!main
  <1>2. UNCHANGED <<file, disk, tmp, asked, gui>>
    BY <1>1 DEF WithThreads
  <1>3. pc' # "down" => UNCHANGED <<thread, write_lock>>
    BY <1>1 DEF WithThreads, ThreadsEnd
  <1>4. unannounced' = (~ TakesFile /\ (unannounced \/ LeavesFile))
    BY <1>1 DEF WithThreads
  <1>5. CASE Unseen
    <2>1. pc' = "down" => pc \in {"down", "load"} /\ UNCHANGED <<thread, write_lock>>
      <3>1. pc' = "down" => pc \in {"down", "load"}
        BY <1>5 DEF Unseen, DaemonState
      <3>2. pc \in {"down", "load"} => thread = AllIdle /\ write_lock = None
        BY DEF Alive, Loop!InLoop, Loop!Looping, Loop!Decided
      <3> QED BY <1>1, <3>1, <3>2 DEF WithThreads, ThreadsEnd, AllIdle
    <2>2. unannounced' = unannounced
      BY <1>4, <1>5 DEF Unseen, Alive
    <2>3. UNCHANGED <<DaemonState, cfg, reload_flag, (IF pc = "reload" THEN "reload" ELSE "top")>>
      BY <1>5 DEF Unseen
    <2> QED BY <1>2, <1>3, <2>1, <2>2, <2>3
  <1>6. CASE Loading("load", "discover")
    <2>1. Store!StartDaemon
      BY <1>2, <1>3, <1>4, <1>6, OneLoads DEF Loading, DaemonState, Loop!Startup,
         Store!StartDaemon
    <2> QED BY <2>1 DEF Store!Next
  <1>7. CASE Loading("reload", "sense")
    <2>1. Store!LoadFile
      BY <1>2, <1>3, <1>4, <1>7, OneLoads DEF Loading, DaemonState, Loop!Startup,
         Store!LoadFile
    <2> QED BY <2>1 DEF Store!Next, Store!ReaderStep
  <1>8. CASE Dying
    <2>1. unannounced' = unannounced
      BY <1>4, <1>8, FileSteps DEF Dying, Alive
    <2>2. thread' = AllIdle /\ write_lock' = None
      BY <1>1, <1>8 DEF WithThreads, ThreadsEnd, Dying, AllIdle
    <2>3. CASE pc = "load"
      <3>1. thread = AllIdle /\ write_lock = None /\ cfg = None /\ reload_flag = FALSE
        BY <2>3 DEF Alive, Loop!InLoop, Loop!Looping, Loop!Decided
      <3> QED BY <1>2, <1>8, <2>1, <2>2, <2>3, <3>1 DEF Dying, DaemonState
    <2>4. CASE pc # "load"
      <3>1. Store!DaemonDies
        BY <1>2, <1>8, <2>1, <2>2, <2>4 DEF Dying, DaemonState, AllIdle, Loop!Startup,
           Store!DaemonDies, Store!DaemonEnds
      <3> QED BY <3>1 DEF Store!Next
    <2> QED BY <2>3, <2>4
  <1>9. CASE Serving
    <2>1. Store!StartServer
      BY <1>2, <1>3, <1>4, <1>9, FileSteps DEF Serving, Alive, DaemonState, Loop!Startup,
         Store!StartServer
    <2> QED BY <2>1 DEF Store!Next
  <1>10. CASE FlagTaken
    <2>1. Store!TakeFlag
      BY <1>2, <1>3, <1>4, <1>10, FileSteps DEF FlagTaken, Alive, DaemonState, Loop!Startup,
         Store!TakeFlag
    <2> QED BY <2>1 DEF Store!Next, Store!ReaderStep
  <1>11. CASE Refused
    <2>1. Store!LoadFails
      BY <1>2, <1>3, <1>4, <1>11 DEF Refused, LeavesFile, DaemonState, Loop!Startup,
         Store!LoadFails
    <2> QED BY <2>1 DEF Store!Next, Store!ReaderStep
  <1> QED
    BY <1>1, <1>5, <1>6, <1>7, <1>8, <1>9, <1>10, <1>11 DEF Seen

LEMMA NextIsStoreStep == Alive /\ [Next]_vars => [Store!Next]_(Store!vars)
  <1>1. ASSUME NEW c \in Clients, Asks(c) \/ IsServed(c) PROVE Store!Next
    BY <1>1 DEF Asks, IsServed, Store!Next
  <1>2. OtherPrograms => Store!Next
    BY DEF OtherPrograms, Store!Next
  <1>3. Device \/ UNCHANGED vars => UNCHANGED Store!vars
    BY DEF Device, vars, loopOnly, storeOnly, Store!vars, Store!store, Store!ipc, Store!main,
       Loop!DeviceStep, Loop!Unplug, Loop!Enumerate, Loop!process, DaemonState
  <1> QED BY <1>1, <1>2, <1>3, MainIsStoreStep DEF Next

(* The daemon implements its store: the loop's startup, its steps at "top"  *)
(* and "reload" (daemon/src/main.rs:26, 91-111) and its ends are the reader *)
(* and the daemon of ConfigStore, and nothing else that the main thread     *)
(* does touches what the store keeps.                                       *)
THEOREM DaemonImplementsStore == Spec => ImplementsStore
  <1>1. Init => Store!Init
    BY DEF Init, Loop!Init, Store!Init, DaemonState
  <1> QED
    BY <1>1, AlwaysAlive, NextIsStoreStep, PTL DEF Spec, ImplementsStore, Store!Spec

-----------------------------------------------------------------------------
(* What ConfigStoreProofs proves of the store holds here.  SP is the store  *)
(* with its proofs, instantiated as Store is.                               *)

SP ==
    INSTANCE ConfigStoreProofs WITH
        daemon <- DaemonState, loaded <- cfg,
        reader <- IF pc = "reload" THEN "reload" ELSE "top"

LEMMA StoreIsSP ==
    /\ Store!Init <=> SP!Init
    /\ [Store!Next]_(Store!vars) <=> [SP!Next]_(SP!vars)
  BY DEF
    SP!Init, SP!Next, SP!vars, SP!Idle, SP!GuiIdle, SP!AskSetMode, SP!SetModeStep,
    SP!GuiStep, SP!AskReload, SP!HandEdit, SP!StartDaemon, SP!StartServer, SP!ReaderStep,
    SP!DaemonDies, SP!Flush, SP!PowerFailure, SP!store, SP!ipc, SP!main, SP!At, SP!Lock,
    SP!ReadText, SP!CreateTmp, SP!FillTmp, SP!SyncTmp, SP!Rename, SP!StepFails,
    SP!RaiseFlag, SP!Unlock, SP!GuiSave, SP!GuiWrite, SP!GuiRename, SP!GuiAnnounce,
    SP!GuiGivesUp, SP!Replace, SP!Loads, SP!TakeFlag, SP!LoadFile, SP!LoadFails, SP!DaemonEnds,
    SP!Goto, SP!SetActiveMode, SP!Finish, SP!ValidConfig, SP!Channels, SP!ValidCurve, SP!F32Lt,
    SP!MinFailsafe, Store!Init, Store!Next, Store!vars, Store!Idle, Store!GuiIdle,
    Store!AskSetMode, Store!SetModeStep, Store!GuiStep, Store!AskReload, Store!HandEdit,
    Store!StartDaemon, Store!StartServer, Store!ReaderStep, Store!DaemonDies, Store!Flush,
    Store!PowerFailure, Store!store, Store!ipc, Store!main, Store!At, Store!Lock,
    Store!ReadText, Store!CreateTmp, Store!FillTmp, Store!SyncTmp, Store!Rename,
    Store!StepFails, Store!RaiseFlag, Store!Unlock, Store!GuiSave, Store!GuiWrite,
    Store!GuiRename, Store!GuiAnnounce, Store!GuiGivesUp, Store!Replace, Store!Loads,
    Store!TakeFlag, Store!LoadFile, Store!LoadFails, Store!DaemonEnds, Store!Goto,
    Store!SetActiveMode, Store!Finish, Store!ValidConfig, Store!Channels, Store!ValidCurve, Store!F32Lt,
    Store!MinFailsafe

LEMMA StorePropertiesAreSP ==
    /\ Store!TypeOK <=> SP!TypeOK
    /\ Store!ReloadNeverLost <=> SP!ReloadNeverLost
    /\ Store!TmpOwned <=> SP!TmpOwned
  BY DEF
    SP!TypeOK, SP!ReloadNeverLost, SP!TmpOwned, SP!Texts, SP!SetModePcs, SP!Modes,
    SP!ConfigType, SP!ValidConfig, SP!Loads, SP!Channels, SP!Sources, SP!CurvePoints,
    SP!ValidCurve, SP!F32Lt, SP!MinFailsafe, SP!CurvePoint, Store!TypeOK,
    Store!ReloadNeverLost, Store!TmpOwned, Store!Texts, Store!SetModePcs, Store!Modes,
    Store!ConfigType, Store!ValidConfig, Store!Loads, Store!Channels, Store!Sources,
    Store!CurvePoints, Store!ValidCurve, Store!F32Lt, Store!MinFailsafe, Store!CurvePoint

LEMMA SPAssumptions ==
    SP!StoreAssumption /\ SP!DegreeAssumption /\ SP!NaNAssumption /\ SP!UnparsableAssumption
  BY ZenonT(60), DaemonAssumption, DegreeAssumption, NaNAssumption, UnparsableAssumption, OneLoads
     DEF SP!StoreAssumption, SP!DegreeAssumption, SP!NaNAssumption, SP!UnparsableAssumption,
         SP!ConfigType, SP!Modes, SP!Sources, SP!Channels, SP!CurvePoints, SP!CurvePoint, SP!Loads,
         SP!ValidConfig, SP!ValidCurve, SP!F32Lt, SP!MinFailsafe,
         Store!StoreAssumption, Store!ConfigType, Store!Modes, Store!Sources, Store!Channels,
         Store!CurvePoints, Store!CurvePoint, Store!Loads,
         Store!ValidConfig, Store!ValidCurve, Store!F32Lt, Store!MinFailsafe,
         ConfigType, Modes, Sources, Channels, CurvePoints, CurvePoint

LEMMA StoreHolds == Spec => [](SP!StoreInv /\ SP!TypeOK /\ SP!ReloadNeverLost /\ SP!TmpOwned)
  <1>1. SP!StoreAssumption /\ SP!DegreeAssumption /\ SP!NaNAssumption /\ SP!UnparsableAssumption
    BY SPAssumptions
  <1>2. Spec => SP!Spec
    <2>1. Store!Init => SP!Init
      BY StoreIsSP
    <2>2. [Store!Next]_(Store!vars) => [SP!Next]_(SP!vars)
      BY StoreIsSP
    <2> QED BY <2>1, <2>2, DaemonImplementsStore, PTL DEF ImplementsStore, Store!Spec, SP!Spec
  <1> QED
    BY <1>1, <1>2, SP!StoreInvariant, SP!StoreTypeCorrect, SP!ReloadRequestsSurvive,
       SP!RenamesOwnText, PTL

-----------------------------------------------------------------------------
(* Every text on its way to config.toml is one of Files: a GUI saves one of *)
(* SavedTexts, and a SetMode renames what it read, edited to a mode that    *)
(* was asked for, which is in config.toml.tmp because the lock is held.     *)

OnItsWay == {"create", "fill", "sync", "rename"}

ClientTexts(c) ==
    /\ thread[c].pc \in OnItsWay \cup {"lock", "read"} => thread[c].mode \in AskedModes
    /\ thread[c].pc \in OnItsWay => thread[c].text \in Files

GuiTexts(g) == gui[g].pc \in {"write", "rename"} => gui[g].text \in SavedTexts

TextsInv ==
    /\ file \in Files
    /\ \A c \in Clients : ClientTexts(c)
    /\ \A g \in Guis : GuiTexts(g)

LEMMA IdleTexts ==
    ASSUME thread' = AllIdle PROVE \A c \in Clients : ClientTexts(c)'
  BY DEF AllIdle, Store!Idle, Store!At, ClientTexts, OnItsWay

LEMMA SetModeTexts ==
    ASSUME SP!StoreInv, TextsInv, NEW c \in Clients, Store!AskSetMode(c) \/ Store!SetModeStep(c)
    PROVE  /\ file' \in Files
           /\ ClientTexts(c)'
           /\ \A d \in Clients \ {c} : thread'[d] = thread[d]
           /\ UNCHANGED gui
  <1> USE DEF Store!Goto, Store!Finish, Store!store, OnItsWay, ClientTexts
  <1>0. DOMAIN thread = Clients /\ ClientTexts(c) /\ file \in Files
        /\ DOMAIN thread[c] = {"pc", "mode", "text", "reply"}
    BY DEF SP!StoreInv, SP!ThreadsOK, SP!ThreadType, TextsInv
  <1>1. CASE Store!AskSetMode(c)
    BY <1>0, <1>1 DEF Store!AskSetMode, Store!At
  <1>2. CASE Store!ReadText(c)
    <2>1. Store!SetActiveMode(file, thread[c].mode) \in Files
      BY <1>0, <1>2, DaemonAssumption, OneSetActiveMode DEF Store!ReadText
    <2> QED BY <1>0, <1>2, <2>1 DEF Store!ReadText, Store!At
  <1>3. CASE Store!Rename(c)
    <2>1. thread[c].text \in Files /\ tmp.text = thread[c].text
      BY <1>0, <1>3 DEF Store!Rename, SP!StoreInv, SP!LockInv, SP!TmpIsMine
    <2> QED BY <1>0, <1>3, <2>1 DEF Store!Rename, Store!Replace
  <1>4. CASE \/ Store!Lock(c) \/ Store!CreateTmp(c) \/ Store!FillTmp(c) \/ Store!SyncTmp(c)
            \/ Store!Unlock(c)
    BY <1>0, <1>4 DEF Store!Lock, Store!CreateTmp, Store!FillTmp, Store!SyncTmp, Store!Unlock
  <1>5. CASE Store!StepFails(c) \/ Store!RaiseFlag(c)
    BY <1>0, <1>5 DEF Store!StepFails, Store!RaiseFlag, Store!At
  <1> QED BY <1>1, <1>2, <1>3, <1>4, <1>5 DEF Store!SetModeStep

LEMMA OthersTexts ==
    ASSUME SP!StoreInv, TextsInv, OtherPrograms
    PROVE  TextsInv'
  <1> USE DEF Store!store, Store!ipc, ClientTexts, TextsInv
  <1>1. ASSUME NEW g \in Guis, Store!GuiStep(g)
        PROVE  file' \in Files /\ (\A h \in Guis : GuiTexts(h)') /\ UNCHANGED thread
    <2> USE DEF GuiTexts, Store!GuiIdle
    <2>0. DOMAIN gui = Guis /\ DOMAIN gui[g] = {"pc", "text"}
      BY DEF SP!StoreInv, SP!ThreadsOK, SP!GuiType
    <2>1. CASE Store!GuiRename(g)
      <3>1. gui[g].text \in Files
        BY <2>1, DaemonAssumption DEF Store!GuiRename
      <3> QED BY <2>0, <2>1, <3>1 DEF Store!GuiRename, Store!Replace
    <2>2. CASE Store!GuiSave(g)
      BY <2>0, <2>2 DEF Store!GuiSave
    <2>3. CASE Store!GuiWrite(g) \/ Store!GuiAnnounce(g) \/ Store!GuiGivesUp(g)
      BY <2>0, <2>3 DEF Store!GuiWrite, Store!GuiAnnounce, Store!GuiGivesUp
    <2> QED BY <1>1, <2>1, <2>2, <2>3 DEF Store!GuiStep
  <1>2. CASE Store!HandEdit
    BY <1>2, DaemonAssumption DEF Store!HandEdit, Store!Replace, GuiTexts
  <1>3. CASE Store!AskReload
    BY <1>3 DEF Store!AskReload, GuiTexts
  <1> QED BY <1>1, <1>2, <1>3 DEF OtherPrograms

LEMMA NextTexts == SP!StoreInv /\ TextsInv /\ [Next]_vars => TextsInv'
  <1> SUFFICES ASSUME SP!StoreInv, TextsInv, [Next]_vars PROVE TextsInv'
    OBVIOUS
  <1>1. CASE MainThread \/ Signals
    <2>1. UNCHANGED <<file, gui>> /\ (thread' = thread \/ thread' = AllIdle)
      BY <1>1, MainSeen DEF WithThreads, ThreadsEnd, AllIdle
    <2>2. \A c \in Clients : ClientTexts(c)'
      BY <2>1, IdleTexts DEF TextsInv, ClientTexts
    <2> QED BY <2>1, <2>2 DEF TextsInv, GuiTexts
  <1>2. ASSUME NEW c \in Clients, Asks(c) \/ IsServed(c) PROVE TextsInv'
    <2>1. Store!AskSetMode(c) \/ Store!SetModeStep(c)
      BY <1>2 DEF Asks, IsServed
    <2> QED BY <2>1, SetModeTexts DEF TextsInv, ClientTexts, GuiTexts
  <1>3. CASE Device \/ UNCHANGED vars
    BY <1>3 DEF Device, vars, storeOnly, Loop!DeviceStep, Loop!Unplug, Loop!Enumerate, TextsInv,
       ClientTexts, GuiTexts
  <1> QED BY <1>1, <1>2, <1>3, OthersTexts DEF Next

LEMMA AlwaysInFiles == Spec => []TextsInv
  <1>1. Init => TextsInv
    BY DaemonAssumption DEF Init, Loop!Init, Store!Init, TextsInv, ClientTexts, GuiTexts,
       Store!Idle, Store!At, Store!GuiIdle, OnItsWay
  <1> QED BY <1>1, NextTexts, StoreHolds, PTL DEF Spec

-----------------------------------------------------------------------------
(* The daemon implements ControlLoop.                                       *)

\* What the loop can see of a step of another thread or program
LEMMA FileOrFlag ==
    ASSUME \/ \E c \in Clients : Asks(c) \/ IsServed(c)
           \/ OtherPrograms
    PROVE  /\ UNCHANGED loopOnly
           /\ UNCHANGED reload_flag \/ (reload_flag' = TRUE /\ UNCHANGED file)
  <1> USE DEF Store!store, Store!main
  <1>1. ASSUME NEW c \in Clients, Asks(c) \/ IsServed(c)
        PROVE  UNCHANGED reload_flag \/ (reload_flag' = TRUE /\ UNCHANGED file)
    BY <1>1 DEF Asks, IsServed, Store!AskSetMode, Store!SetModeStep, Store!Lock, Store!ReadText,
       Store!CreateTmp, Store!FillTmp, Store!SyncTmp, Store!Rename, Store!StepFails,
       Store!RaiseFlag, Store!Unlock
  <1>2. CASE OtherPrograms
    BY <1>2 DEF OtherPrograms, Store!GuiStep, Store!GuiSave, Store!GuiWrite, Store!GuiRename,
       Store!GuiAnnounce, Store!GuiGivesUp, Store!HandEdit, Store!AskReload
  <1> QED BY <1>1, <1>2 DEF Asks, IsServed, OtherPrograms

LEMMA FlagInLoop ==
    ASSUME Alive,
           \/ \E c \in Clients : Asks(c) \/ IsServed(c)
           \/ OtherPrograms
    PROVE  Loop!InLoop \/ UNCHANGED reload_flag
  <1>1. CASE \E c \in Clients : Asks(c) \/ IsServed(c)
    BY <1>1, ThreadsInLoop DEF Asks, IsServed
  <1>2. CASE OtherPrograms
    <2>1. reload_flag' = reload_flag \/ DaemonState = "serving"
      BY <1>2 DEF OtherPrograms, Store!GuiStep, Store!GuiSave, Store!GuiWrite, Store!GuiRename,
         Store!GuiAnnounce, Store!GuiGivesUp, Store!HandEdit, Store!AskReload, Store!main
    <2> QED BY <2>1 DEF Alive, Pcs, Loop!InLoop, DaemonState
  <1> QED BY <1>1, <1>2

LEMMA NextIsLoopStep == Alive /\ TextsInv' /\ [Next]_vars => [Loop!Next]_(Loop!vars)
  <1> SUFFICES ASSUME Alive, TextsInv', [Next]_vars PROVE [Loop!Next]_(Loop!vars)
    OBVIOUS
  <1>1. CASE MainThread \/ Signals \/ Device
    BY <1>1 DEF MainThread, Signals, Device, Loop!Next
  <1>2. CASE UNCHANGED vars
    BY <1>2 DEF vars, loopOnly, Loop!vars, Loop!cycle, Loop!process
  <1>3. CASE (\E c \in Clients : Asks(c) \/ IsServed(c)) \/ OtherPrograms
    <2>1. UNCHANGED <<pc, dev, Loop!cycle, running, cfg, base, attempt, last_duty, live,
                      lcd_enabled>>
      BY <1>3, FileOrFlag DEF loopOnly, Loop!cycle
    <2>2. CASE UNCHANGED reload_flag
      <3>1. Loop!EditFile
        BY <2>1, <2>2 DEF Loop!EditFile, Loop!process, TextsInv
      <3> QED BY <3>1 DEF Loop!Next
    <2>3. CASE reload_flag' = TRUE /\ UNCHANGED file /\ Loop!InLoop
      <3>1. Loop!RequestReload
        BY <2>1, <2>3 DEF Loop!RequestReload
      <3> QED BY <3>1 DEF Loop!Next
    <2> QED BY <1>3, <2>2, <2>3, FileOrFlag, FlagInLoop
  <1> QED BY <1>1, <1>2, <1>3 DEF Next

(* The daemon implements its loop: whoever else runs in the process or      *)
(* edits config.toml, the main thread (daemon/src/main.rs:18-222) meets     *)
(* only a file that changes and a flag that goes up while it serves.        *)
THEOREM DaemonImplementsLoop == Spec => ImplementsLoop
  <1>1. Init => Loop!Init
    BY DEF Init
  <1> QED
    BY <1>1, AlwaysAlive, AlwaysInFiles, NextIsLoopStep, PTL DEF Spec, ImplementsLoop, Loop!Spec

-----------------------------------------------------------------------------
(* What ControlLoopProofs proves of the loop holds here.  LP is the loop    *)
(* with its proofs, instantiated as Loop is.                                *)

LP == INSTANCE ControlLoopProofs

LEMMA LoopIsLP ==
    /\ Loop!Init <=> LP!Init
    /\ [Loop!Next]_(Loop!vars) <=> [LP!Next]_(LP!vars)
  BY SMTT(30) DEF
    LP!Init, LP!Next, LP!vars, LP!Channels, LP!NoDuty, LP!NoTemps, LP!NoState,
    LP!MainThread, LP!Signals, LP!DeviceStep, LP!RequestReload, LP!EditFile, LP!cycle,
    LP!process, LP!Sources, LP!StartupStep, LP!LoopStep, LP!Start, LP!Interrupt, LP!Kill,
    LP!Unplug, LP!Enumerate, LP!InLoop, LP!LoadConfig, LP!LoadConfigFails, LP!DiscoverFound,
    LP!DiscoverRetry, LP!DiscoverGivesUp, LP!EnsureManual, LP!EnsureManualFails, LP!Serve,
    LP!ServeFails, LP!Stop, LP!TakeReload, LP!NoReload, LP!Reload, LP!ReloadFails, LP!Sense,
    LP!WriteSkipped, LP!WriteOk, LP!WriteFails, LP!Publish, LP!Show, LP!Startup, LP!Looping,
    LP!ProcessEnds, LP!Loads, LP!ManualPc, LP!Attached, LP!AfterManual, LP!Sensed,
    LP!FailsafeTriggered, LP!DecideDuty, LP!WritePc, LP!AfterWrite, LP!Written, LP!RawDuty,
    LP!EndCycle, LP!Decided, LP!ValidConfig, LP!F32Ge, LP!DutyForTemp, LP!ValidCurve,
    LP!F32Lt, LP!MinFailsafe, LP!Windows, LP!InWindow, LP!Min, LP!Interpolate, LP!Clamp,
    LP!RoundDiv, Loop!Init, Loop!Next, Loop!vars, Loop!Channels, Loop!NoDuty, Loop!NoTemps,
    Loop!NoState, Loop!MainThread, Loop!Signals, Loop!DeviceStep, Loop!RequestReload,
    Loop!EditFile, Loop!cycle, Loop!process, Loop!Sources, Loop!StartupStep, Loop!LoopStep,
    Loop!Start, Loop!Interrupt, Loop!Kill, Loop!Unplug, Loop!Enumerate, Loop!InLoop,
    Loop!LoadConfig, Loop!LoadConfigFails, Loop!DiscoverFound, Loop!DiscoverRetry,
    Loop!DiscoverGivesUp, Loop!EnsureManual, Loop!EnsureManualFails, Loop!Serve,
    Loop!ServeFails, Loop!Stop, Loop!TakeReload, Loop!NoReload, Loop!Reload,
    Loop!ReloadFails, Loop!Sense, Loop!WriteSkipped, Loop!WriteOk, Loop!WriteFails,
    Loop!Publish, Loop!Show, Loop!Startup, Loop!Looping, Loop!ProcessEnds, Loop!Loads,
    Loop!ManualPc, Loop!Attached, Loop!AfterManual, Loop!Sensed, Loop!FailsafeTriggered,
    Loop!DecideDuty, Loop!WritePc, Loop!AfterWrite, Loop!Written, Loop!RawDuty,
    Loop!EndCycle, Loop!Decided, Loop!ValidConfig, Loop!F32Ge, Loop!DutyForTemp,
    Loop!ValidCurve, Loop!F32Lt, Loop!MinFailsafe, Loop!Windows, Loop!InWindow, Loop!Min,
    Loop!Interpolate, Loop!Clamp, Loop!RoundDiv

LEMMA LoopPropertiesAreLP ==
    /\ Loop!TypeOK <=> LP!TypeOK
    /\ Loop!ConfigInForce <=> LP!ConfigInForce
    /\ Loop!WritesTakeEffect <=> LP!WritesTakeEffect
    /\ Loop!CacheCoherent <=> LP!CacheCoherent
    /\ Loop!FailsafeForcesFull <=> LP!FailsafeForcesFull
    /\ Loop!LiveReportsDevice <=> LP!LiveReportsDevice
  BY DEF
    LP!TypeOK, LP!ConfigInForce, LP!WritesTakeEffect, LP!CacheCoherent,
    LP!FailsafeForcesFull, LP!LiveReportsDevice, LP!Startup, LP!Looping, LP!ConfigType,
    LP!TempsType, LP!DutyType, LP!Channels, LP!LiveState, LP!DeviceType, LP!InLoop,
    LP!ValidConfig, LP!Attached, LP!RawDuty, LP!Hot, LP!Decided, LP!Modes, LP!Sources,
    LP!CurvePoints, LP!Percentage, LP!ValidCurve, LP!F32Lt, LP!MinFailsafe,
    LP!FailsafeTriggered, LP!CurvePoint, LP!F32Ge, Loop!TypeOK, Loop!ConfigInForce,
    Loop!WritesTakeEffect, Loop!CacheCoherent, Loop!FailsafeForcesFull,
    Loop!LiveReportsDevice, Loop!Startup, Loop!Looping, Loop!ConfigType, Loop!TempsType,
    Loop!DutyType, Loop!Channels, Loop!LiveState, Loop!DeviceType, Loop!InLoop,
    Loop!ValidConfig, Loop!Attached, Loop!RawDuty, Loop!Hot, Loop!Decided, Loop!Modes,
    Loop!Sources, Loop!CurvePoints, Loop!Percentage, Loop!ValidCurve, Loop!F32Lt,
    Loop!MinFailsafe, Loop!FailsafeTriggered, Loop!CurvePoint, Loop!F32Ge

LEMMA LPAssumptions ==
    LP!LoopAssumption /\ LP!DegreeAssumption /\ LP!NaNAssumption /\ LP!UnparsableAssumption
  BY DaemonAssumption, DegreeAssumption, NaNAssumption, UnparsableAssumption
     DEF LP!LoopAssumption, LP!DegreeAssumption, LP!NaNAssumption, LP!UnparsableAssumption,
         LP!ConfigType, LP!Modes, LP!Sources, LP!Channels, LP!CurvePoints, LP!CurvePoint,
         Loop!LoopAssumption, Loop!ConfigType, Loop!Modes, Loop!Sources, Loop!Channels,
         Loop!CurvePoints, Loop!CurvePoint,
         ConfigType, Modes, Sources, Channels, CurvePoints, CurvePoint

LEMMA RunsLP == Spec => LP!Spec
  <1>1. Loop!Init => LP!Init
    BY LoopIsLP
  <1>2. [Loop!Next]_(Loop!vars) => [LP!Next]_(LP!vars)
    BY LoopIsLP
  <1> QED BY <1>1, <1>2, DaemonImplementsLoop, PTL DEF ImplementsLoop, Loop!Spec, LP!Spec

(* What is proved of the loop alone is true of it in the whole program: its *)
(* types, and that it only runs a config that validates and that the LCD    *)
(* thread was told of (daemon/src/main.rs:83, 93-101).                      *)
THEOREM LoopHolds == Spec => [](Loop!TypeOK /\ Loop!ConfigInForce)
  <1>1. LP!LoopAssumption /\ LP!DegreeAssumption /\ LP!NaNAssumption /\ LP!UnparsableAssumption
    BY LPAssumptions
  <1>2. LP!TypeOK /\ LP!ConfigInForce => Loop!TypeOK /\ Loop!ConfigInForce
    BY LoopPropertiesAreLP
  <1> QED
    BY <1>1, <1>2, RunsLP, LP!TypeCorrect, LP!ConfigAlwaysInForce, PTL

LEMMA WritesObeyed ==
    ASSUME ~ ReuseNode
    PROVE  Spec => []Loop!WritesTakeEffect
  <1>1. LP!LoopAssumption /\ LP!DegreeAssumption /\ LP!NaNAssumption /\ LP!UnparsableAssumption
    BY LPAssumptions
  <1>2. LP!Spec => []LP!WritesTakeEffect
    BY <1>1, LP!WritesAlwaysTakeEffect
  <1>3. LP!WritesTakeEffect => Loop!WritesTakeEffect
    BY LoopPropertiesAreLP
  <1> QED BY <1>2, <1>3, RunsLP, PTL

(* So are its promises about the device, when a device that comes back gets *)
(* a new number and a write that returns an error did nothing: writes are   *)
(* obeyed, the cache and GetState say what the device does, and the         *)
(* failsafe forces full speed whatever modes the clients set meanwhile.     *)
THEOREM DeviceObeysDaemon ==
    ASSUME ~ ReuseNode, ~ AmbiguousErrors
    PROVE  Spec => [](/\ Loop!WritesTakeEffect /\ Loop!CacheCoherent
                      /\ Loop!FailsafeForcesFull /\ Loop!LiveReportsDevice)
  <1>1. LP!LoopAssumption /\ LP!DegreeAssumption /\ LP!NaNAssumption /\ LP!UnparsableAssumption
    BY LPAssumptions
  <1>2. /\ LP!Spec => []LP!CacheCoherent
        /\ LP!Spec => []LP!FailsafeForcesFull
        /\ LP!Spec => []LP!LiveReportsDevice
    BY <1>1, LP!CacheAlwaysCoherent, LP!FailsafeAlwaysForcesFull, LP!LiveAlwaysReportsDevice
  <1>3. LP!CacheCoherent /\ LP!FailsafeForcesFull /\ LP!LiveReportsDevice
        => Loop!CacheCoherent /\ Loop!FailsafeForcesFull /\ Loop!LiveReportsDevice
    BY LoopPropertiesAreLP
  <1> QED BY <1>2, <1>3, WritesObeyed, RunsLP, PTL

(* And what is proved of the store: its types, that no reload request is    *)
(* lost, and that a thread renames what it wrote itself.                    *)
THEOREM StoreObeysLock == Spec => [](Store!TypeOK /\ Store!ReloadNeverLost /\ Store!TmpOwned)
  <1>1. SP!TypeOK /\ SP!ReloadNeverLost /\ SP!TmpOwned
        => Store!TypeOK /\ Store!ReloadNeverLost /\ Store!TmpOwned
    BY StorePropertiesAreSP
  <1> QED BY <1>1, StoreHolds, PTL

-----------------------------------------------------------------------------
(* The promise of SetMode.  While it is owed, the file says what was asked  *)
(* and the flag is up until a cycle begins.  From then on the config in     *)
(* force says it, and in Performance mode no channel is cached at anything  *)
(* but full speed: the reload forgot the duties of the mode before.         *)

\* Where the loop is once it has dealt with the channel
Past == [pump |-> {"write_fan", "publish", "show"}, fan |-> {"publish", "show"}]

FullSpeed ==
    /\ pc \in Loop!Decided => \A ch \in Loop!Channels : want[ch] = 100
    /\ Loop!Attached =>
          \A ch \in Loop!Channels :
              last_duty[ch] # None => last_duty[ch] = 100 /\ dev.pwm[ch] = 255
    /\ \A ch \in Loop!Channels :
          pc \in Past[ch] /\ ch \notin failed => last_duty[ch] = 100

Promised ==
    owed.mode # None =>
        /\ Loads(file) /\ file.mode = owed.mode /\ Loop!InLoop
        /\ owed.begun \/ reload_flag

Begun ==
    owed.begun /\ ~ owed.unread /\ pc # "reload" =>
        /\ cfg.mode = owed.mode
        /\ pc = "show" => live.active_mode = owed.mode
        /\ owed.mode = "Performance" => FullSpeed

OwedType ==
    /\ owed = [mode |-> owed.mode, begun |-> owed.begun, unread |-> owed.unread]
    /\ owed.begun \in BOOLEAN /\ owed.unread \in BOOLEAN
    /\ owed.begun => owed.mode # None

OwedInv == OwedType /\ Promised /\ Begun

LEMMA NothingIsOwed == owed' = NothingOwed => OwedInv'
  BY DEF NothingOwed, OwedInv, OwedType, Promised, Begun

\* The flag is up when the answer is given
LEMMA FlagBeforeAnswer ==
    ASSUME NEW c \in Clients, Promises(c), Asks(c) \/ IsServed(c)
    PROVE  reload_flag' = TRUE /\ UNCHANGED file
  BY DEF Promises, Asks, IsServed, Store!AskSetMode, Store!SetModeStep, Store!Lock, Store!ReadText,
     Store!CreateTmp, Store!FillTmp, Store!SyncTmp, Store!Rename, Store!StepFails,
     Store!RaiseFlag, Store!Unlock, Store!Goto, Store!store

LEMMA ThreadsKeepPromise ==
    ASSUME Alive, OwedInv,
           \/ \E c \in Clients : Asks(c) \/ IsServed(c)
           \/ OtherPrograms
    PROVE  OwedInv'
  <1>1. /\ UNCHANGED loopOnly
        /\ UNCHANGED reload_flag \/ (reload_flag' = TRUE /\ UNCHANGED file)
    BY FileOrFlag
  <1>2. CASE UNCHANGED <<owed, file>>
    BY <1>1, <1>2 DEF OwedInv, OwedType, Promised, Begun, FullSpeed, loopOnly, Loop!InLoop,
       Loop!Attached
  <1>3. ASSUME NEW c \in Clients, Promises(c), Asks(c) \/ IsServed(c) PROVE OwedInv'
    <2>1. owed' = [mode |-> thread[c].mode, begun |-> FALSE, unread |-> FALSE]
      BY <1>3 DEF Asks, IsServed, WithLoop
    <2>2. Loads(file) /\ file.mode = thread[c].mode
      BY <1>3 DEF Promises
    <2>3. Loop!InLoop /\ UNCHANGED pc
      BY <1>1, <1>3, ThreadsInLoop DEF Asks, IsServed, loopOnly
    <2>4. reload_flag' = TRUE /\ UNCHANGED file
      BY <1>3, FlagBeforeAnswer
    <2> QED BY <2>1, <2>2, <2>3, <2>4 DEF OwedInv, OwedType, Promised, Begun, Loop!InLoop
  <1>4. owed' = NothingOwed \/ UNCHANGED <<owed, file>>
        \/ \E c \in Clients : Promises(c) /\ (Asks(c) \/ IsServed(c))
    BY DEF Asks, IsServed, OtherPrograms, WithLoop
  <1> QED BY <1>2, <1>3, <1>4, NothingIsOwed

LEMMA DeviceKeepsPromise ==
    ASSUME ~ ReuseNode, Loop!TypeOK, OwedInv, Device
    PROVE  OwedInv'
  <1>1. UNCHANGED <<pc, file, reload_flag, cfg, base, want, failed, last_duty, live, owed>>
    BY DEF Device, Loop!DeviceStep, Loop!Unplug, Loop!Enumerate, Loop!cycle, Loop!process
  <1>2. ~ Loop!Attached'
    BY DEF Device, Loop!DeviceStep, Loop!Unplug, Loop!Enumerate, Loop!Attached, Loop!process,
       Loop!TypeOK, Loop!DeviceType
  <1> QED BY <1>1, <1>2 DEF OwedInv, OwedType, Promised, Begun, FullSpeed, Loop!InLoop

\* A step of the main thread within its loop, neither at the start of a cycle nor a reload,
\* when no process ends
MidCycle ==
    /\ Loop!InLoop /\ Loop!InLoop' /\ ~ CycleBegins
    /\ UNCHANGED <<file, reload_flag, owed>>

LEMMA MidCycleKeeps ==
    ASSUME OwedInv, MidCycle, UNCHANGED cfg, pc # "reload",
           pc' = "show" => \/ pc = "show" /\ UNCHANGED live
                           \/ live'.active_mode = cfg.mode,
           cfg.mode = "Performance" /\ FullSpeed => FullSpeed'
    PROVE  OwedInv'
  BY DEF OwedInv, OwedType, Promised, Begun, MidCycle

LEMMA SenseKeepsPromise ==
    ASSUME OwedInv, MidCycle, Loop!Sense
    PROVE  OwedInv'
  <1>1. cfg.mode = "Performance" => \A ch \in Loop!Channels : want'[ch] = 100
    BY DEF Loop!Sense, Loop!DecideDuty, Loop!Channels
  <1>2. UNCHANGED <<dev, last_duty, cfg, base, live>> /\ pc = "sense" /\ pc' = "write_pump"
    BY DEF Loop!Sense, Loop!process
  <1>3. cfg.mode = "Performance" /\ FullSpeed => FullSpeed'
    BY <1>1, <1>2 DEF FullSpeed, Past, Loop!Attached, Loop!Channels
  <1> QED BY <1>2, <1>3, MidCycleKeeps

\* A write of 100% is obeyed
LEMMA WrittenFull ==
    ASSUME Loop!TypeOK, Loop!WritesTakeEffect, Loop!InLoop, Loop!Attached,
           NEW ch \in Loop!Channels, dev' = Loop!Written(ch, Loop!RawDuty(100))
    PROVE  /\ dev'.node = dev.node /\ dev'.pwm[ch] = 255
           /\ \A d \in Loop!Channels \ {ch} : dev'.pwm[d] = dev.pwm[d]
  <1>1. Loop!RawDuty(100) = 255
    BY DEF Loop!RawDuty
  <1>2. dev.manual[ch]
    BY DEF Loop!WritesTakeEffect
  <1> QED BY <1>1, <1>2 DEF Loop!Written, Loop!TypeOK, Loop!DeviceType

LEMMA WriteKeepsPromise ==
    ASSUME Loop!TypeOK, Loop!WritesTakeEffect, OwedInv, MidCycle, NEW ch \in Loop!Channels,
           Loop!WriteSkipped(ch) \/ Loop!WriteOk(ch) \/ Loop!WriteFails(ch)
    PROVE  OwedInv'
  <1>1. /\ pc = Loop!WritePc[ch] /\ pc' = Loop!AfterWrite[ch]
        /\ UNCHANGED <<cfg, base, want>>
    BY DEF Loop!WriteSkipped, Loop!WriteOk, Loop!WriteFails, Loop!cycle, Loop!process
  <1>2. /\ pc \in {"write_pump", "write_fan"} /\ pc' \in {"write_fan", "publish"}
        /\ \A d \in Loop!Channels \ {ch} : pc' \in Past[d] => pc \in Past[d]
    BY <1>1 DEF Loop!WritePc, Loop!AfterWrite, Past, Loop!Channels
  <1>3. ASSUME FullSpeed PROVE FullSpeed'
    <2>1. /\ \A d \in Loop!Channels : want'[d] = 100
          /\ want[ch] = 100 /\ want[ch] # None
      BY <1>1, <1>2, <1>3, DaemonAssumption DEF FullSpeed, Loop!Decided, Loop!LoopAssumption
    <2>2. CASE Loop!WriteSkipped(ch)
      <3>1. UNCHANGED <<dev, last_duty, failed>> /\ last_duty[ch] = 100
        BY <2>1, <2>2 DEF Loop!WriteSkipped, Loop!cycle, Loop!process
      <3> QED BY <1>1, <1>2, <1>3, <2>1, <3>1 DEF FullSpeed, Loop!Attached
    <2>3. CASE Loop!WriteOk(ch)
      <3>1. UNCHANGED failed /\ Loop!Attached /\ dev' = Loop!Written(ch, Loop!RawDuty(100))
        BY <2>1, <2>3 DEF Loop!WriteOk, Loop!cycle
      <3>2. last_duty'[ch] = 100 /\ \A d \in Loop!Channels \ {ch} : last_duty'[d] = last_duty[d]
        BY <2>1, <2>3 DEF Loop!WriteOk, Loop!TypeOK, Loop!DutyType
      <3>3. dev'.pwm[ch] = 255 /\ \A d \in Loop!Channels \ {ch} : dev'.pwm[d] = dev.pwm[d]
        BY <3>1, WrittenFull DEF MidCycle
      <3> QED BY <1>1, <1>2, <1>3, <2>1, <3>1, <3>2, <3>3 DEF FullSpeed
    <2>4. CASE Loop!WriteFails(ch)
      <3>1. UNCHANGED last_duty /\ failed' = failed \cup {ch}
            /\ (dev' = dev \/ (Loop!Attached /\ dev' = Loop!Written(ch, Loop!RawDuty(100))))
        BY <2>1, <2>4 DEF Loop!WriteFails, Loop!process
      <3>2. CASE dev' = dev
        BY <1>1, <1>2, <1>3, <2>1, <3>1, <3>2 DEF FullSpeed, Loop!Attached
      <3>3. CASE Loop!Attached /\ dev' = Loop!Written(ch, Loop!RawDuty(100))
        <4>1. dev'.pwm[ch] = 255 /\ \A d \in Loop!Channels \ {ch} : dev'.pwm[d] = dev.pwm[d]
          BY <3>3, WrittenFull DEF MidCycle
        <4> QED BY <1>1, <1>2, <1>3, <2>1, <3>1, <3>3, <4>1 DEF FullSpeed
      <3> QED BY <3>1, <3>2, <3>3
    <2> QED BY <2>2, <2>3, <2>4
  <1> QED BY <1>1, <1>2, <1>3, MidCycleKeeps

(* A reload that takes the file puts the mode in force and forgets the duties; one that    *)
(* does not is the exception that `unread` keeps.                                          *)
LEMMA ReloadKeepsPromise ==
    ASSUME OwedInv, Loop!InLoop, WithThreads, Loop!Reload \/ Loop!ReloadFails
    PROVE  OwedInv'
  <1>1. /\ pc = "reload" /\ pc' = "sense" /\ ~ CycleBegins
        /\ UNCHANGED <<file, reload_flag>>
        /\ Loop!InLoop'
    BY DEF Loop!Reload, Loop!ReloadFails, Loop!process, CycleBegins, Loop!InLoop, Loop!Looping
  <1>2. CASE TakesFile
    <2>1. owed' = [owed EXCEPT !.unread = FALSE]
      BY <1>1, <1>2 DEF WithThreads
    <2>2. cfg' = file /\ last_duty' = Loop!NoDuty /\ UNCHANGED <<want, failed>>
      BY <1>1, <1>2 DEF TakesFile, Loop!LoadConfig, Loop!Reload, Loop!cycle
    <2>3. FullSpeed'
      BY <1>1, <2>2 DEF FullSpeed, Past, Loop!NoDuty, Loop!Channels, Loop!Decided
    <2> QED BY <1>1, <2>1, <2>2, <2>3 DEF OwedInv, OwedType, Promised, Begun
  <1>3. CASE ~ TakesFile
    <2>1. LeavesFile
      BY <1>3 DEF LeavesFile, TakesFile
    <2>2. owed' = [owed EXCEPT !.unread = owed.begun]
      BY <1>1, <1>3, <2>1 DEF WithThreads
    <2> QED BY <1>1, <2>2 DEF OwedInv, OwedType, Promised, Begun
  <1> QED BY <1>2, <1>3

LEMMA OtherStepsKeepPromise ==
    ASSUME OwedInv, MidCycle, Loop!Publish \/ Loop!Show \/ Loop!Interrupt
    PROVE  OwedInv'
  <1>1. CASE Loop!Publish
    <2>1. pc = "publish" /\ pc' = "show" /\ UNCHANGED <<cfg, dev, base, want, failed, last_duty>>
          /\ live'.active_mode = cfg.mode
      BY <1>1 DEF Loop!Publish, Loop!cycle
    <2>2. FullSpeed => FullSpeed'
      BY <2>1 DEF FullSpeed, Past, Loop!Attached, Loop!Decided, Loop!Channels
    <2> QED BY <2>1, <2>2, MidCycleKeeps
  <1>2. CASE Loop!Show
    <2>1. pc = "show" /\ pc' = "top" /\ UNCHANGED <<cfg, dev, base, last_duty>>
      BY <1>2 DEF Loop!Show, Loop!process
    <2>2. FullSpeed => FullSpeed'
      BY <2>1 DEF FullSpeed, Past, Loop!Attached, Loop!Decided, Loop!Channels
    <2> QED BY <2>1, <2>2, MidCycleKeeps
  <1>3. CASE Loop!Interrupt
    BY <1>3 DEF Loop!Interrupt, Loop!cycle, OwedInv, OwedType, Promised, Begun, FullSpeed,
       Loop!Attached, MidCycle
  <1> QED BY <1>1, <1>2, <1>3

LEMMA CycleBeginsKeepsPromise ==
    ASSUME OwedInv, CycleBegins, MainThread \/ Signals
    PROVE  OwedInv'
  <1>1. Loop!TakeReload \/ Loop!NoReload
    BY DEF CycleBegins, MainThread, Signals, Loop!MainThread, Loop!Signals, Loop!StartupStep,
       Loop!LoadConfig, Loop!LoadConfigFails, Loop!DiscoverFound, Loop!DiscoverRetry,
       Loop!DiscoverGivesUp, Loop!EnsureManual, Loop!EnsureManualFails, Loop!ManualPc,
       Loop!Channels, Loop!Serve, Loop!ServeFails, Loop!LoopStep, Loop!Stop, Loop!Reload,
       Loop!ReloadFails, Loop!Sense, Loop!WriteSkipped, Loop!WriteOk, Loop!WriteFails,
       Loop!WritePc, Loop!Publish, Loop!Show, Loop!Start, Loop!Interrupt, Loop!Kill,
       Loop!ProcessEnds
  <1>2. owed' = [owed EXCEPT !.begun = (owed.mode # None)]
    BY DEF CycleBegins, MainThread, Signals, WithThreads
  <1>3. /\ OwedType' /\ owed'.mode = owed.mode /\ owed'.unread = owed.unread
        /\ owed'.begun <=> owed.mode # None
    BY <1>2 DEF OwedInv, OwedType
  <1>4. UNCHANGED file
    BY MainSeen
  <1>5. Promised'
    BY <1>3, <1>4 DEF OwedInv, Promised, CycleBegins, Loop!InLoop, Loop!Looping
  <1>6. CASE Loop!TakeReload
    BY <1>3, <1>5, <1>6 DEF OwedInv, Begun, Loop!TakeReload
  <1>7. CASE Loop!NoReload
    <2>1. pc = "top" /\ pc' = "sense" /\ ~ reload_flag
          /\ UNCHANGED <<cfg, dev, base, want, failed, last_duty>>
      BY <1>7 DEF Loop!NoReload, Loop!cycle, Loop!process
    <2>2. owed.mode # None => owed.begun
      BY <2>1 DEF OwedInv, Promised
    <2>3. FullSpeed => FullSpeed'
      BY <2>1 DEF FullSpeed, Past, Loop!Attached, Loop!Decided, Loop!Channels
    <2> QED BY <1>3, <1>5, <2>1, <2>2, <2>3 DEF OwedInv, Begun
  <1> QED BY <1>1, <1>6, <1>7

LEMMA MainKeepsPromise ==
    ASSUME Alive, Loop!TypeOK, Loop!WritesTakeEffect, OwedInv, MainThread \/ Signals
    PROVE  OwedInv'
  <1>1. Seen /\ UNCHANGED file /\ WithThreads
    BY MainSeen
  <1>2. CASE pc' = "down"
    BY <1>1, <1>2, NothingIsOwed DEF WithThreads
  <1>3. CASE CycleBegins
    BY <1>3, CycleBeginsKeepsPromise
  <1>4. CASE pc' # "down" /\ ~ CycleBegins
    <2>1. /\ ~ TakesFile /\ ~ LeavesFile => UNCHANGED owed
          /\ TakesFile \/ LeavesFile =>
                owed' = [owed EXCEPT !.unread = FALSE] \/ owed' = [owed EXCEPT !.unread = owed.begun]
      BY <1>1, <1>4 DEF WithThreads
    <2>2. CASE ~ Loop!InLoop
      BY <2>1, <2>2 DEF OwedInv, OwedType, Promised, Begun
    <2>3. CASE Loop!InLoop
      <3>1. Loop!InLoop' /\ UNCHANGED reload_flag
        BY <1>1, <1>4, <2>3 DEF Seen, Unseen, Loading, Dying, Serving, FlagTaken, Refused, Pcs,
           DaemonState, CycleBegins, Loop!InLoop, Loop!Looping, Loop!Decided, Loop!Startup
      <3>2. ASSUME ~ TakesFile, ~ LeavesFile PROVE MidCycle
        BY <1>1, <1>4, <2>1, <2>3, <3>1, <3>2 DEF MidCycle
      <3>3. \/ Loop!Sense \/ Loop!Reload \/ Loop!ReloadFails \/ Loop!Publish \/ Loop!Show
            \/ Loop!Interrupt
            \/ \E ch \in Loop!Channels :
                  Loop!WriteSkipped(ch) \/ Loop!WriteOk(ch) \/ Loop!WriteFails(ch)
        <4>1. ~ Loop!StartupStep
          BY <1>4, <2>3 DEF Loop!InLoop, Loop!Looping, Loop!Decided, Loop!StartupStep,
             Loop!LoadConfig, Loop!LoadConfigFails, Loop!DiscoverFound, Loop!DiscoverRetry,
             Loop!DiscoverGivesUp, Loop!EnsureManual, Loop!EnsureManualFails, Loop!ManualPc,
             Loop!Channels, Loop!Serve, Loop!ServeFails
        <4>2. ~ Loop!Stop /\ ~ Loop!Kill /\ ~ Loop!TakeReload /\ ~ Loop!NoReload /\ ~ Loop!Start
          BY <1>4, <2>3 DEF CycleBegins, Loop!Stop, Loop!Kill, Loop!ProcessEnds, Loop!TakeReload,
             Loop!NoReload, Loop!Start, Loop!InLoop, Loop!Looping, Loop!Decided
        <4> QED BY <4>1, <4>2 DEF MainThread, Signals, Loop!MainThread, Loop!Signals, Loop!LoopStep
      <3>4. CASE Loop!Reload \/ Loop!ReloadFails
        BY <1>1, <2>3, <3>4, ReloadKeepsPromise
      <3>5. CASE Loop!Sense \/ Loop!Publish \/ Loop!Show \/ Loop!Interrupt
        <4>1. pc # "reload" \/ pc' = "reload"
          BY <3>5 DEF Loop!Sense, Loop!Publish, Loop!Show, Loop!Interrupt
        <4>2. MidCycle
          BY <2>3, <3>2, <4>1, FileSteps DEF Loop!InLoop, Loop!Looping, Loop!Decided
        <4> QED BY <3>5, <4>2, SenseKeepsPromise, OtherStepsKeepPromise
      <3>6. ASSUME NEW ch \in Loop!Channels,
                   Loop!WriteSkipped(ch) \/ Loop!WriteOk(ch) \/ Loop!WriteFails(ch)
            PROVE  OwedInv'
        <4>1. pc \in {"write_pump", "write_fan"}
          BY <3>6 DEF Loop!WriteSkipped, Loop!WriteOk, Loop!WriteFails, Loop!WritePc, Loop!Channels
        <4>2. MidCycle
          BY <3>2, <4>1, FileSteps
        <4> QED BY <3>6, <4>2, WriteKeepsPromise
      <3> QED BY <3>3, <3>4, <3>5, <3>6
    <2> QED BY <2>2, <2>3
  <1> QED BY <1>2, <1>3, <1>4

LEMMA NextKeepsPromise ==
    ASSUME ~ ReuseNode
    PROVE  Alive /\ Loop!TypeOK /\ Loop!WritesTakeEffect /\ OwedInv /\ [Next]_vars => OwedInv'
  <1>1. UNCHANGED vars /\ OwedInv => OwedInv'
    BY DEF vars, loopOnly, OwedInv, OwedType, Promised, Begun, FullSpeed, Loop!Attached, Loop!InLoop
  <1> QED
    BY <1>1, MainKeepsPromise, ThreadsKeepPromise, DeviceKeepsPromise DEF Next

(* "SetMode accepted: config written, reload queued (applied on the control *)
(* loop's next iteration" (common/src/ipc.rs:57-60): ModeSetApplied, for    *)
(* any number of clients and GUIs, through failed writes, unplugging,       *)
(* restarts and rewrites of the file.  It needs a device that comes back    *)
(* under another number (without that a stale cache skips the write), but   *)
(* not that a write that returned an error did nothing.                     *)
THEOREM ModeSetKept ==
    ASSUME ~ ReuseNode
    PROVE  Spec => []ModeSetApplied
  <1>1. Init => OwedInv
    BY DEF Init, NothingOwed, OwedInv, OwedType, Promised, Begun
  <1>2. OwedInv => ModeSetApplied
    <2> SUFFICES ASSUME OwedInv, pc = "show", owed.begun, ~ owed.unread PROVE ModeSetApplied
      BY DEF ModeSetApplied
    <2>1. live.active_mode = owed.mode /\ (owed.mode = "Performance" => FullSpeed)
      BY DEF OwedInv, Begun
    <2>2. ASSUME FullSpeed, Loop!Attached, NEW ch \in Channels \ failed
          PROVE  dev.pwm[ch] = 255
      BY <2>2, DaemonAssumption DEF FullSpeed, Past, Channels, Loop!Channels, Loop!LoopAssumption
    <2> QED BY <2>1, <2>2 DEF ModeSetApplied
  <1>3. Spec => [](Loop!TypeOK /\ Loop!WritesTakeEffect)
    BY LoopHolds, WritesObeyed, PTL
  <1> QED
    BY <1>1, <1>2, <1>3, AlwaysAlive, NextKeepsPromise, PTL DEF Spec
=============================================================================
