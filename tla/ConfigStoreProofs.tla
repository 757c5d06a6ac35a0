------------------------- MODULE ConfigStoreProofs -------------------------
(***************************************************************************)
(* Proofs about config.toml and its writers, for any number of clients and *)
(* GUIs and any texts.                                                     *)
(***************************************************************************)
EXTENDS ConfigStore, TLAPS

Holding == {"read", "create", "fill", "sync", "rename", "flag", "unlock"}

Writing == {"create", "fill", "sync", "rename"}

ThreadType ==
    [pc : SetModePcs, mode : Modes \cup {None}, text : ConfigType \cup {None},
     reply : {None, "ModeSet", "Error"}]

GuiType ==
    [pc : {"idle", "write", "rename", "announce"}, text : ConfigType \cup {None}]

-----------------------------------------------------------------------------
(* The edit of set_active_mode stays within the texts there are.            *)

LEMMA EditedText ==
    ASSUME NEW text \in Texts, NEW m \in Modes
    PROVE  /\ SetActiveMode(text, m) \in Texts
           /\ Loads(SetActiveMode(text, m)) => SetActiveMode(text, m) \in ConfigType
  <1>1. text # Unparsable => [text EXCEPT !.mode = m] \in ConfigType
    BY DEF Texts, ConfigType
  <1> QED BY <1>1 DEF SetActiveMode, Texts, Loads

-----------------------------------------------------------------------------
(* The reload handshake.  It needs neither the lock nor the types.          *)

ReloadInv ==
    daemon # "down" /\ loaded # file =>
        reload_flag \/ reader = "reload" \/ unannounced

(* No reload request is lost, whatever the writers of the file do, through *)
(* kills and power failures: ReloadNeverLost, about the order in which the  *)
(* main thread takes the flag and reads the file (daemon/src/main.rs:92-95) *)
(* and the IPC threads write it and raise the flag.                         *)
THEOREM ReloadRequestsSurvive == Spec => []ReloadNeverLost
  <1>1. Init => ReloadInv
    BY DEF Init, ReloadInv
  <1>2. ReloadInv /\ [Next]_vars => ReloadInv'
    <2> SUFFICES ASSUME ReloadInv, [Next]_vars PROVE ReloadInv'
      OBVIOUS
    <2> USE DEF ReloadInv, store, ipc, main
    <2>1. ASSUME NEW c \in Clients, AskSetMode(c) \/ SetModeStep(c) PROVE ReloadInv'
      BY <2>1 DEF AskSetMode, SetModeStep, Lock, ReadText, CreateTmp, FillTmp, SyncTmp,
                  Rename, StepFails, RaiseFlag, Unlock
    <2>2. ASSUME NEW g \in Guis, GuiStep(g) PROVE ReloadInv'
      BY <2>2 DEF GuiStep, GuiSave, GuiWrite, GuiRename, GuiAnnounce, GuiGivesUp
    <2>3. CASE AskReload \/ HandEdit \/ Flush
      BY <2>3 DEF AskReload, HandEdit, Flush
    <2>4. CASE StartDaemon \/ StartServer \/ ReaderStep
      BY <2>4 DEF StartDaemon, StartServer, ReaderStep, TakeFlag, LoadFile, LoadFails
    <2>5. CASE DaemonDies \/ PowerFailure
      BY <2>5 DEF DaemonDies, PowerFailure, DaemonEnds
    <2>6. CASE UNCHANGED vars
      BY <2>6 DEF vars
    <2> QED BY <2>1, <2>2, <2>3, <2>4, <2>5, <2>6 DEF Next
  <1>3. ReloadInv => ReloadNeverLost
    BY DEF ReloadInv, ReloadNeverLost
  <1> QED BY <1>1, <1>2, <1>3, PTL DEF Spec

-----------------------------------------------------------------------------
(* The inductive invariant: a thread from its read to its answer is the one *)
(* that holds the lock, so config.toml.tmp is its own; what threads and     *)
(* GUIs are about to put in place of config.toml is a config that loads.    *)

Locked == \A c \in Clients : thread[c].pc \in Holding => write_lock = c

Asking ==
    \A c \in Clients :
        thread[c].pc \in {"lock", "read", "flag"} \cup Writing => thread[c].mode \in Modes

WholeTexts ==
    /\ \A c \in Clients :
          thread[c].pc \in Writing => thread[c].text \in ConfigType /\ ValidConfig(thread[c].text)
    /\ \A g \in Guis :
          gui[g].pc \in {"write", "rename"} => gui[g].text \in ConfigType /\ ValidConfig(gui[g].text)

TmpIsMine ==
    \A c \in Clients :
        /\ thread[c].pc = "sync" => tmp = [text |-> thread[c].text, synced |-> FALSE]
        /\ thread[c].pc = "rename" => tmp = [text |-> thread[c].text, synced |-> TRUE]

ThreadsOK == thread \in [Clients -> ThreadType] /\ gui \in [Guis -> GuiType]

FilesOK ==
    /\ file \in Texts /\ disk \subseteq Texts
    /\ tmp = None \/ tmp \in [text : Texts, synced : BOOLEAN]

RestOK ==
    /\ write_lock \in Clients \cup {None}
    /\ asked \in [Clients -> 0..MaxRequests]
    /\ daemon \in {"down", "starting", "serving"}
    /\ reload_flag \in BOOLEAN /\ unannounced \in BOOLEAN
    /\ reader \in {"top", "reload"}
    /\ loaded = None \/ (loaded \in ConfigType /\ ValidConfig(loaded))

LockInv == Locked /\ Asking /\ WholeTexts /\ TmpIsMine

StoreInv == ThreadsOK /\ FilesOK /\ RestOK /\ LockInv

LEMMA IdleThread == Idle \in ThreadType /\ GuiIdle \in GuiType
  BY DEF Idle, At, GuiIdle, ThreadType, GuiType, SetModePcs

LEMMA InitStoreInv == Init => StoreInv
  <1> SUFFICES ASSUME Init PROVE StoreInv
    OBVIOUS
  <1> USE IdleThread, StoreAssumption DEF Init
  <1>1. ThreadsOK
    BY DEF ThreadsOK
  <1>2. FilesOK
    BY DEF FilesOK, Texts
  <1>3. RestOK
    <2>1. asked \in [Clients -> 0..MaxRequests]
      BY DEF Init
    <2> QED BY <2>1 DEF RestOK
  <1>4. LockInv
    BY DEF LockInv, Locked, Asking, WholeTexts, TmpIsMine, Holding, Writing, Idle, At, GuiIdle
  <1> QED BY <1>1, <1>2, <1>3, <1>4 DEF StoreInv

(* The steps of a SetMode.  Every other thread keeps its record, and what   *)
(* holds of it holds on, because it is not the one that has the lock.       *)

LEMMA SetModePreserves ==
    ASSUME StoreInv, NEW c \in Clients, AskSetMode(c) \/ SetModeStep(c)
    PROVE  StoreInv'
  <1> USE StoreAssumption DEF StoreInv, LockInv, store, ipc, main
  <1>0. thread[c] \in ThreadType /\ c # None
    BY DEF ThreadsOK
  <1>1. CASE AskSetMode(c)
    <2> USE <1>1 DEF AskSetMode
    <2>1. PICK m \in AskedModes : thread' = [thread EXCEPT ![c] = At("lock", m, None)]
      OBVIOUS
    <2>2. At("lock", m, None) \in ThreadType /\ m \in Modes
      BY DEF ThreadType, SetModePcs, At
    <2>3. ThreadsOK' /\ FilesOK'
      BY <2>1, <2>2 DEF ThreadsOK, FilesOK
    <2>4. asked' \in [Clients -> 0..MaxRequests]
      <3>1. asked \in [Clients -> 0..MaxRequests] /\ MaxRequests \in Nat
        BY DEF RestOK
      <3>2. asked[c] \in 0..MaxRequests /\ asked[c] < MaxRequests
        BY <3>1
      <3>3. \A n \in 0..MaxRequests : n < MaxRequests => n + 1 \in 0..MaxRequests
        BY <3>1, SMT
      <3> QED BY <3>1, <3>2, <3>3
    <2>5. RestOK'
      BY <2>4 DEF RestOK
    <2>6. LockInv'
      BY <2>1, <2>2 DEF At, ThreadsOK, Locked, Asking, WholeTexts, TmpIsMine, Holding, Writing
    <2> QED BY <2>3, <2>5, <2>6
  <1>2. CASE Lock(c)
    <2> USE <1>2 DEF Lock, Goto
    <2>1. ThreadsOK' /\ FilesOK' /\ RestOK'
      BY <1>0 DEF ThreadsOK, FilesOK, RestOK, ThreadType, SetModePcs
    <2>2. LockInv'
      BY <1>0 DEF ThreadsOK, Locked, Asking, WholeTexts, TmpIsMine, Holding, Writing
    <2> QED BY <2>1, <2>2
  <1>3. CASE ReadText(c)
    <2> DEFINE new == SetActiveMode(file, thread[c].mode)
    <2>1. thread[c].pc = "read" /\ thread[c].mode \in Modes /\ write_lock = c
      BY <1>3 DEF ReadText, Asking, Locked, Holding
    <2>2. Loads(new) => new \in ConfigType /\ ValidConfig(new)
      BY <2>1, EditedText DEF FilesOK, Loads
    <2>3. UNCHANGED <<store, tmp, write_lock, asked, gui, main, unannounced>>
      BY <1>3 DEF ReadText
    <2>4. \/ Loads(new) /\ thread' = [thread EXCEPT ![c].pc = "create", ![c].text = new]
          \/ thread' = [thread EXCEPT ![c].pc = "flag"]
          \/ thread' = [thread EXCEPT ![c] = At("unlock", None, "Error")]
      BY <1>3 DEF ReadText, Finish
    <2> HIDE DEF new
    <2>5. /\ thread' \in [Clients -> ThreadType]
          /\ \A d \in Clients \ {c} : thread'[d] = thread[d]
      BY <1>0, <2>2, <2>4 DEF At, ThreadsOK, ThreadType, SetModePcs
    <2>6. \/ /\ thread'[c].pc = "create" /\ thread'[c].mode = thread[c].mode
             /\ thread'[c].text \in ConfigType /\ ValidConfig(thread'[c].text)
          \/ thread'[c].pc = "flag" /\ thread'[c].mode = thread[c].mode
          \/ thread'[c].pc = "unlock"
      BY <1>0, <2>2, <2>4 DEF At, ThreadsOK, ThreadType
    <2> HIDE <1>3
    <2>7. ThreadsOK' /\ FilesOK' /\ RestOK'
      BY <2>3, <2>5 DEF ThreadsOK, FilesOK, RestOK
    <2>8. Locked' /\ Asking' /\ WholeTexts' /\ TmpIsMine'
      BY <2>1, <2>3, <2>5, <2>6 DEF Locked, Asking, WholeTexts, TmpIsMine, Holding, Writing
    <2> QED BY <2>7, <2>8
  <1>4. CASE CreateTmp(c) \/ FillTmp(c) \/ SyncTmp(c)
    <2>1. PICK to \in {"fill", "sync", "rename"} :
            /\ thread[c].pc \in Writing
            /\ thread' = [thread EXCEPT ![c].pc = to]
            /\ UNCHANGED <<store, write_lock, asked, gui, main, unannounced>>
            /\ to = "fill" => tmp' = [text |-> Unparsable, synced |-> FALSE]
            /\ to = "sync" => tmp' = [text |-> thread[c].text, synced |-> FALSE]
            /\ to = "rename" => tmp' = [text |-> thread[c].text, synced |-> TRUE]
      BY <1>4 DEF CreateTmp, FillTmp, SyncTmp, Goto, Writing, TmpIsMine
    <2>2. thread[c].text \in ConfigType /\ write_lock = c
      BY <2>1 DEF WholeTexts, Locked, Holding, Writing
    <2>3. /\ thread' \in [Clients -> ThreadType]
          /\ \A d \in Clients \ {c} : thread'[d] = thread[d]
      BY <1>0, <2>1 DEF ThreadsOK, ThreadType, SetModePcs
    <2>4. thread'[c].pc = to /\ thread'[c].mode = thread[c].mode /\ thread'[c].text = thread[c].text
      BY <1>0, <2>1 DEF ThreadsOK, ThreadType
    <2>5. ThreadsOK' /\ RestOK'
      BY <2>1, <2>3 DEF ThreadsOK, RestOK
    <2>6. FilesOK'
      <3>1. thread[c].text \in Texts /\ Unparsable \in Texts
        BY <2>2 DEF Texts
      <3>2. \A text \in Texts, synced \in BOOLEAN :
              [text |-> text, synced |-> synced] \in [text : Texts, synced : BOOLEAN]
        OBVIOUS
      <3>3. \/ tmp' = [text |-> Unparsable, synced |-> FALSE]
            \/ tmp' = [text |-> thread[c].text, synced |-> FALSE]
            \/ tmp' = [text |-> thread[c].text, synced |-> TRUE]
        BY <2>1
      <3>4. tmp' \in [text : Texts, synced : BOOLEAN]
        BY <3>1, <3>2, <3>3
      <3> QED BY <2>1, <3>4 DEF FilesOK
    <2>7. Locked' /\ Asking' /\ WholeTexts'
      BY <2>1, <2>2, <2>3, <2>4 DEF Locked, Asking, WholeTexts, Holding, Writing
    <2>8. TmpIsMine'
      BY <2>1, <2>2, <2>3, <2>4 DEF TmpIsMine, Locked, Holding
    <2> QED BY <2>5, <2>6, <2>7, <2>8
  <1>5. CASE Rename(c)
    <2> USE <1>5 DEF Rename, Goto, Replace
    <2>1. ThreadsOK' /\ RestOK'
      BY <1>0 DEF ThreadsOK, RestOK, ThreadType, SetModePcs
    <2>2. FilesOK'
      BY <1>0 DEF FilesOK, Texts, TmpIsMine, WholeTexts, Writing
    <2>3. LockInv'
      BY <1>0 DEF ThreadsOK, Locked, Asking, WholeTexts, TmpIsMine, Holding, Writing
    <2> QED BY <2>1, <2>2, <2>3
  <1>6. CASE StepFails(c) \/ RaiseFlag(c)
    <2> USE <1>6 DEF StepFails, RaiseFlag, Finish
    <2>1. PICK r \in {"ModeSet", "Error"} : thread' = [thread EXCEPT ![c] = At("unlock", None, r)]
      OBVIOUS
    <2>2. At("unlock", None, r) \in ThreadType /\ thread[c].pc \in Holding
      BY DEF At, ThreadType, SetModePcs, Holding
    <2>3. ThreadsOK' /\ FilesOK'
      BY <2>1, <2>2 DEF ThreadsOK, FilesOK
    <2>4. RestOK'
      BY DEF RestOK
    <2>5. LockInv'
      BY <1>0, <2>1, <2>2 DEF At, ThreadsOK, Locked, Asking, WholeTexts, TmpIsMine, Holding, Writing
    <2> QED BY <2>3, <2>4, <2>5
  <1>7. CASE Unlock(c)
    <2> USE <1>7 DEF Unlock, Goto
    <2>1. ThreadsOK' /\ FilesOK' /\ RestOK'
      BY <1>0 DEF ThreadsOK, FilesOK, RestOK, ThreadType, SetModePcs
    <2>2. LockInv'
      BY <1>0 DEF ThreadsOK, Locked, Asking, WholeTexts, TmpIsMine, Holding, Writing
    <2> QED BY <2>1, <2>2
  <1> QED BY <1>1, <1>2, <1>3, <1>4, <1>5, <1>6, <1>7 DEF SetModeStep

LEMMA GuiPreserves ==
    ASSUME StoreInv, NEW g \in Guis, GuiStep(g)
    PROVE  StoreInv'
  <1> USE StoreAssumption DEF StoreInv, LockInv, store, ipc, main
  <1>0. gui[g] \in GuiType
    BY DEF ThreadsOK
  <1>1. CASE GuiSave(g)
    <2>1. PICK t \in SavedTexts :
            ValidConfig(t) /\ gui' = [gui EXCEPT ![g] = [pc |-> "write", text |-> t]]
      BY <1>1 DEF GuiSave
    <2>2. UNCHANGED <<store, ipc, main, unannounced>> /\ t \in ConfigType
      BY <1>1 DEF GuiSave
    <2>3. ThreadsOK' /\ FilesOK' /\ RestOK'
      BY <2>1, <2>2 DEF ThreadsOK, FilesOK, RestOK, GuiType
    <2>4. LockInv'
      BY <2>1, <2>2 DEF ThreadsOK, Locked, Asking, WholeTexts, TmpIsMine
    <2> QED BY <2>3, <2>4
  <1>2. CASE GuiRename(g)
    <2> USE <1>2 DEF GuiRename, Replace
    <2>1. ThreadsOK' /\ RestOK'
      BY <1>0 DEF ThreadsOK, RestOK, GuiType
    <2>2. FilesOK'
      BY <1>0 DEF FilesOK, Texts, WholeTexts
    <2>3. LockInv'
      BY <1>0 DEF ThreadsOK, Locked, Asking, WholeTexts, TmpIsMine
    <2> QED BY <2>1, <2>2, <2>3
  <1>3. CASE GuiWrite(g)
    <2> USE <1>3 DEF GuiWrite
    <2>1. ThreadsOK' /\ FilesOK' /\ RestOK'
      BY <1>0 DEF ThreadsOK, FilesOK, RestOK, GuiType
    <2>2. LockInv'
      BY <1>0 DEF ThreadsOK, Locked, Asking, WholeTexts, TmpIsMine
    <2> QED BY <2>1, <2>2
  <1>4. CASE GuiAnnounce(g) \/ GuiGivesUp(g)
    <2>1. /\ gui' = [gui EXCEPT ![g] = GuiIdle]
          /\ UNCHANGED <<store, ipc, daemon, reader, loaded>>
          /\ reload_flag' \in {TRUE, reload_flag} /\ unannounced' \in {FALSE, unannounced}
      BY <1>4 DEF GuiAnnounce, GuiGivesUp
    <2>2. ThreadsOK' /\ FilesOK'
      BY <2>1, IdleThread DEF ThreadsOK, FilesOK
    <2>3. RestOK'
      BY <2>1 DEF RestOK
    <2>4. LockInv'
      BY <2>1 DEF ThreadsOK, Locked, Asking, WholeTexts, TmpIsMine, GuiIdle
    <2> QED BY <2>2, <2>3, <2>4
  <1> QED BY <1>1, <1>2, <1>3, <1>4 DEF GuiStep

LEMMA OthersPreserve ==
    ASSUME StoreInv,
           AskReload \/ HandEdit \/ StartDaemon \/ StartServer \/ ReaderStep \/ DaemonDies
             \/ Flush \/ PowerFailure \/ UNCHANGED vars
    PROVE  StoreInv'
  <1> USE StoreAssumption DEF StoreInv, LockInv, store, ipc, main
  <1>1. CASE AskReload \/ StartServer \/ TakeFlag \/ LoadFails \/ UNCHANGED vars
    <2> USE <1>1 DEF AskReload, StartServer, TakeFlag, LoadFails, vars
    <2>1. ThreadsOK' /\ FilesOK' /\ RestOK'
      BY DEF ThreadsOK, FilesOK, RestOK
    <2>2. LockInv'
      BY DEF Locked, Asking, WholeTexts, TmpIsMine
    <2> QED BY <2>1, <2>2
  <1>2. CASE HandEdit \/ Flush
    <2> USE <1>2 DEF HandEdit, Flush, Replace
    <2>1. ThreadsOK' /\ RestOK' /\ LockInv'
      BY DEF ThreadsOK, RestOK, Locked, Asking, WholeTexts, TmpIsMine
    <2>2. FilesOK'
      BY DEF FilesOK, Texts
    <2> QED BY <2>1, <2>2
  <1>3. CASE StartDaemon \/ LoadFile
    <2> USE <1>3 DEF StartDaemon, LoadFile
    <2>1. ThreadsOK' /\ FilesOK' /\ LockInv'
      BY DEF ThreadsOK, FilesOK, Locked, Asking, WholeTexts, TmpIsMine
    <2>2. Loads(file) => file \in ConfigType /\ ValidConfig(file)
      BY DEF FilesOK, Texts, Loads
    <2>3. RestOK'
      BY <2>2 DEF RestOK
    <2> QED BY <2>1, <2>3
  <1>4. CASE DaemonDies \/ PowerFailure
    <2> USE <1>4, IdleThread DEF DaemonDies, PowerFailure, DaemonEnds
    <2>1. ThreadsOK'
      BY DEF ThreadsOK
    <2>2. FilesOK'
      BY DEF FilesOK
    <2>3. RestOK'
      BY DEF RestOK
    <2>4. LockInv'
      BY DEF Locked, Asking, WholeTexts, TmpIsMine, Holding, Writing, Idle, At, GuiIdle
    <2> QED BY <2>1, <2>2, <2>3, <2>4
  <1> QED BY <1>1, <1>2, <1>3, <1>4 DEF ReaderStep

LEMMA NextStoreInv == StoreInv /\ [Next]_vars => StoreInv'
  BY SetModePreserves, GuiPreserves, OthersPreserve DEF Next

LEMMA StoreInvariant == Spec => []StoreInv
  BY InitStoreInv, NextStoreInv, PTL DEF Spec

(* Every variable has its type, and the config in force is one that         *)
(* validates: Config::load is the only way into `cfg`                       *)
(* (daemon/src/main.rs:26, 93-95).                                          *)
THEOREM StoreTypeCorrect == Spec => []TypeOK
  <1>1. StoreInv => TypeOK
    BY DEF StoreInv, ThreadsOK, FilesOK, RestOK, ThreadType, GuiType, TypeOK
  <1> QED BY StoreInvariant, <1>1, PTL

(* For any number of connections, the lock of ConfigCtx                     *)
(* (daemon/src/ipc.rs:98-103) makes config.toml.tmp the renaming thread's   *)
(* own, written and synced by it.                                           *)
THEOREM RenamesOwnText == Spec => []TmpOwned
  <1>1. StoreInv => TmpOwned
    BY DEF StoreInv, LockInv, TmpIsMine, TmpOwned
  <1> QED BY StoreInvariant, <1>1, PTL

-----------------------------------------------------------------------------
(* Whole files.                                                             *)

LEMMA ConfigsLoad == \A t \in ConfigType : ValidConfig(t) => Loads(t)
  BY UnparsableAssumption DEF Loads

(* "A crash never leaves a half-written config" (daemon/src/ipc.rs:106-107, *)
(* gui/src/config.rs:43-44), as long as the power does not fail: whatever   *)
(* dies between which steps, config.toml loads or is what a user wrote.     *)
THEOREM FileStaysWhole ==
    ASSUME ~ PowerFails
    PROVE  Spec => []FileAlwaysWhole
  <1>1. Init => FileAlwaysWhole
    BY StoreAssumption DEF Init, FileAlwaysWhole
  <1>2. StoreInv /\ FileAlwaysWhole /\ [Next]_vars => FileAlwaysWhole'
    <2> SUFFICES ASSUME StoreInv, FileAlwaysWhole, [Next]_vars PROVE FileAlwaysWhole'
      OBVIOUS
    <2>1. CASE UNCHANGED file
      BY <2>1 DEF FileAlwaysWhole
    <2>2. ASSUME NEW c \in Clients, Rename(c) PROVE FileAlwaysWhole'
      <3>1. file' = thread[c].text /\ thread[c].pc = "rename"
        BY <2>2 DEF Rename, Goto, Replace, StoreInv, LockInv, TmpIsMine
      <3>2. Loads(thread[c].text)
        BY <3>1, ConfigsLoad DEF StoreInv, LockInv, WholeTexts, Writing
      <3> QED BY <3>1, <3>2 DEF FileAlwaysWhole
    <2>3. ASSUME NEW g \in Guis, GuiRename(g) PROVE FileAlwaysWhole'
      <3>1. file' = gui[g].text /\ gui[g].pc = "rename"
        BY <2>3 DEF GuiRename, Replace
      <3>2. Loads(gui[g].text)
        BY <3>1, ConfigsLoad DEF StoreInv, LockInv, WholeTexts
      <3> QED BY <3>1, <3>2 DEF FileAlwaysWhole
    <2>4. CASE HandEdit
      BY <2>4 DEF HandEdit, Replace, FileAlwaysWhole
    <2>5. ASSUME NEW c \in Clients, AskSetMode(c) \/ SetModeStep(c), ~ Rename(c)
          PROVE  UNCHANGED file
      BY <2>5 DEF AskSetMode, SetModeStep, Lock, ReadText, CreateTmp, FillTmp, SyncTmp,
                  StepFails, RaiseFlag, Unlock, store
    <2>6. ASSUME NEW g \in Guis, GuiStep(g), ~ GuiRename(g) PROVE UNCHANGED file
      BY <2>6 DEF GuiStep, GuiSave, GuiWrite, GuiAnnounce, GuiGivesUp, store
    <2>7. CASE AskReload \/ StartDaemon \/ StartServer \/ ReaderStep \/ DaemonDies \/ Flush
      BY <2>1, <2>7 DEF AskReload, StartDaemon, StartServer, ReaderStep, TakeFlag, LoadFile, LoadFails,
                        DaemonDies, Flush, store
    <2>8. CASE PowerFailure
      BY <2>8 DEF PowerFailure
    <2>9. CASE UNCHANGED vars
      BY <2>1, <2>9 DEF vars, store
    <2> QED BY <2>1, <2>2, <2>3, <2>4, <2>5, <2>6, <2>7, <2>8, <2>9 DEF Next
  <1> QED BY <1>1, <1>2, StoreInvariant, PTL DEF Spec

-----------------------------------------------------------------------------
(* SetMode alone: no other program writes the file.  Then a thread's text   *)
(* is the edit of the file as it still is when it renames.                  *)

OnlySetMode == Guis = {} /\ HandTexts = {} /\ PowerFails

EditInv ==
    /\ file \in disk
    /\ \A t \in disk : Loads(t)
    /\ \A c \in Clients :
          thread[c].pc \in Writing => thread[c].text = SetActiveMode(file, thread[c].mode)

LEMMA EditInvariant ==
    ASSUME OnlySetMode
    PROVE  Spec => []EditInv
  <1> USE DEF OnlySetMode, store, ipc, main
  <1>1. Init => EditInv
    BY StoreAssumption DEF Init, EditInv, Idle, At, Writing
  <1>2. StoreInv /\ EditInv /\ [Next]_vars => EditInv'
    <2> SUFFICES ASSUME StoreInv, EditInv, [Next]_vars PROVE EditInv'
      OBVIOUS
    <2>1. thread \in [Clients -> ThreadType]
      BY DEF StoreInv, ThreadsOK
    <2>2. ASSUME NEW c \in Clients, Rename(c) PROVE EditInv'
      <3>1. /\ file' = thread[c].text /\ disk' = disk \cup {thread[c].text}
            /\ thread[c].pc = "rename" /\ thread' = [thread EXCEPT ![c].pc = "flag"]
        BY <2>2 DEF Rename, Goto, Replace, StoreInv, LockInv, TmpIsMine
      <3>2. Loads(thread[c].text)
        BY <3>1, ConfigsLoad DEF StoreInv, LockInv, WholeTexts, Writing
      <3>3. \A d \in Clients : thread'[d].pc \notin Writing
        BY <2>1, <3>1 DEF StoreInv, LockInv, Locked, Holding, Writing
      <3> QED BY <3>1, <3>2, <3>3 DEF EditInv
    <2>3. ASSUME NEW c \in Clients, AskSetMode(c) \/ Lock(c) \/ StepFails(c) \/ RaiseFlag(c) \/ Unlock(c)
          PROVE  EditInv'
      <3>1. UNCHANGED <<file, disk>>
        BY <2>3 DEF AskSetMode, Lock, StepFails, RaiseFlag, Unlock
      <3>2. \A d \in Clients : thread'[d] = thread[d] \/ thread'[d].pc \notin Writing
        BY <2>1, <2>3
        DEF AskSetMode, Lock, StepFails, RaiseFlag, Unlock, Finish, Goto, At, Writing, ThreadType
      <3> QED BY <3>1, <3>2 DEF EditInv
    <2>4. ASSUME NEW c \in Clients, ReadText(c) PROVE EditInv'
      <3>1. UNCHANGED <<file, disk>>
        BY <2>4 DEF ReadText
      <3>2. \A d \in Clients \ {c} : thread'[d] = thread[d]
        BY <2>1, <2>4 DEF ReadText, Finish
      <3>3. \/ thread'[c].pc \notin Writing
            \/ thread'[c].text = SetActiveMode(file, thread[c].mode) /\ thread'[c].mode = thread[c].mode
        BY <2>1, <2>4 DEF ReadText, Finish, At, Writing, ThreadType
      <3> QED BY <3>1, <3>2, <3>3 DEF EditInv
    <2>5. ASSUME NEW c \in Clients, CreateTmp(c) \/ FillTmp(c) \/ SyncTmp(c) PROVE EditInv'
      <3>1. UNCHANGED <<file, disk>> /\ thread[c].pc \in Writing
        BY <2>5 DEF CreateTmp, FillTmp, SyncTmp, Goto, Writing
      <3>2. \A d \in Clients : thread'[d].text = thread[d].text /\ thread'[d].mode = thread[d].mode
        BY <2>1, <2>5 DEF CreateTmp, FillTmp, SyncTmp, Goto, ThreadType
      <3>3. \A d \in Clients \ {c} : thread'[d] = thread[d]
        BY <2>1, <2>5 DEF CreateTmp, FillTmp, SyncTmp, Goto
      <3> QED BY <3>1, <3>2, <3>3 DEF EditInv
    <2>6. CASE AskReload \/ StartDaemon \/ StartServer \/ ReaderStep \/ UNCHANGED vars
      <3>1. UNCHANGED <<file, disk, thread>>
        BY <2>6 DEF AskReload, StartDaemon, StartServer, ReaderStep, TakeFlag, LoadFile,
           LoadFails, vars
      <3> QED BY <3>1 DEF EditInv
    <2>7. CASE DaemonDies \/ Flush \/ PowerFailure
      BY <2>7 DEF DaemonDies, Flush, PowerFailure, DaemonEnds, EditInv, Idle, At, Writing
    <2>8. CASE HandEdit
      BY <2>8 DEF HandEdit
    <2> QED BY <2>2, <2>3, <2>4, <2>5, <2>6, <2>7, <2>8 DEF Next, SetModeStep
  <1> QED BY <1>1, <1>2, StoreInvariant, PTL DEF Spec

(* After a power failure the file is one that was in place before, whole:   *)
(* sync_all comes before the rename (daemon/src/ipc.rs:122-127).            *)
THEOREM DiskStaysWhole ==
    ASSUME OnlySetMode
    PROVE  Spec => []DiskAlwaysWhole
  <1>1. EditInv => DiskAlwaysWhole
    BY DEF EditInv, DiskAlwaysWhole
  <1> QED BY EditInvariant, <1>1, PTL

-----------------------------------------------------------------------------
(* SetMode is atomic.  Each step of a thread is one of AtomicConfig's, or   *)
(* one that it does not see; Apply is the rename, or the read that finds    *)
(* the mode set already.                                                    *)

RequestOf(th) ==
    IF th.pc \in {"idle", "unlock"} THEN [state |-> "none", mode |-> None]
    ELSE [state |-> IF th.pc = "flag" THEN "applied" ELSE "asked", mode |-> th.mode]

AnswerOf == [c \in Clients |-> thread[c].reply]

LEMMA RequestedIs == Requested = [c \in Clients |-> RequestOf(thread[c])]
  BY DEF Requested, RequestOf

(* A thread's step changes the request and the answer of its own client.    *)
LEMMA OwnRequest ==
    ASSUME ThreadsOK, ThreadsOK', NEW c \in Clients,
           \A d \in Clients \ {c} : thread'[d] = thread[d]
    PROVE  /\ Requested' = [Requested EXCEPT ![c] = RequestOf(thread'[c])]
           /\ AnswerOf' = [AnswerOf EXCEPT ![c] = thread'[c].reply]
  <1>1. Requested' = [d \in Clients |-> RequestOf(thread'[d])]
    BY DEF Requested, RequestOf
  <1> QED BY <1>1, RequestedIs DEF AnswerOf

(* What a config is does not depend on the module it is said in.            *)
LEMMA SameConfig ==
    /\ \A t, m : Atomic!SetActiveMode(t, m) = SetActiveMode(t, m)
    /\ \A t : Loads(t) => Atomic!Loads(t)
  <1>1. \A t, m : Atomic!SetActiveMode(t, m) = SetActiveMode(t, m)
    BY DEF Atomic!SetActiveMode, SetActiveMode
  <1>2. \A points : ValidCurve(points) => Atomic!ValidCurve(points)
    BY DEF Atomic!ValidCurve, ValidCurve
  <1>3. \A t : ValidConfig(t) => Atomic!ValidConfig(t)
    <2>1. Atomic!MinFailsafe = MinFailsafe
      BY DEF MinFailsafe, Atomic!MinFailsafe
    <2>2. \A x, y : Atomic!F32Lt(x, y) <=> F32Lt(x, y)
      BY DEF F32Lt, Atomic!F32Lt
    <2>3. Atomic!Channels = Channels
      BY DEF Channels, Atomic!Channels
    <2> QED BY <1>2, <2>1, <2>2, <2>3 DEF Atomic!ValidConfig, ValidConfig
  <1> QED BY <1>1, <1>3 DEF Loads, Atomic!Loads

(* "a SetMode edits only `[mode] active`" (common/src/ipc.rs:45-51), for any *)
(* number of connections and through failed steps, kills and power          *)
(* failures: the detailed specification implements AtomicConfig.            *)
THEOREM SetModeIsAtomic ==
    ASSUME OnlySetMode
    PROVE  Spec => AtomicSpec
  <1> USE DEF OnlySetMode, store, ipc, main
  <1>1. Init => Atomic!Init
    BY DEF Init, Atomic!Init, Atomic!NoRequest, Requested, Idle, At
  <1>2. StoreInv /\ EditInv /\ [Next]_vars => [Atomic!Next]_(Atomic!vars)
    <2> SUFFICES ASSUME StoreInv, EditInv, [Next]_vars PROVE [Atomic!Next]_(Atomic!vars)
      OBVIOUS
    <2> DEFINE Others(c) == \A d \in Clients \ {c} : thread'[d] = thread[d]
    <2>0. ThreadsOK /\ ThreadsOK'
      BY NextStoreInv DEF StoreInv
    <2>1. ASSUME UNCHANGED <<file, disk, thread>> PROVE UNCHANGED Atomic!vars
      BY <2>1 DEF Atomic!vars, Requested
    <2>2. ASSUME NEW c \in Clients, AskSetMode(c) PROVE Atomic!Ask(c)
      <3>1. PICK m \in AskedModes : thread' = [thread EXCEPT ![c] = At("lock", m, None)]
        BY <2>2 DEF AskSetMode
      <3>2. thread[c].pc = "idle" /\ UNCHANGED <<file, disk>>
        BY <2>2 DEF AskSetMode
      <3>3. Others(c) /\ thread'[c] = At("lock", m, None)
        BY <2>0, <3>1 DEF ThreadsOK
      <3>4. /\ Requested' = [Requested EXCEPT ![c] = [state |-> "asked", mode |-> m]]
            /\ AnswerOf' = [AnswerOf EXCEPT ![c] = None]
        BY <2>0, <3>3, OwnRequest DEF RequestOf, At
      <3>5. Requested[c].state = "none"
        BY <3>2, RequestedIs DEF RequestOf
      <3> QED BY <3>2, <3>4, <3>5 DEF Atomic!Ask, AnswerOf
    <2>3. ASSUME NEW c \in Clients,
                 Lock(c) \/ CreateTmp(c) \/ FillTmp(c) \/ SyncTmp(c) \/ Unlock(c)
                   \/ (ReadText(c) /\ thread'[c].pc = "create")
          PROVE  UNCHANGED Atomic!vars
      <3>1. Others(c) /\ UNCHANGED <<file, disk>>
        BY <2>0, <2>3
        DEF Lock, CreateTmp, FillTmp, SyncTmp, Unlock, ReadText, Goto, Finish, ThreadsOK
      <3>2. /\ thread'[c].mode = thread[c].mode \/ thread'[c].pc = "idle"
            /\ thread'[c].reply = thread[c].reply
            /\ \/ thread[c].pc = "unlock" /\ thread'[c].pc = "idle"
               \/ /\ thread[c].pc \in {"lock", "read"} \cup Writing
                  /\ thread'[c].pc \in {"read"} \cup Writing
        BY <2>0, <2>3
        DEF Lock, CreateTmp, FillTmp, SyncTmp, Unlock, ReadText, Goto, Finish, ThreadsOK,
            ThreadType, At, Writing
      <3>3. RequestOf(thread'[c]) = RequestOf(thread[c])
        BY <3>2 DEF RequestOf, Writing
      <3>4. Requested' = Requested /\ AnswerOf' = AnswerOf
        BY <2>0, <3>1, <3>2, <3>3, OwnRequest, RequestedIs DEF AnswerOf
      <3> QED BY <3>1, <3>4 DEF Atomic!vars, AnswerOf
    <2>4. ASSUME NEW c \in Clients, ReadText(c) /\ thread'[c].pc # "create"
          PROVE  Atomic!Apply(c) \/ Atomic!AnswerError(c)
      <3>1. Others(c) /\ UNCHANGED <<file, disk>> /\ thread[c].pc = "read"
        BY <2>0, <2>4 DEF ReadText, Finish, ThreadsOK
      <3>2. Requested[c] = [state |-> "asked", mode |-> thread[c].mode]
        BY <3>1, RequestedIs DEF RequestOf
      <3>3. \/ /\ thread'[c].pc = "flag" /\ thread'[c].mode = thread[c].mode
               /\ thread'[c].reply = thread[c].reply
               /\ SetActiveMode(file, thread[c].mode) = file /\ Loads(file)
            \/ thread'[c] = At("unlock", None, "Error")
        BY <2>0, <2>4 DEF ReadText, Finish, ThreadsOK, ThreadType
      <3>4. /\ Requested' = [Requested EXCEPT ![c] = RequestOf(thread'[c])]
            /\ AnswerOf' = [AnswerOf EXCEPT ![c] = thread'[c].reply]
        BY <2>0, <3>1, OwnRequest
      <3>5. CASE thread'[c].pc = "flag" /\ thread'[c].reply = thread[c].reply
                   /\ thread'[c].mode = thread[c].mode
                   /\ SetActiveMode(file, thread[c].mode) = file /\ Loads(file)
        <4>1. Requested' = [Requested EXCEPT ![c].state = "applied"]
          BY <3>2, <3>4, <3>5, RequestedIs DEF RequestOf
        <4>2. AnswerOf' = AnswerOf
          BY <3>4, <3>5 DEF AnswerOf
        <4>3. disk' = disk \cup {file'}
          BY <3>1 DEF EditInv
        <4>4. /\ Requested[c].state = "asked"
              /\ Loads(SetActiveMode(file, Requested[c].mode))
              /\ file' = SetActiveMode(file, Requested[c].mode)
          BY <3>1, <3>2, <3>5
        <4> QED BY <4>1, <4>2, <4>3, <4>4, SameConfig DEF Atomic!Apply, AnswerOf
      <3>6. CASE thread'[c] = At("unlock", None, "Error")
        <4>1. /\ Requested' = [Requested EXCEPT ![c] = Atomic!NoRequest]
              /\ AnswerOf' = [AnswerOf EXCEPT ![c] = "Error"]
          BY <3>4, <3>6 DEF RequestOf, At, Atomic!NoRequest
        <4> QED BY <3>1, <3>2, <4>1 DEF Atomic!AnswerError, AnswerOf
      <3> QED BY <3>3, <3>5, <3>6
    <2>5. ASSUME NEW c \in Clients, Rename(c) PROVE Atomic!Apply(c)
      <3>1. /\ thread[c].pc = "rename" /\ thread' = [thread EXCEPT ![c].pc = "flag"]
            /\ file' = thread[c].text /\ disk' = disk \cup {thread[c].text}
        BY <2>5 DEF Rename, Goto, Replace, StoreInv, LockInv, TmpIsMine
      <3>2. thread[c].text = SetActiveMode(file, thread[c].mode) /\ Loads(thread[c].text)
        BY <3>1, ConfigsLoad DEF EditInv, StoreInv, LockInv, WholeTexts, Writing
      <3>3. Requested[c] = [state |-> "asked", mode |-> thread[c].mode]
        BY <3>1, RequestedIs DEF RequestOf
      <3>4. /\ Others(c) /\ thread'[c].pc = "flag" /\ thread'[c].mode = thread[c].mode
            /\ thread'[c].reply = thread[c].reply
        BY <2>0, <3>1 DEF ThreadsOK, ThreadType
      <3>5. /\ Requested' = [Requested EXCEPT ![c] = RequestOf(thread'[c])]
            /\ AnswerOf' = [AnswerOf EXCEPT ![c] = thread'[c].reply]
        BY <2>0, <3>4, OwnRequest
      <3>6. Requested' = [Requested EXCEPT ![c].state = "applied"]
        BY <3>3, <3>4, <3>5, RequestedIs DEF RequestOf
      <3>7. AnswerOf' = AnswerOf
        BY <3>4, <3>5 DEF AnswerOf
      <3>8. /\ Requested[c].state = "asked"
            /\ Loads(SetActiveMode(file, Requested[c].mode))
            /\ file' = SetActiveMode(file, Requested[c].mode)
            /\ disk' = disk \cup {file'}
        BY <3>1, <3>2, <3>3
      <3> QED BY <3>6, <3>7, <3>8, SameConfig DEF Atomic!Apply, AnswerOf
    <2>6. ASSUME NEW c \in Clients, StepFails(c) PROVE Atomic!AnswerError(c)
      <3>1. /\ Others(c) /\ UNCHANGED <<file, disk>>
            /\ thread[c].pc \in {"read"} \cup Writing
            /\ thread'[c] = At("unlock", None, "Error")
        BY <2>0, <2>6 DEF StepFails, Finish, ThreadsOK, Writing
      <3>2. Requested[c].state = "asked"
        BY <3>1, RequestedIs DEF RequestOf, Writing
      <3>3. /\ Requested' = [Requested EXCEPT ![c] = Atomic!NoRequest]
            /\ AnswerOf' = [AnswerOf EXCEPT ![c] = "Error"]
        BY <2>0, <3>1, OwnRequest DEF RequestOf, At, Atomic!NoRequest
      <3> QED BY <3>1, <3>2, <3>3 DEF Atomic!AnswerError, AnswerOf
    <2>7. ASSUME NEW c \in Clients, RaiseFlag(c) PROVE Atomic!AnswerModeSet(c)
      <3>1. /\ Others(c) /\ UNCHANGED <<file, disk>> /\ thread[c].pc = "flag"
            /\ thread'[c] = At("unlock", None, "ModeSet")
        BY <2>0, <2>7 DEF RaiseFlag, Finish, ThreadsOK
      <3>2. Requested[c].state = "applied"
        BY <3>1, RequestedIs DEF RequestOf
      <3>3. /\ Requested' = [Requested EXCEPT ![c] = Atomic!NoRequest]
            /\ AnswerOf' = [AnswerOf EXCEPT ![c] = "ModeSet"]
        BY <2>0, <3>1, OwnRequest DEF RequestOf, At, Atomic!NoRequest
      <3> QED BY <3>1, <3>2, <3>3 DEF Atomic!AnswerModeSet, AnswerOf
    <2>8. CASE AskReload \/ StartDaemon \/ StartServer \/ ReaderStep \/ UNCHANGED vars
      <3>1. UNCHANGED <<file, disk, thread>>
        BY <2>8 DEF AskReload, StartDaemon, StartServer, ReaderStep, TakeFlag, LoadFile,
           LoadFails, vars
      <3> QED BY <2>1, <3>1
    <2>9. CASE DaemonDies \/ PowerFailure
      <3>1. thread' = [c \in Clients |-> Idle]
        BY <2>9 DEF DaemonDies, PowerFailure, DaemonEnds
      <3>2. Atomic!Forget
        BY <3>1 DEF Atomic!Forget, Atomic!NoRequest, Requested, Idle, At
      <3>3. Atomic!Die \/ Atomic!PowerFailure
        BY <2>9, <3>2 DEF DaemonDies, PowerFailure, Atomic!Die, Atomic!PowerFailure
      <3> QED BY <3>3 DEF Atomic!Next
    <2>10. CASE Flush
      <3>1. disk' = {file} /\ UNCHANGED <<file, thread>>
        BY <2>10 DEF Flush
      <3> QED BY <3>1 DEF Atomic!Next, Atomic!Flush, Requested
    <2>11. CASE HandEdit
      BY <2>11 DEF HandEdit
    <2> QED
      BY <2>2, <2>3, <2>4, <2>5, <2>6, <2>7, <2>8, <2>9, <2>10, <2>11
      DEF Next, SetModeStep, Atomic!Next
  <1> QED BY <1>1, <1>2, StoreInvariant, EditInvariant, PTL DEF Spec, AtomicSpec, Atomic!Spec
=============================================================================
