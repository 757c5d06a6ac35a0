---------------------------- MODULE ConfigStore ----------------------------
(***************************************************************************)
(* config.toml between its writers and its reader.  The IPC threads of the *)
(* daemon (daemon/src/ipc.rs) serve SetMode by a read, an edit and a rename *)
(* under a lock; GUI processes (gui/src/config.rs) save a whole config by a *)
(* rename, without that lock; a user edits the file by hand; the main       *)
(* thread (daemon/src/main.rs) rereads it when reload_flag is up.  Both     *)
(* programs may be killed between any two system calls, and the power may   *)
(* fail.                                                                    *)
(***************************************************************************)
EXTENDS Config

CONSTANTS
    None,
    Clients,      \* IPC connections, each served by a thread of its own
    Guis,         \* GUI processes
    FirstTexts,   \* what the file may say at first
    SavedTexts,   \* the configs a GUI may save
    HandTexts,    \* what a user may write by hand
    AskedModes,   \* the modes clients ask for
    MaxRequests,  \* bound on the SetMode requests of a client
    PowerFails    \* may the power fail?

ASSUME StoreAssumption ==
    /\ FirstTexts \cup HandTexts \subseteq ConfigType \cup {Unparsable}
    /\ \A t \in FirstTexts : Loads(t)
    /\ SavedTexts \subseteq ConfigType
    /\ AskedModes \subseteq Modes
    /\ MaxRequests \in Nat
    /\ PowerFails \in BOOLEAN
    /\ None \notin Clients /\ None \notin Modes /\ None \notin ConfigType
    /\ Unparsable # None

VARIABLES
    file,          \* what a read of config.toml returns
    disk,          \* what it may return after a power failure (tracked if PowerFails)
    tmp,           \* config.toml.tmp: its text and whether it is synced; or None
    write_lock,    \* the thread that holds ConfigCtx::write_lock, or None
    thread,        \* the threads of handle_client
    asked,         \* bound: SetMode requests made by each client
    gui,           \* the GUI processes, and the text each is saving
    daemon,        \* "down", "starting" (no socket yet) or "serving"
    reload_flag,
    reader,        \* the main thread: "top", or "reload" once it took the flag
    loaded,        \* the text of the config in force
    unannounced    \* history: since the file last changed, or a reload of it last failed,
                   \* nobody asked for a reload (yet)

store == <<file, disk>>
ipc == <<tmp, write_lock, thread, asked>>
main == <<daemon, reload_flag, reader, loaded>>
vars == <<store, ipc, gui, main, unannounced>>

\* A thread that has no text in hand
At(pc, mode, reply) == [pc |-> pc, mode |-> mode, text |-> None, reply |-> reply]

Idle == At("idle", None, None)

GuiIdle == [pc |-> "idle", text |-> None]

Init ==
    /\ file \in FirstTexts /\ disk = {file}
    /\ tmp = None /\ write_lock = None
    /\ thread = [c \in Clients |-> Idle] /\ asked = [c \in Clients |-> 0]
    /\ gui = [g \in Guis |-> GuiIdle]
    /\ daemon = "down" /\ reload_flag = FALSE /\ reader = "top" /\ loaded = None
    /\ unannounced = FALSE

-----------------------------------------------------------------------------
(* SetMode: write_active_mode, step by step, under the lock.                *)

\* Thread c moves on from pc, and nothing but its own record changes in it
Goto(c, from, to) ==
    /\ thread[c].pc = from
    /\ thread' = [thread EXCEPT ![c].pc = to]

\* Thread c goes to release the lock, with the answer r
Finish(c, r) == thread' = [thread EXCEPT ![c] = At("unlock", None, r)]

AskSetMode(c) ==
    /\ daemon = "serving" /\ thread[c].pc = "idle"
    /\ asked[c] < MaxRequests
    /\ asked' = [asked EXCEPT ![c] = @ + 1]
    /\ \E m \in AskedModes : thread' = [thread EXCEPT ![c] = At("lock", m, None)]
    /\ UNCHANGED <<store, tmp, write_lock, gui, main, unannounced>>

\* Mutant: the lock is not waited for
LockNotTaken(c) ==
    /\ Goto(c, "lock", "read")
    /\ UNCHANGED <<store, tmp, write_lock, asked, gui, main, unannounced>>

Lock(c) ==
    /\ write_lock = None
    /\ write_lock' = c
    /\ Goto(c, "lock", "read")
    /\ UNCHANGED <<store, tmp, asked, gui, main, unannounced>>

\* The text may differ where what it says does not: a file need not name its mode
ReadText(c) ==
    LET new == SetActiveMode(file, thread[c].mode)
    IN  /\ thread[c].pc = "read"
        /\ \/ /\ Loads(new)
              /\ thread' = [thread EXCEPT ![c].pc = "create", ![c].text = new]
           \/ /\ Loads(new) /\ new = file
              /\ thread' = [thread EXCEPT ![c].pc = "flag"]
           \/ ~ Loads(new) /\ Finish(c, "Error")
        /\ UNCHANGED <<store, tmp, write_lock, asked, gui, main, unannounced>>

\* File::create truncates what an earlier failure may have left
CreateTmp(c) ==
    /\ Goto(c, "create", "fill")
    /\ tmp' = [text |-> Unparsable, synced |-> FALSE]
    /\ UNCHANGED <<store, write_lock, asked, gui, main, unannounced>>

FillTmp(c) ==
    /\ Goto(c, "fill", "sync")
    /\ tmp' = [text |-> thread[c].text, synced |-> FALSE]
    /\ UNCHANGED <<store, write_lock, asked, gui, main, unannounced>>

\* Mutant: sync_all is left out
SyncTmpSkipped(c) ==
    /\ Goto(c, "sync", "rename")
    /\ UNCHANGED <<store, tmp, write_lock, asked, gui, main, unannounced>>

SyncTmp(c) ==
    /\ Goto(c, "sync", "rename")
    /\ tmp' = [tmp EXCEPT !.synced = TRUE]
    /\ UNCHANGED <<store, write_lock, asked, gui, main, unannounced>>

\* The file is replaced by one with this text.  Until it is flushed a power failure may
\* bring the old one back, or an empty one if the text was not synced before the rename.
Replace(text, synced) ==
    /\ file' = text
    /\ disk' = IF PowerFails THEN disk \cup {text} \cup (IF synced THEN {} ELSE {Unparsable})
               ELSE {text}

Rename(c) ==
    /\ Goto(c, "rename", "flag")
    /\ Replace(tmp.text, tmp.synced)
    /\ tmp' = None
    /\ unannounced' = TRUE
    /\ UNCHANGED <<write_lock, asked, gui, main>>

\* Any of the calls above fails (at "read" also the edit of a `mode` that is no table,
\* at "rename" also set_permissions); config.toml.tmp is left as it is
StepFails(c) ==
    /\ thread[c].pc \in {"read", "create", "fill", "sync", "rename"}
    /\ Finish(c, "Error")
    /\ UNCHANGED <<store, tmp, write_lock, asked, gui, main, unannounced>>

RaiseFlag(c) ==
    /\ thread[c].pc = "flag"
    /\ reload_flag' = TRUE
    /\ unannounced' = FALSE
    /\ Finish(c, "ModeSet")
    /\ UNCHANGED <<store, tmp, write_lock, asked, gui, daemon, reader, loaded>>

\* Mutant: the lock is kept after the reply
UnlockForgotten(c) ==
    /\ Goto(c, "unlock", "idle")
    /\ UNCHANGED <<store, tmp, write_lock, asked, gui, main, unannounced>>

\* The guard is dropped, and the reply is written
Unlock(c) ==
    /\ Goto(c, "unlock", "idle")
    /\ write_lock' = None
    /\ UNCHANGED <<store, tmp, asked, gui, main, unannounced>>

\* ReloadConfig, from any client
AskReload ==
    /\ daemon = "serving"
    /\ reload_flag' = TRUE
    /\ unannounced' = FALSE
    /\ UNCHANGED <<store, ipc, gui, daemon, reader, loaded>>

-----------------------------------------------------------------------------
(* A GUI's save: validate, write_atomically to a file named after its pid,  *)
(* and ReloadConfig over the socket.                                        *)

GuiSave(g) ==
    /\ gui[g].pc = "idle"
    /\ \E t \in SavedTexts :
          /\ ValidConfig(t)
          /\ gui' = [gui EXCEPT ![g] = [pc |-> "write", text |-> t]]
    /\ UNCHANGED <<store, ipc, main, unannounced>>

GuiWrite(g) ==
    /\ gui[g].pc = "write"
    /\ gui' = [gui EXCEPT ![g].pc = "rename"]
    /\ UNCHANGED <<store, ipc, main, unannounced>>

\* Nothing syncs the text before the rename
GuiRename(g) ==
    /\ gui[g].pc = "rename"
    /\ gui' = [gui EXCEPT ![g].pc = "announce"]
    /\ Replace(gui[g].text, FALSE)
    /\ unannounced' = TRUE
    /\ UNCHANGED <<ipc, main>>

GuiAnnounce(g) ==
    /\ gui[g].pc = "announce" /\ daemon = "serving"
    /\ gui' = [gui EXCEPT ![g] = GuiIdle]
    /\ reload_flag' = TRUE
    /\ unannounced' = FALSE
    /\ UNCHANGED <<store, ipc, daemon, reader, loaded>>

\* A write fails, the socket does not answer, or the GUI is killed
GuiGivesUp(g) ==
    /\ gui[g].pc # "idle"
    /\ gui' = [gui EXCEPT ![g] = GuiIdle]
    /\ UNCHANGED <<store, ipc, main, unannounced>>

\* A user saves the file from an editor
HandEdit ==
    /\ \E t \in HandTexts : Replace(t, TRUE)
    /\ unannounced' = TRUE
    /\ UNCHANGED <<ipc, gui, main>>

-----------------------------------------------------------------------------
(* The main thread, and what ends processes.                                *)

\* The config is loaded long before the socket exists: discovery comes in between
StartDaemon ==
    /\ daemon = "down" /\ Loads(file)
    /\ daemon' = "starting" /\ loaded' = file
    /\ unannounced' = FALSE
    /\ UNCHANGED <<store, ipc, gui, reload_flag, reader>>

StartServer ==
    /\ daemon = "starting"
    /\ daemon' = "serving"
    /\ UNCHANGED <<store, ipc, gui, reload_flag, reader, loaded, unannounced>>

TakeFlag ==
    /\ daemon = "serving" /\ reader = "top" /\ reload_flag
    /\ reload_flag' = FALSE
    /\ reader' = "reload"
    /\ UNCHANGED <<store, ipc, gui, daemon, loaded, unannounced>>

\* Mutant: the file is applied without being validated
LoadFileUnchecked ==
    /\ reader = "reload"
    /\ reader' = "top" /\ loaded' = file /\ unannounced' = FALSE
    /\ UNCHANGED <<store, ipc, gui, daemon, reload_flag>>

LoadFile ==
    /\ reader = "reload" /\ Loads(file)
    /\ reader' = "top" /\ loaded' = file /\ unannounced' = FALSE
    /\ UNCHANGED <<store, ipc, gui, daemon, reload_flag>>

\* The file is refused, or this once it cannot be read; the request is used up
LoadFails ==
    /\ reader = "reload"
    /\ reader' = "top" /\ unannounced' = TRUE
    /\ UNCHANGED <<store, ipc, gui, daemon, reload_flag, loaded>>

\* The threads go with the process; config.toml.tmp stays
DaemonEnds ==
    /\ daemon' = "down" /\ reload_flag' = FALSE /\ reader' = "top" /\ loaded' = None
    /\ write_lock' = None
    /\ thread' = [c \in Clients |-> Idle]
    /\ UNCHANGED asked

DaemonDies ==
    /\ daemon # "down"
    /\ DaemonEnds
    /\ UNCHANGED <<store, tmp, gui, unannounced>>

\* The kernel gets round to writing the directory and the file out
Flush ==
    /\ disk # {file}
    /\ disk' = {file}
    /\ UNCHANGED <<file, ipc, gui, main, unannounced>>

PowerFailure ==
    /\ PowerFails
    /\ file' \in disk /\ disk' = {file'}
    /\ tmp' = None
    /\ DaemonEnds
    /\ gui' = [g \in Guis |-> GuiIdle]
    /\ UNCHANGED unannounced

-----------------------------------------------------------------------------
SetModeStep(c) ==
    \/ Lock(c) \/ ReadText(c) \/ CreateTmp(c) \/ FillTmp(c) \/ SyncTmp(c) \/ Rename(c)
    \/ StepFails(c) \/ RaiseFlag(c) \/ Unlock(c)

GuiStep(g) ==
    \/ GuiSave(g) \/ GuiWrite(g) \/ GuiRename(g) \/ GuiAnnounce(g) \/ GuiGivesUp(g)

\* Mutant: the file is read before the flag is cleared, not after
ReaderStepLoadsFirst ==
    /\ \/ /\ daemon = "serving" /\ reader = "top" /\ reload_flag
          /\ reader' = "reload" /\ UNCHANGED reload_flag
          /\ \/ Loads(file) /\ loaded' = file /\ unannounced' = FALSE
             \/ unannounced' = TRUE /\ UNCHANGED loaded
       \/ /\ reader = "reload"
          /\ reader' = "top" /\ reload_flag' = FALSE /\ UNCHANGED <<loaded, unannounced>>
    /\ UNCHANGED <<store, ipc, gui, daemon>>

ReaderStep == TakeFlag \/ LoadFile \/ LoadFails

Next ==
    \/ \E c \in Clients : AskSetMode(c) \/ SetModeStep(c)
    \/ \E g \in Guis : GuiStep(g)
    \/ AskReload \/ HandEdit
    \/ StartDaemon \/ StartServer \/ ReaderStep \/ DaemonDies
    \/ Flush \/ PowerFailure

Spec == Init /\ [][Next]_vars

\* Each thread of the daemon is scheduled.  The lock is not asked to be fair: the
\* requests are finitely many.
Fairness == WF_vars(ReaderStep) /\ \A c \in Clients : WF_vars(SetModeStep(c))

FairSpec == Spec /\ Fairness

-----------------------------------------------------------------------------
(* Properties.                                                              *)

Texts == ConfigType \cup {Unparsable}

SetModePcs ==
    {"idle", "lock", "read", "create", "fill", "sync", "rename", "flag", "unlock"}

\* Every variable has its type; the config in force is one that validates.
TypeOK ==
    /\ file \in Texts /\ disk \subseteq Texts
    /\ tmp = None \/ tmp \in [text : Texts, synced : BOOLEAN]
    /\ write_lock \in Clients \cup {None}
    /\ thread \in [Clients -> [pc : SetModePcs, mode : Modes \cup {None},
                               text : ConfigType \cup {None},
                               reply : {None, "ModeSet", "Error"}]]
    /\ asked \in [Clients -> 0..MaxRequests]
    /\ gui \in [Guis -> [pc : {"idle", "write", "rename", "announce"},
                         text : ConfigType \cup {None}]]
    /\ daemon \in {"down", "starting", "serving"}
    /\ reload_flag \in BOOLEAN /\ unannounced \in BOOLEAN
    /\ reader \in {"top", "reload"}
    /\ loaded = None \/ (loaded \in ConfigType /\ ValidConfig(loaded))

(* "a crash never leaves a half-written config" (daemon/src/ipc.rs:106-107, *)
(* gui/src/config.rs:43-44): however SetMode requests, saves and kills      *)
(* interleave, what the programs put in place of config.toml is a whole     *)
(* config that the daemon loads.  Only a user's own edit can be refused.    *)
FileAlwaysWhole == Loads(file) \/ file \in HandTexts

(* "GUI writes config.toml directly, then asks the daemon to pick up the    *)
(* change" (common/src/ipc.rs:41-43): the flag is taken before the file is  *)
(* read, so no request is lost.  When the config in force is not what the   *)
(* file says, a reload is still to come, or nobody asked for one since the  *)
(* file changed or a reload failed.                                         *)
ReloadNeverLost ==
    daemon = "serving" /\ loaded # file => reload_flag \/ reader = "reload" \/ unannounced

(* ConfigCtx::write_lock: "two SetMode requests never interleave their      *)
(* read-modify-write": between its read and its rename a thread owns        *)
(* config.toml.tmp, and what it is about to rename is what it wrote.        *)
TmpOwned ==
    \A c \in Clients :
        thread[c].pc = "rename" => tmp = [text |-> thread[c].text, synced |-> TRUE]

(* "edits only `[mode] active`" (common/src/ipc.rs:47): the rename of a     *)
(* SetMode changes nothing else in the file that it replaces.               *)
SetModeKeepsRest ==
    [][\A c \in Clients :
          thread[c].pc = "rename" /\ thread'[c].pc = "flag"
              => file' = SetActiveMode(file, thread[c].mode)]_vars

(* After a power failure the file is a config that was once in place, never *)
(* a truncated one: the text is synced before the rename.                   *)
DiskAlwaysWhole == \A t \in disk : Loads(t)

-----------------------------------------------------------------------------
(* Refinement.  A request is asked until its thread is past the rename (or  *)
(* has found the mode set already), and is done when the lock is released   *)
(* with its answer.                                                         *)

Requested ==
    [c \in Clients |->
        IF thread[c].pc \in {"idle", "unlock"} THEN [state |-> "none", mode |-> None]
        ELSE [state |-> IF thread[c].pc = "flag" THEN "applied" ELSE "asked",
              mode  |-> thread[c].mode]]

Atomic ==
    INSTANCE AtomicConfig WITH
        past <- disk, request <- Requested, answer <- [c \in Clients |-> thread[c].reply]

(* SetMode is atomic and exact: without other writers of the file, what the *)
(* threads, the lock, the temporary file, the rename and the failures of    *)
(* each of them come to is AtomicConfig.                                    *)
AtomicSpec == Atomic!Spec

-----------------------------------------------------------------------------
(* Liveness, under FairSpec.                                                *)

\* Every SetMode request is answered, also when steps of it fail, or dies with the daemon.
RequestAnswered == \A c \in Clients : thread[c].pc # "idle" ~> thread[c].pc = "idle"

(* The config in force catches up with the file, unless nobody asks for a   *)
(* reload, or a reload fails and nobody asks again, or the daemon ends.     *)
LoadedCatchesUp ==
    (daemon = "serving" /\ loaded # file)
        ~> (daemon = "down" \/ loaded = file \/ unannounced)
=============================================================================
