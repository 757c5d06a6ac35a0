------------------------------- MODULE Daemon -------------------------------
(***************************************************************************)
(* The daemon as one program: the main thread and its device (ControlLoop)  *)
(* with the IPC threads and the config file (ConfigStore).  They share      *)
(* config.toml, reload_flag and the config in force, and they live and die  *)
(* together: the socket is served from the end of startup on, and the end   *)
(* of the process, at any point, takes the threads with it.  What one       *)
(* component leaves open is a step of the other here: whoever edits the     *)
(* file or raises the flag for the loop is a client or another program of   *)
(* the store, and the store's reader is the loop.                           *)
(***************************************************************************)
EXTENDS Config

CONSTANTS
    None, Files, Readings, Nodes, MaxAttempts, ReuseNode, AmbiguousErrors,
    Clients, Guis, FirstTexts, SavedTexts, HandTexts, AskedModes, MaxRequests, PowerFails

VARIABLES
    file, reload_flag,                                   \* shared
    pc, running, cfg, base, attempt, temps, failsafe, want, last_duty, failed,
    live, lcd_enabled, dev,                              \* of the loop
    disk, tmp, write_lock, thread, asked, gui, unannounced, \* of the store
    owed    \* history: the mode that a ModeSet promised last, whether a cycle has begun
            \* since, and whether the file could not be read in it

Loop == INSTANCE ControlLoop

\* Mutant: the socket is there before the loop is
DaemonStateEarly ==
    IF pc \in {"down", "load"} THEN "down"
    ELSE IF pc \in Loop!Startup \ {"serve"} THEN "starting" ELSE "serving"

(* When the socket is there: start_server is the last thing of startup      *)
DaemonState ==
    IF pc \in {"down", "load"} THEN "down"
    ELSE IF pc \in Loop!Startup THEN "starting" ELSE "serving"

Store ==
    INSTANCE ConfigStore WITH
        daemon <- DaemonState, loaded <- cfg,
        reader <- IF pc = "reload" THEN "reload" ELSE "top"

loopOnly == <<pc, running, cfg, base, attempt, temps, failsafe, want, last_duty, failed,
              live, lcd_enabled, dev>>
storeOnly == <<disk, tmp, write_lock, thread, asked, gui, unannounced>>
vars == <<file, reload_flag, loopOnly, storeOnly, owed>>

NothingOwed == [mode |-> None, begun |-> FALSE, unread |-> FALSE]

ASSUME DaemonAssumption ==
    /\ Loop!LoopAssumption /\ Store!StoreAssumption
    /\ FirstTexts \cup SavedTexts \cup HandTexts \subseteq Files
    /\ \A t \in Files, m \in AskedModes : SetActiveMode(t, m) \in Files

Init ==
    /\ Loop!Init /\ Store!Init
    /\ owed = NothingOwed

-----------------------------------------------------------------------------
\* Mutant: the threads of a process that ended go on
ThreadsOutlive == UNCHANGED <<thread, write_lock>>

\* The threads go with the process, and the mutex that one of them held
ThreadsEnd ==
    IF pc' = "down"
    THEN thread' = [c \in Clients |-> Store!Idle] /\ write_lock' = None
    ELSE UNCHANGED <<thread, write_lock>>

\* The file that is there has been read and taken
TakesFile == Loop!LoadConfig \/ Loop!Reload

\* A reload ends without the file that is there
LeavesFile == Loop!ReloadFails /\ ~ TakesFile

\* A cycle begins: the loop has looked at the flag
CycleBegins == pc = "top" /\ pc' \in {"reload", "sense"}

\* What a step of the loop means for the rest
WithThreads ==
    /\ ThreadsEnd
    /\ unannounced' = (~ TakesFile /\ (unannounced \/ LeavesFile))
    /\ owed' = IF pc' = "down" THEN NothingOwed
               ELSE IF CycleBegins THEN [owed EXCEPT !.begun = (owed.mode # None)]
               ELSE IF TakesFile THEN [owed EXCEPT !.unread = FALSE]
               ELSE IF LeavesFile THEN [owed EXCEPT !.unread = owed.begun]
               ELSE owed
    /\ UNCHANGED <<disk, tmp, asked, gui>>

MainThread == Loop!MainThread /\ WithThreads

Signals == Loop!Signals /\ WithThreads

\* The answer ModeSet of c, while the file still says so and is one that loads
Promises(c) ==
    /\ thread[c].pc = "flag" /\ thread'[c].pc = "unlock"
    /\ Loads(file) /\ file.mode = thread[c].mode

\* What a step of c's thread means for the rest
WithLoop(c) ==
    owed' = IF Promises(c)
            THEN [mode |-> thread[c].mode, begun |-> FALSE, unread |-> FALSE]
            ELSE IF file' # file THEN NothingOwed
            ELSE owed

Asks(c) == UNCHANGED loopOnly /\ Store!AskSetMode(c) /\ WithLoop(c)

IsServed(c) == UNCHANGED loopOnly /\ Store!SetModeStep(c) /\ WithLoop(c)

OtherPrograms ==
    /\ UNCHANGED loopOnly
    /\ (\E g \in Guis : Store!GuiStep(g)) \/ Store!HandEdit \/ Store!AskReload
    /\ owed' = IF file' # file THEN NothingOwed ELSE owed

Device == Loop!DeviceStep /\ UNCHANGED <<storeOnly, owed>>

Next ==
    \/ MainThread \/ Signals \/ Device
    \/ \E c \in Clients : Asks(c) \/ IsServed(c)
    \/ OtherPrograms

Spec == Init /\ [][Next]_vars

\* The scheduler runs each thread, and a write to the device that is tried again and
\* again succeeds in the end
Fairness ==
    /\ WF_vars(MainThread)
    /\ \A ch \in Channels : SF_vars(Loop!WriteOk(ch) /\ WithThreads)
    /\ \A c \in Clients : WF_vars(IsServed(c))

FairSpec == Spec /\ Fairness

-----------------------------------------------------------------------------
(* Properties.                                                              *)

(* The loop, among the threads and programs that edit its file and raise    *)
(* its flag, is the one that ControlLoop is checked and proved about.       *)
ImplementsLoop == Loop!Spec

(* The store, with the loop as its reader and with the loop's startup and   *)
(* ends as the daemon's, is the one that ConfigStore is checked and proved  *)
(* about.                                                                   *)
ImplementsStore == Store!Spec

(* "SetMode accepted: config written, reload queued (applied on the control *)
(* loop's next iteration" (common/src/ipc.rs:57-60): in the first cycle     *)
(* that begins after the answer, and while nobody changes the file again,   *)
(* GetState shows the mode, and if it is Performance, each channel whose    *)
(* write did not fail runs at full speed.  Only a cycle that cannot read    *)
(* the file leaves the mode as it was.                                      *)
ModeSetApplied ==
    pc = "show" /\ owed.begun /\ ~ owed.unread =>
        /\ live.active_mode = owed.mode
        /\ owed.mode = "Performance" /\ Loop!Attached =>
              \A ch \in Channels \ failed : dev.pwm[ch] = 255

-----------------------------------------------------------------------------
(* Liveness, under FairSpec.                                                *)

\* Startup ends: in the loop or with the process (it waits for no device forever).
StartupEnds == []<>(Loop!InLoop \/ pc = "down")

\* A reload that was asked for is attempted, unless the process ends.
ReloadAttempted == []<> ~ reload_flag

\* A SIGINT ends the process, however many requests, reloads and failures come in between
\* (before the config is loaded there is no handler, and SIGINT kills).
InterruptEnds == []<>(running \/ pc \in {"down", "load"})

(* If the loop runs on with the device there, and every reading is at the   *)
(* ceiling from some time on, then both channels reach full speed and stay  *)
(* there: a failed write of 100% is tried again, never taken for done,      *)
(* whatever modes the clients set meanwhile.                                *)
HotEventuallyFull ==
    <>[](Loop!InLoop /\ Loop!Attached /\ (pc \in Loop!Decided => Loop!Hot))
        => <>[](\A ch \in Channels : dev.pwm[ch] = 255)
=============================================================================
