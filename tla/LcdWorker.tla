----------------------------- MODULE LcdWorker -----------------------------
(***************************************************************************)
(* The LCD thread (daemon/src/lcd_worker.rs) between the control loop that  *)
(* posts commands to it and the panel it drives (daemon/src/lcd.rs): the    *)
(* draining of the channel, initialisation and its retries, the             *)
(* double-buffered upload, the keep-alive against the firmware's watchdog,  *)
(* and the shutdown handshake; calls to the device that fail, or take       *)
(* effect and seem to fail, an unplugged device, and kills.                 *)
(*                                                                          *)
(* Time advances in Pass, by one unit for everyone.  Only waiting and calls *)
(* to the device take time, before they take effect or before their answer *)
(* is read, and the calls of one command take MaxCall at most: "real        *)
(* responses arrive within milliseconds" (lcd.rs:61-63), but the code's own *)
(* bound is 200 waits of up to 2 s (lcd.rs:166).  A frame is what it shows: *)
(* a source and a whole number of degrees.                                  *)
(***************************************************************************)
EXTENDS Integers, Sequences

CONSTANTS
    None,
    Builtin,       \* the panel's own screen
    Partial,       \* what a bucket holds that was created, until a frame is complete
    Readings,      \* what the control loop may ask to show: a source and a temperature
    Keepalive,     \* KEEPALIVE_INTERVAL
    Watchdog,      \* the firmware's: it takes the panel back after this long
    MaxCall,       \* the longest that the device calls of one command take
    ExitWait,      \* how long shutdown waits for the thread
    Backlog        \* a bound: a cycle posts only when no more commands than this wait

ASSUME LcdAssumption ==
    /\ \A r \in Readings : DOMAIN r = {"source", "temp"} /\ r.temp \in Int \cup {None}
    /\ None \notin Int
    /\ Keepalive \in Nat \ {0} /\ MaxCall \in Nat /\ ExitWait \in Nat /\ Backlog \in Nat
    /\ Watchdog \in Nat /\ Keepalive + 2 * MaxCall < Watchdog

Buckets == {0, 1}

VARIABLES
    main,            \* the control loop: "down", "post", "sleep" or "closing"
    wished,          \* history: the last SetEnabled that it posted
    exit_clock,      \* how long it has been closing
    queue,           \* the channel to the LCD thread
    at,              \* where the LCD thread is
    pending,         \* the command found while draining
    cmd,             \* the command being handled
    stopping,        \* it has left its loop
    want_enabled,
    ctl,             \* the LcdController, of which the active_bucket matters; or None
    smoothed,        \* the smoother's value
    last_source,
    last_rendered,
    job,             \* the upload under way: a frame, and the bucket it goes to
    touched,         \* last_touch.elapsed(), up to Keepalive
    slow,            \* how long the device calls of this command have taken
    dev,             \* the panel on the bus: "ok", "flaky" or "absent"
    handle,          \* the hidraw file that ctl holds is this panel's
    screen,          \* what is on screen: a bucket, or Builtin
    frame,           \* per bucket: None, Partial or a whole frame
    silence          \* time since the panel was last told what to show

control == <<main, wished, exit_clock>>
channel == <<queue, pending>>
worker == <<stopping, want_enabled, ctl, smoothed, last_source, last_rendered, job, touched>>
panel == <<dev, screen, frame, silence>>
vars == <<control, channel, cmd, at, worker, slow, handle, panel>>

Enable(on) == [kind |-> "enable", arg |-> on]
Show(r) == [kind |-> "show", arg |-> r]
Shutdown == [kind |-> "shutdown", arg |-> None]

Command ==
    {Enable(TRUE), Enable(FALSE), Shutdown} \cup {Show(r) : r \in Readings}

\* What a bucket may show, and what the LcdController remembers
Frame == [source : {r.source : r \in Readings}, degrees : Int \cup {None}]
Controller == [active_bucket : Buckets \cup {None}]
Upload == [key : Frame, bucket : Buckets]

\* The markers are none of the values that they stand beside
ASSUME LcdMarkers ==
    /\ Builtin \notin Buckets /\ None # Builtin
    /\ None \notin Command /\ None \notin Frame /\ None \notin Controller /\ None \notin Upload

\* Where the thread talks to the device; at "switched" and "committed" the panel has
\* obeyed, and the answer is still to be read
Uploading == {"prepare", "start", "finish", "switch", "switched"}
Committing == {"commit", "committed"}
Calls == {"query", "builtin", "wipe", "release"} \cup Committing \cup Uploading

FreshWorker ==
    /\ at = "wait" /\ queue = <<>> /\ pending = None /\ cmd = None
    /\ stopping = FALSE /\ want_enabled = FALSE /\ ctl = None
    /\ smoothed = None /\ last_source = None /\ last_rendered = None /\ job = None
    /\ touched = 0 /\ slow = 0 /\ handle = FALSE

Init ==
    /\ main = "down" /\ wished = None /\ exit_clock = 0
    /\ FreshWorker
    /\ dev \in {"ok", "absent"} /\ screen = Builtin
    /\ frame = [b \in Buckets |-> None] /\ silence = 0

-----------------------------------------------------------------------------
(* The control loop's side: LcdHandle.  No send ever blocks.                *)

Post(c) == queue' = Append(queue, c)

\* What waits for the thread: what it found while draining comes first
Arrived == (IF pending = None THEN <<>> ELSE <<pending>>) \o queue

\* spawn, and the first set_enabled
StartMain ==
    /\ main = "down"
    /\ main' = "post"
    /\ \E on \in BOOLEAN : wished' = on /\ Post(Enable(on))
    /\ UNCHANGED <<exit_clock, at, pending, cmd, worker, slow, handle, panel>>

\* A cycle: set_enabled if the config was reloaded, and show
Cycle ==
    /\ main = "post" /\ Len(Arrived) <= Backlog
    /\ main' = "sleep"
    /\ \E r \in Readings :
          \/ Post(Show(r)) /\ UNCHANGED wished
          \/ \E on \in BOOLEAN : wished' = on /\ queue' = queue \o <<Enable(on), Show(r)>>
    /\ UNCHANGED <<exit_clock, at, pending, cmd, worker, slow, handle, panel>>

\* LcdHandle::shutdown
Close ==
    /\ main = "post"
    /\ main' = "closing" /\ exit_clock' = 0
    /\ Post(Shutdown)
    /\ UNCHANGED <<wished, at, pending, cmd, worker, slow, handle, panel>>

\* The thread goes with the process
ProcessEnds ==
    /\ main' = "down" /\ wished' = None /\ exit_clock' = 0
    /\ at' = "wait" /\ queue' = <<>> /\ pending' = None /\ cmd' = None
    /\ stopping' = FALSE /\ want_enabled' = FALSE /\ ctl' = None
    /\ smoothed' = None /\ last_source' = None /\ last_rendered' = None /\ job' = None
    /\ touched' = 0 /\ slow' = 0 /\ handle' = FALSE
    /\ UNCHANGED panel

\* recv_timeout returns: the thread is done, or the wait is over
Exit ==
    /\ main = "closing"
    /\ at = "done" \/ exit_clock = ExitWait
    /\ ProcessEnds

Kill == main # "down" /\ ProcessEnds

-----------------------------------------------------------------------------
(* The loop of Worker::run.                                                 *)

AfterCommand == IF stopping THEN "done" ELSE "wait"

\* The number of Show commands at the front of s
LeadingShows(s) ==
    CHOOSE n \in 0..Len(s) :
        /\ \A i \in 1..n : s[i].kind = "show"
        /\ n < Len(s) => s[n + 1].kind # "show"

\* Mutant: what ends the draining is thrown away
ReceiveDropsOther ==
    LET n == LeadingShows(Arrived)
    IN  /\ main # "down" /\ at = "wait" /\ Arrived # <<>>
        /\ at' = "apply"
        /\ IF n = 0
           THEN cmd' = Head(Arrived) /\ queue' = Tail(Arrived)
           ELSE cmd' = Arrived[n] /\ queue' = SubSeq(Arrived, n + 2, Len(Arrived))
        /\ pending' = None
        /\ UNCHANGED <<control, worker, slow, handle, panel>>

\* The next command; of several Show in a row the newest, and pending is what ends them
Receive ==
    LET n == LeadingShows(Arrived)
    IN  /\ main # "down" /\ at = "wait" /\ Arrived # <<>>
        /\ at' = "apply"
        /\ IF n = 0
           THEN cmd' = Head(Arrived) /\ queue' = Tail(Arrived) /\ pending' = None
           ELSE /\ cmd' = Arrived[n]
                /\ pending' = IF n < Len(Arrived) THEN Arrived[n + 1] ELSE None
                /\ queue' = SubSeq(Arrived, n + 2, Len(Arrived))
        /\ UNCHANGED <<control, worker, slow, handle, panel>>

\* Mutant: the keep-alive does not ask whether there is a controller
TickCommits ==
    /\ main # "down" /\ at = "wait" /\ Arrived = <<>> /\ touched = Keepalive
    /\ touched' = 0
    /\ at' = "commit"
    /\ UNCHANGED <<control, channel, cmd, stopping, want_enabled, ctl, smoothed, last_source,
                   last_rendered, job, slow, handle, panel>>

\* The keep-alive deadline passes with nothing in the channel
Tick ==
    /\ main # "down" /\ at = "wait" /\ Arrived = <<>> /\ touched = Keepalive
    /\ touched' = 0
    /\ at' = IF ctl # None THEN "commit" ELSE IF want_enabled THEN "query" ELSE "wait"
    /\ UNCHANGED <<control, channel, cmd, stopping, want_enabled, ctl, smoothed, last_source,
                   last_rendered, job, slow, handle, panel>>

\* Mutant: the controller is kept when the gauge is switched off
SetEnabledKeepsCtl ==
    /\ at = "apply" /\ cmd.kind \in {"enable", "shutdown"}
    /\ want_enabled' = (cmd = Enable(TRUE))
    /\ stopping' = (cmd = Shutdown)
    /\ at' = IF want_enabled' /\ ctl = None THEN "query"
             ELSE IF stopping' THEN "done" ELSE "wait"
    /\ cmd' = None
    /\ UNCHANGED <<control, channel, ctl, smoothed, last_source, last_rendered, job, touched,
                   slow, handle, panel>>

\* set_enabled; Shutdown leaves the loop and switches off
SetEnabled ==
    /\ at = "apply" /\ cmd.kind \in {"enable", "shutdown"}
    /\ want_enabled' = (cmd = Enable(TRUE))
    /\ stopping' = (cmd = Shutdown)
    /\ at' = IF want_enabled' /\ ctl = None THEN "query"
             ELSE IF ~ want_enabled' /\ ctl # None THEN "release"
             ELSE IF stopping' THEN "done" ELSE "wait"
    /\ cmd' = None
    /\ UNCHANGED <<control, channel, ctl, smoothed, last_source, last_rendered, job, touched,
                   slow, handle, panel>>
-----------------------------------------------------------------------------
(* Calls to the device.  A call to a panel that answers does what it says;  *)
(* otherwise the answer may get lost, before or after the call took effect. *)

\* applied: the panel did it; ok: the thread got an answer that says so
Call(applied, ok) ==
    IF ~ handle THEN ~ applied /\ ~ ok
    ELSE (ok => applied) /\ (dev = "ok" => applied /\ ok)

Live(b) == screen = b

\* The panel is told what to show
ScreenGoesTo(where) == screen' = where /\ silence' = 0

\* try_init: LcdController::init, which gets as far as its first answer or fails
QueryFails ==
    /\ at = "query"
    /\ dev # "ok"
    /\ at' = "wait" /\ slow' = 0
    /\ UNCHANGED <<control, channel, cmd, worker, handle, panel>>

QueryAnswered ==
    /\ at = "query" /\ dev # "absent"
    /\ handle' = TRUE
    /\ at' = "builtin"
    /\ UNCHANGED <<control, channel, cmd, worker, slow, panel>>

\* The switch to the built-in screen; a failure is ignored
SwitchToBuiltin ==
    /\ at = "builtin"
    /\ \E applied, ok \in BOOLEAN :
          /\ Call(applied, ok)
          /\ IF applied THEN ScreenGoesTo(Builtin) ELSE UNCHANGED <<screen, silence>>
    /\ at' = "wipe"
    /\ UNCHANGED <<control, channel, cmd, worker, slow, handle, dev, frame>>

\* Which buckets are deleted: the panel keeps the one on screen, failures are ignored
Wiped ==
    {gone \in SUBSET {b \in Buckets : ~ Live(b)} :
        /\ handle /\ dev = "ok" => gone = {b \in Buckets : ~ Live(b)}
        /\ ~ handle => gone = {}}

NewController(resets) ==
    /\ at = "wipe"
    /\ \E gone \in Wiped : frame' = [b \in Buckets |-> IF b \in gone THEN None ELSE frame[b]]
    /\ ctl' = [active_bucket |-> None]
    /\ resets
    /\ at' = "wait" /\ slow' = 0
    /\ UNCHANGED <<control, channel, cmd, stopping, want_enabled, last_source, job, touched,
                   handle, dev, screen, silence>>

\* Mutant: what was rendered before is not forgotten
InitDoneKeepsRendered == NewController(smoothed' = None /\ UNCHANGED last_rendered)

InitDone == NewController(smoothed' = None /\ last_rendered' = None)

\* An answer may not come, or say no, from a panel that is not well
NoAnswer == ~ handle \/ dev # "ok"

\* Keep-alive: the panel commits the active bucket again, if there is one
Commit ==
    /\ at = "commit" /\ ctl.active_bucket # None
    /\ handle
    /\ ScreenGoesTo(ctl.active_bucket)
    /\ at' = "committed"
    /\ UNCHANGED <<control, channel, cmd, worker, slow, handle, dev, frame>>

CommitDone ==
    /\ \/ at = "commit" /\ ctl.active_bucket = None
       \/ at = "committed" /\ handle
    /\ at' = "wait" /\ slow' = 0
    /\ UNCHANGED <<control, channel, cmd, worker, handle, panel>>

\* The controller is dropped, whether the panel obeyed or not
CommitFails ==
    /\ \/ at = "commit" /\ ctl.active_bucket # None
       \/ at = "committed"
    /\ NoAnswer
    /\ ctl' = None /\ handle' = FALSE
    /\ at' = "wait" /\ slow' = 0
    /\ UNCHANGED <<control, channel, cmd, stopping, want_enabled, smoothed, last_source,
                   last_rendered, job, touched, panel>>

\* release, whose failure is ignored; the controller is dropped
Release ==
    /\ at = "release"
    /\ \E applied, ok \in BOOLEAN :
          /\ Call(applied, ok)
          /\ IF applied THEN ScreenGoesTo(Builtin) ELSE UNCHANGED <<screen, silence>>
    /\ ctl' = None /\ handle' = FALSE
    /\ at' = AfterCommand /\ slow' = 0
    /\ UNCHANGED <<control, channel, cmd, stopping, want_enabled, smoothed, last_source,
                   last_rendered, job, touched, dev, frame>>

-----------------------------------------------------------------------------
(* show.                                                                    *)

(* What Smoother::update may make of a reading.  A moving average, rounded  *)
(* to whole degrees, lies between the last value and the reading.           *)
Smoothed(last, temp) ==
    IF temp = None THEN {None}
    ELSE IF last = None THEN {temp}
    ELSE (last..temp) \cup (temp..last)

NoController ==
    /\ at = "apply" /\ cmd.kind = "show"
    /\ ctl = None
    /\ at' = "wait"
    /\ cmd' = None
    /\ UNCHANGED <<control, channel, worker, slow, handle, panel>>

OtherBucket(b) == IF b = 0 THEN 1 ELSE 0

\* The reading goes through the smoother; then touch says what becomes of last_touch
ShowReading(touch) ==
    LET r == cmd.arg
        last == IF last_source # r.source THEN None ELSE smoothed
    IN  /\ at = "apply" /\ cmd.kind = "show"
        /\ ctl # None
        /\ last_source' = r.source
        /\ \E degrees \in Smoothed(last, r.temp) :
              LET key == [source |-> r.source, degrees |-> degrees]
              IN  /\ smoothed' = degrees
                  /\ IF last_rendered = key
                     THEN at' = "wait" /\ UNCHANGED job
                     ELSE /\ at' = "prepare"
                          /\ job' = [key |-> key, bucket |-> OtherBucket(ctl.active_bucket)]
        /\ touch
        /\ cmd' = None
        /\ UNCHANGED <<control, channel, stopping, want_enabled, ctl, last_rendered, slow,
                       handle, panel>>

\* Mutant: a reading counts as a touch although nothing is sent
ShowTouches == ShowReading(touched' = 0)

\* A frame that is on screen already is not uploaded again
ShowNew == ShowReading(UNCHANGED touched)

\* Any error of upload drops the controller
UploadFails ==
    /\ ctl' = None /\ handle' = FALSE /\ last_rendered' = None /\ job' = None
    /\ at' = "wait" /\ slow' = 0
    /\ UNCHANGED <<control, channel, cmd, stopping, want_enabled, smoothed, last_source, touched,
                   dev>>

UploadGoesOn(to) ==
    /\ at' = to
    /\ UNCHANGED <<control, channel, cmd, worker, slow, handle, dev>>

Target == job.bucket

\* prepare_bucket: a delete, whose failure is ignored, and a create, which the panel
\* refuses while the bucket is on screen or occupied
PrepareBucket ==
    /\ at = "prepare"
    /\ \E deleted, created, ok1, ok2 \in BOOLEAN :
          /\ IF Live(Target) THEN ~ deleted ELSE Call(deleted, ok1)
          /\ IF Live(Target) \/ (frame[Target] # None /\ ~ deleted) THEN ~ created /\ ~ ok2
             ELSE Call(created, ok2)
          /\ frame' = [frame EXCEPT ![Target] =
                          IF created THEN Partial ELSE IF deleted THEN None ELSE @]
          /\ IF ok2 THEN UploadGoesOn("start") ELSE UploadFails
    /\ UNCHANGED <<screen, silence>>

\* Mutant: the transfer is never ended
StartTransferOnly ==
    /\ at = "start"
    /\ \E applied, ok \in BOOLEAN :
          /\ Call(applied, ok)
          /\ frame' = IF applied THEN [frame EXCEPT ![Target] = Partial] ELSE frame
          /\ IF ok THEN UploadGoesOn("switch") ELSE UploadFails
    /\ UNCHANGED <<screen, silence>>

\* A stale transfer is cancelled, the new one started, and the data sent
StartTransfer ==
    /\ at = "start"
    /\ \E applied, ok \in BOOLEAN :
          /\ Call(applied, ok)
          /\ frame' = IF applied THEN [frame EXCEPT ![Target] = Partial] ELSE frame
          /\ IF ok THEN UploadGoesOn("finish") ELSE UploadFails
    /\ UNCHANGED <<screen, silence>>

FinishTransfer ==
    /\ at = "finish"
    /\ \E applied, ok \in BOOLEAN :
          /\ Call(applied, ok)
          /\ frame' = IF applied THEN [frame EXCEPT ![Target] = job.key] ELSE frame
          /\ IF ok THEN UploadGoesOn("switch") ELSE UploadFails
    /\ UNCHANGED <<screen, silence>>

\* switch_to: the frame goes live
SwitchToTarget ==
    /\ at = "switch"
    /\ handle
    /\ ScreenGoesTo(Target)
    /\ UploadGoesOn("switched")
    /\ UNCHANGED frame

\* With the answer it is remembered as active and rendered
SwitchDone ==
    /\ at = "switched" /\ handle
    /\ ctl' = [active_bucket |-> Target]
    /\ last_rendered' = job.key /\ touched' = 0 /\ job' = None
    /\ at' = "wait" /\ slow' = 0
    /\ UNCHANGED <<control, channel, cmd, stopping, want_enabled, smoothed, last_source,
                   handle, panel>>

SwitchFails ==
    /\ at \in {"switch", "switched"}
    /\ NoAnswer
    /\ UploadFails
    /\ UNCHANGED <<screen, frame, silence>>

-----------------------------------------------------------------------------
(* The panel, and time.                                                     *)

GetsFlaky ==
    /\ dev = "ok"
    /\ dev' = "flaky"
    /\ UNCHANGED <<control, channel, cmd, at, worker, slow, handle, screen, frame, silence>>

Unplug ==
    /\ dev # "absent"
    /\ dev' = "absent" /\ handle' = FALSE
    /\ UNCHANGED <<control, channel, cmd, at, worker, slow, screen, frame, silence>>

\* It answers again; after an absence it may have lost everything
Settles ==
    /\ dev # "ok"
    /\ dev' = "ok"
    /\ \/ UNCHANGED <<screen, frame, silence>>
       \/ /\ dev = "absent"
          /\ screen' = Builtin /\ frame' = [b \in Buckets |-> None] /\ silence' = 0
    /\ UNCHANGED <<control, channel, cmd, at, worker, slow, handle>>

\* The firmware takes the panel back when nobody told it what to show for too long
WatchdogCounts ==
    IF screen = Builtin \/ silence + 1 = Watchdog
    THEN screen' = Builtin /\ silence' = 0
    ELSE silence' = silence + 1 /\ UNCHANGED screen

\* A unit of time.  The control loop is in its sleep or in recv_timeout; the thread
\* waits with nothing to do, or for the device, or there is no process.
Pass ==
    /\ main \in {"down", "sleep"} \/ (main = "closing" /\ exit_clock < ExitWait /\ at # "done")
    /\ \/ main = "down" /\ UNCHANGED <<touched, slow>>
       \/ /\ at = "wait" /\ Arrived = <<>> /\ touched < Keepalive
          /\ touched' = touched + 1 /\ UNCHANGED slow
       \/ /\ at \in Calls /\ slow < MaxCall
          /\ slow' = slow + 1
          /\ touched' = IF touched < Keepalive THEN touched + 1 ELSE touched
    /\ main' = IF main = "sleep" THEN "post" ELSE main
    /\ exit_clock' = IF main = "closing" THEN exit_clock + 1 ELSE exit_clock
    /\ WatchdogCounts
    /\ UNCHANGED <<wished, channel, cmd, at, stopping, want_enabled, ctl, smoothed, last_source,
                   last_rendered, job, handle, dev, frame>>

-----------------------------------------------------------------------------
ControlStep == StartMain \/ Cycle \/ Close \/ Exit

Handle == SetEnabled \/ NoController \/ ShowNew

InitStep == QueryFails \/ QueryAnswered \/ SwitchToBuiltin \/ InitDone

CommitStep == Commit \/ CommitDone \/ CommitFails

UploadStep ==
    \/ PrepareBucket \/ StartTransfer \/ FinishTransfer
    \/ SwitchToTarget \/ SwitchDone \/ SwitchFails

WorkerStep == Receive \/ Tick \/ Handle \/ InitStep \/ CommitStep \/ Release \/ UploadStep

Next ==
    \/ ControlStep \/ WorkerStep \/ Kill \/ Pass
    \/ GetsFlaky \/ Unplug \/ Settles

Spec == Init /\ [][Next]_vars

\* The loop and the thread run, and time goes on however often the daemon is killed
Fairness == WF_vars(Cycle \/ Close \/ Exit) /\ WF_vars(WorkerStep) /\ SF_vars(Pass)

FairSpec == Spec /\ Fairness

-----------------------------------------------------------------------------
(* Properties.                                                              *)

ControlOK ==
    /\ main \in {"down", "post", "sleep", "closing"}
    /\ wished \in BOOLEAN \cup {None}
    /\ exit_clock \in 0..ExitWait

ChannelOK ==
    /\ queue \in Seq(Command) /\ pending \in Command \cup {None}
    /\ cmd \in Command \cup {None}

WorkerOK ==
    /\ at \in {"wait", "apply", "done"} \cup Calls
    /\ stopping \in BOOLEAN /\ want_enabled \in BOOLEAN
    /\ ctl \in Controller \cup {None} /\ job \in Upload \cup {None}
    /\ smoothed \in Int \cup {None}
    /\ last_source \in {r.source : r \in Readings} \cup {None}
    /\ last_rendered \in Frame \cup {None}
    /\ touched \in 0..Keepalive /\ slow \in 0..MaxCall

PanelOK ==
    /\ dev \in {"ok", "flaky", "absent"} /\ handle \in BOOLEAN
    /\ screen \in Buckets \cup {Builtin}
    /\ frame \in [Buckets -> {None, Partial} \cup Frame]
    /\ silence \in 0..(Watchdog - 1)

\* Every variable has its type; a command is handled, a frame uploaded, and the panel
\* held or given back only when there is one.
TypeOK ==
    /\ ControlOK /\ ChannelOK /\ WorkerOK /\ PanelOK
    /\ at = "apply" => cmd # None
    /\ at \in Uploading => job # None
    /\ at \in Uploading \cup Committing \cup {"release"} => ctl # None

\* The commands still to be handled, in the order in which they will be
Todo == (IF at = "apply" THEN <<cmd>> ELSE <<>>) \o Arrived

\* What the last of the commands s that switches the gauge asks for, or else told
LastSwitch(s, told) ==
    LET switches == {i \in DOMAIN s : s[i].kind = "enable"}
    IN  IF switches = {} THEN told
        ELSE s[CHOOSE i \in switches : \A j \in switches : j <= i].arg

\* What the thread will want when it has handled them all
LatestWish == LastSwitch(Todo, want_enabled)

(* "A slow upload can let several readings queue up; only the newest is     *)
(* worth rendering.  Anything else found while draining is handled next     *)
(* iteration, in order" (lcd_worker.rs:132-134): draining loses no command  *)
(* but readings that a newer one replaces, and keeps the order.             *)
NoCommandLost ==
    /\ main \in {"post", "sleep"} => LatestWish = wished
    /\ main = "closing" =>
          \/ stopping \/ (at = "apply" /\ cmd = Shutdown)
          \/ \E i \in DOMAIN Arrived : Arrived[i] = Shutdown

(* The thread skips an upload when last_rendered says that the frame is on  *)
(* screen.  It is: the keep-alive is never so late that the firmware takes  *)
(* the panel back from a controller that has it, and what the thread        *)
(* remembers is forgotten whenever the panel may have.  Only between a      *)
(* switch and its answer does it not know yet.                              *)
PanelShowsRendered ==
    ctl # None /\ handle /\ last_rendered # None /\ at # "switched" =>
        /\ screen = ctl.active_bucket
        /\ frame[ctl.active_bucket] = last_rendered

(* "each new frame is uploaded into the bucket that is NOT currently on     *)
(* screen, then the display is switched to it" (lcd.rs:41-43): whatever     *)
(* calls fail, the panel never shows a bucket without a whole frame.        *)
WholeFrameOnScreen == screen \in Buckets => frame[screen] \in Frame

-----------------------------------------------------------------------------
(* Liveness, under FairSpec.                                                *)

(* "retries device init if the Kraken isn't ready yet" (lcd_worker.rs:4-5): *)
(* with the gauge switched on, and a panel that answers from some time on,  *)
(* the gauge comes up and stays, whatever failed before.                    *)
GaugeComesUp ==
    <>[](main \in {"post", "sleep"} /\ wished = TRUE /\ dev = "ok") => <>[](screen \in Buckets)

(* "the keep-alive stopping reverts the panel within ~30s anyway"           *)
(* (lcd_worker.rs:51-53): with the gauge switched off, or the daemon gone,  *)
(* orderly or not, the panel goes back to its own screen.                   *)
PanelHandedBack == <>[](wished # TRUE) => <>[](screen = Builtin)
=============================================================================
