--------------------------- MODULE LcdWorkerProofs ---------------------------
(***************************************************************************)
(* Proofs about the LCD thread and its panel, for any readings, intervals  *)
(* and backlog that LcdAssumption allows.                                  *)
(***************************************************************************)
EXTENDS LcdWorker, NatLemmas, SequenceTheorems

-----------------------------------------------------------------------------
(* Sequences of commands.                                                   *)

(* LeadingShows counts the readings that Worker::run drains at the front of *)
(* the channel: they are Show commands, and what ends them is not.          *)
LEMMA LeadingShowsCounts ==
    ASSUME NEW s \in Seq(Command)
    PROVE  /\ LeadingShows(s) \in 0..Len(s)
           /\ \A i \in 1..LeadingShows(s) : s[i].kind = "show"
           /\ LeadingShows(s) < Len(s) => s[LeadingShows(s) + 1].kind # "show"
<1> DEFINE ends == {n \in 0..Len(s) : n < Len(s) => s[n + 1].kind # "show"}
<1>1. Len(s) \in Nat
  OBVIOUS
<1>2. ends \in SUBSET Nat /\ Len(s) \in ends
  BY <1>1
<1>3. PICK n \in ends : \A m \in ends : n <= m
  BY <1>2, LeastElement
<1>4. n \in 0..Len(s) /\ (n < Len(s) => s[n + 1].kind # "show")
  OBVIOUS
<1>5. ASSUME NEW i \in 1..n PROVE s[i].kind = "show"
  <2>1. i - 1 \in 0..Len(s) /\ i - 1 < n /\ i - 1 < Len(s) /\ (i - 1) + 1 = i
    BY <1>1, <1>4
  <2>2. i - 1 \notin ends
    BY <1>3, <1>4, <2>1
  <2> QED BY <2>1, <2>2
<1> QED
  BY <1>4, <1>5 DEF LeadingShows

LEMMA CommandShape ==
    ASSUME NEW c \in Command
    PROVE  /\ c.kind \in {"enable", "show", "shutdown"}
           /\ c.kind = "enable" => c.arg \in BOOLEAN /\ (c = Enable(TRUE) <=> c.arg = TRUE)
           /\ c.kind = "show" => c.arg \in Readings
           /\ c.kind = "shutdown" <=> c = Shutdown
           /\ c # None
<1> USE DEF Command, Enable, Show, Shutdown
<1>1. c # None
  BY LcdMarkers
<1>2. CASE c \in {Enable(TRUE), Enable(FALSE), Shutdown}
  <2>1. c = Enable(TRUE) \/ c = Enable(FALSE) \/ c = Shutdown
    BY <1>2
  <2>2. c.kind = "enable" \/ c = Shutdown
    BY <2>1
  <2>3. c.kind = "enable" => c.arg \in BOOLEAN /\ (c = Enable(TRUE) <=> c.arg = TRUE)
    <3>1. CASE c = Enable(TRUE)
      BY <3>1
    <3>2. CASE c = Enable(FALSE)
      <4>1. c.arg = FALSE
        BY <3>2
      <4>2. c # Enable(TRUE)
        BY <3>2
      <4> QED BY <4>1, <4>2
    <3>3. CASE c = Shutdown
      BY <3>3
    <3> QED BY <2>1, <3>1, <3>2, <3>3
  <2>4. c.kind # "show"
    BY <2>1
  <2>5. c = Shutdown => c.kind = "shutdown"
    BY <2>1
  <2> QED BY <1>1, <2>2, <2>3, <2>4, <2>5
<1>3. CASE c \in {Show(r) : r \in Readings}
  BY <1>1, <1>3
<1> QED
  BY <1>2, <1>3

LEMMA ArrivedType == ChannelOK => Arrived \in Seq(Command)
BY DEF ChannelOK, Arrived

-----------------------------------------------------------------------------
(* Types, one part of TypeOK after the other.                               *)

LEMMA InitType == Init => TypeOK
<1> SUFFICES ASSUME Init PROVE TypeOK
  OBVIOUS
<1> USE LcdAssumption DEF Init, FreshWorker
<1>1. ControlOK
  BY DEF ControlOK
<1>2. ChannelOK
  BY DEF ChannelOK
<1>3. WorkerOK
  <2>1. touched \in 0..Keepalive /\ slow \in 0..MaxCall
    OBVIOUS
  <2>2. stopping \in BOOLEAN /\ want_enabled \in BOOLEAN
    OBVIOUS
  <2> QED BY <2>1, <2>2 DEF WorkerOK
<1>4. PanelOK
  <2>1. MaxCall + MaxCall \in Nat /\ Keepalive + (MaxCall + MaxCall) < Watchdog
    OBVIOUS
  <2>2. 0 \in 0..(Watchdog - 1)
    BY <2>1
  <2> QED BY <2>2 DEF PanelOK, Buckets
<1> QED
  BY <1>1, <1>2, <1>3, <1>4 DEF TypeOK, Uploading, Committing

LEMMA ControlType == TypeOK /\ [Next]_vars => ControlOK'
<1> SUFFICES ASSUME ControlOK, [Next]_vars PROVE ControlOK'
  BY DEF TypeOK
<1> USE LcdAssumption DEF ControlOK
<1>1. CASE StartMain \/ Cycle
  <2>1. wished' \in BOOLEAN \/ UNCHANGED wished
    BY <1>1 DEF StartMain, Cycle
  <2>2. main' \in {"post", "sleep"} /\ UNCHANGED exit_clock
    BY <1>1 DEF StartMain, Cycle
  <2> QED BY <2>1, <2>2
<1>2. CASE Close \/ ProcessEnds
  BY <1>2 DEF Close, ProcessEnds
<1>3. CASE Pass
  <2>1. main' \in {"down", "post", "sleep", "closing"} /\ UNCHANGED wished
    BY <1>3 DEF Pass
  <2>2. main = "closing" => exit_clock < ExitWait
    BY <1>3 DEF Pass
  <2>3. exit_clock' = IF main = "closing" THEN exit_clock + 1 ELSE exit_clock
    BY <1>3 DEF Pass
  <2>4. exit_clock' \in 0..ExitWait
    BY <2>2, <2>3
  <2> QED BY <2>1, <2>4
<1>4. CASE UNCHANGED control
  BY <1>4 DEF control
<1>5. WorkerStep \/ GetsFlaky \/ Unplug \/ Settles \/ UNCHANGED vars => UNCHANGED control
  BY DEF vars, WorkerStep, Receive, Tick, Handle, SetEnabled, NoController, ShowNew, ShowReading,
         InitStep, QueryFails, QueryAnswered, SwitchToBuiltin, InitDone, NewController,
         CommitStep, Commit, CommitDone, CommitFails, Release, UploadStep, PrepareBucket,
         StartTransfer, FinishTransfer, SwitchToTarget, SwitchDone, SwitchFails, UploadFails,
         UploadGoesOn, GetsFlaky, Unplug, Settles
<1> QED
  BY <1>1, <1>2, <1>3, <1>4, <1>5 DEF Next, ControlStep, Exit, Kill

(* Receive hands over, leaves pending and leaves in the channel nothing but *)
(* commands that were there.                                                *)
LEMMA ReceiveType ==
    ASSUME ChannelOK, Receive
    PROVE  ChannelOK' /\ cmd' \in Command /\ at' = "apply"
<1> DEFINE n == LeadingShows(Arrived)
<1>1. Arrived \in Seq(Command) /\ Arrived # <<>> /\ at' = "apply"
  BY ArrivedType DEF Receive
<1>2. n \in 0..Len(Arrived) /\ Len(Arrived) \in Nat
  BY <1>1, LeadingShowsCounts
<1>3. \A i \in 1..Len(Arrived) : Arrived[i] \in Command
  BY <1>1
<1>4. CASE n = 0
  <2>1. cmd' = Head(Arrived) /\ queue' = Tail(Arrived) /\ pending' = None
    BY <1>4 DEF Receive
  <2> QED BY <1>1, <2>1, HeadTailProperties DEF ChannelOK
<1>5. CASE n # 0
  <2>1. /\ cmd' = Arrived[n]
        /\ pending' = IF n < Len(Arrived) THEN Arrived[n + 1] ELSE None
        /\ queue' = SubSeq(Arrived, n + 2, Len(Arrived))
    BY <1>5 DEF Receive
  <2>2. cmd' \in Command /\ pending' \in Command \cup {None}
    BY <1>2, <1>3, <1>5, <2>1
  <2>3. SubSeq(Arrived, n + 2, Len(Arrived)) \in Seq(Command)
    BY <1>2, <1>3, SubSeqProperties
  <2> QED BY <1>1, <2>1, <2>2, <2>3 DEF ChannelOK
<1> QED
  BY <1>4, <1>5

LEMMA ChannelType == TypeOK /\ [Next]_vars => ChannelOK'
<1> SUFFICES ASSUME ChannelOK, [Next]_vars PROVE ChannelOK'
  BY DEF TypeOK
<1>1. CASE StartMain \/ Cycle \/ Close
  <2>1. \A on \in BOOLEAN : Enable(on) \in Command
    BY DEF Command
  <2>2. Shutdown \in Command /\ \A r \in Readings : Show(r) \in Command
    BY DEF Command
  <2>3. \A c, d \in Command :
           Append(queue, c) \in Seq(Command) /\ queue \o <<c, d>> \in Seq(Command)
    BY DEF ChannelOK
  <2>4. UNCHANGED <<pending, cmd>> /\ queue' \in Seq(Command)
    BY <1>1, <2>1, <2>2, <2>3 DEF StartMain, Cycle, Close, Post
  <2> QED BY <2>4 DEF ChannelOK
<1>2. CASE ProcessEnds
  BY <1>2 DEF ProcessEnds, ChannelOK
<1>3. CASE Receive
  BY <1>3, ReceiveType
<1>4. CASE UNCHANGED channel /\ cmd' \in {cmd, None}
  BY <1>4 DEF channel, ChannelOK
<1>5. CASE Exit \/ Kill
  BY <1>2, <1>5 DEF Exit, Kill
<1>6. CASE Handle
  BY <1>4, <1>6 DEF Handle, SetEnabled, NoController, ShowNew, ShowReading
<1>7. CASE Tick \/ InitStep \/ CommitStep \/ Release
  BY <1>4, <1>7
     DEF Tick, InitStep, QueryFails, QueryAnswered, SwitchToBuiltin, InitDone, NewController,
         CommitStep, Commit, CommitDone, CommitFails, Release
<1>8. CASE UploadStep
  BY <1>4, <1>8
     DEF UploadStep, PrepareBucket, StartTransfer, FinishTransfer, SwitchToTarget, SwitchDone,
         SwitchFails, UploadFails, UploadGoesOn
<1>9. CASE Pass \/ GetsFlaky \/ Unplug \/ Settles \/ UNCHANGED vars
  BY <1>4, <1>9 DEF Pass, GetsFlaky, Unplug, Settles, vars
<1> QED
  BY <1>1, <1>3, <1>5, <1>6, <1>7, <1>8, <1>9 DEF Next, ControlStep, WorkerStep

LEMMA SmoothedType ==
    ASSUME NEW last \in Int \cup {None}, NEW temp \in Int \cup {None}
    PROVE  Smoothed(last, temp) \subseteq Int \cup {None}
BY DEF Smoothed

(* The reading in a Show command is one of Readings, and what the smoother  *)
(* makes of it a frame.                                                     *)
LEMMA ShowReadingType ==
    ASSUME TypeOK, ShowNew
    PROVE  WorkerOK' /\ (at' = "prepare" => job' # None /\ ctl' # None)
           /\ at' \in {"wait", "prepare"}
<1> DEFINE r == cmd.arg
           last == IF last_source # r.source THEN None ELSE smoothed
<1>0. ChannelOK /\ WorkerOK
  BY DEF TypeOK
<1> USE <1>0
<1>1. cmd \in Command /\ cmd.kind = "show" /\ ctl # None
  BY DEF ShowNew, ShowReading, ChannelOK, TypeOK
<1>2. r \in Readings
  BY <1>1, CommandShape
<1>3. PICK degrees \in Smoothed(last, r.temp) :
        LET key == [source |-> r.source, degrees |-> degrees]
        IN  /\ smoothed' = degrees
            /\ IF last_rendered = key
               THEN at' = "wait" /\ UNCHANGED job
               ELSE /\ at' = "prepare"
                    /\ job' = [key |-> key, bucket |-> OtherBucket(ctl.active_bucket)]
  BY DEF ShowNew, ShowReading
<1>4. degrees \in Int \cup {None}
  <2>1. r.temp \in Int \cup {None} /\ last \in Int \cup {None}
    BY <1>2, LcdAssumption DEF WorkerOK
  <2> QED BY <2>1, SmoothedType
<1> DEFINE key == [source |-> r.source, degrees |-> degrees]
<1>5. key \in Frame /\ OtherBucket(ctl.active_bucket) \in Buckets
  BY <1>2, <1>4 DEF Frame, OtherBucket, Buckets
<1>6. \/ at' = "wait" /\ UNCHANGED job
      \/ at' = "prepare" /\ job' \in Upload
  BY <1>3, <1>5 DEF Upload
<1>7. last_source' \in {q.source : q \in Readings} /\ smoothed' \in Int \cup {None}
  BY <1>2, <1>3, <1>4 DEF ShowNew, ShowReading
<1>8. UNCHANGED <<stopping, want_enabled, ctl, last_rendered, slow, touched>>
  BY DEF ShowNew, ShowReading
<1> QED
  BY <1>1, <1>6, <1>7, <1>8, LcdMarkers DEF WorkerOK, Calls, Uploading

LEMMA WorkerType == TypeOK /\ [Next]_vars => WorkerOK'
<1> SUFFICES ASSUME TypeOK, [Next]_vars PROVE WorkerOK'
  OBVIOUS
<1>0. ChannelOK /\ WorkerOK
  BY DEF TypeOK
<1> USE <1>0, LcdAssumption DEF Calls, Uploading, Committing
<1>1. CASE ProcessEnds
  <2>1. touched' \in 0..Keepalive /\ slow' \in 0..MaxCall
    BY <1>1 DEF ProcessEnds
  <2>2. stopping' \in BOOLEAN /\ want_enabled' \in BOOLEAN
    BY <1>1 DEF ProcessEnds
  <2> QED BY <1>1, <2>1, <2>2 DEF ProcessEnds, WorkerOK
<1>2. CASE StartMain \/ Cycle \/ Close \/ GetsFlaky \/ Unplug \/ Settles \/ UNCHANGED vars
  BY <1>2 DEF StartMain, Cycle, Close, GetsFlaky, Unplug, Settles, vars, worker, WorkerOK
<1>3. CASE Receive
  BY <1>3, ReceiveType DEF Receive, worker, WorkerOK
<1>4. CASE Tick
  BY <1>4 DEF Tick, WorkerOK
<1>5. CASE SetEnabled
  <2>1. stopping' \in BOOLEAN /\ want_enabled' \in BOOLEAN
    BY <1>5 DEF SetEnabled
  <2> QED BY <1>5, <2>1 DEF SetEnabled, WorkerOK
<1>6. CASE NoController
  BY <1>6 DEF NoController, worker, WorkerOK
<1>7. CASE ShowNew
  BY <1>7, ShowReadingType
<1>8. CASE QueryFails \/ QueryAnswered \/ SwitchToBuiltin
  BY <1>8 DEF QueryFails, QueryAnswered, SwitchToBuiltin, worker, WorkerOK
<1>9. CASE InitDone
  <2>1. ctl' \in Controller
    BY <1>9 DEF InitDone, NewController, Controller
  <2> QED BY <1>9, <2>1 DEF InitDone, NewController, WorkerOK
<1>10. CASE CommitStep
  BY <1>10 DEF CommitStep, Commit, CommitDone, CommitFails, worker, WorkerOK
<1>11. CASE Release
  BY <1>11 DEF Release, AfterCommand, WorkerOK
<1>12. ASSUME UploadFails PROVE WorkerOK'
  BY <1>12 DEF UploadFails, WorkerOK
<1>13. ASSUME NEW to \in Uploading, UploadGoesOn(to) PROVE WorkerOK'
  BY <1>13 DEF UploadGoesOn, worker, WorkerOK
<1>14. CASE PrepareBucket \/ StartTransfer \/ FinishTransfer \/ SwitchToTarget \/ SwitchFails
  BY <1>12, <1>13, <1>14
     DEF PrepareBucket, StartTransfer, FinishTransfer, SwitchToTarget, SwitchFails
<1>15. CASE SwitchDone
  <2>1. job \in Upload
    BY <1>15 DEF SwitchDone, TypeOK, WorkerOK
  <2>2. [active_bucket |-> Target] \in Controller /\ job.key \in Frame
    BY <2>1 DEF Upload, Controller, Target
  <2> QED BY <1>15, <2>2 DEF SwitchDone, WorkerOK
<1>16. CASE Pass
  <2>1. touched' \in 0..Keepalive /\ slow' \in 0..MaxCall
    BY <1>16 DEF Pass, WorkerOK
  <2> QED BY <1>16, <2>1 DEF Pass, WorkerOK
<1> QED
  BY <1>1, <1>2, <1>3, <1>4, <1>5, <1>6, <1>7, <1>8, <1>9, <1>10, <1>11, <1>14, <1>15, <1>16
     DEF Next, ControlStep, WorkerStep, Handle, InitStep, UploadStep, Exit, Kill

LEMMA PanelType == TypeOK /\ [Next]_vars => PanelOK'
<1> SUFFICES ASSUME TypeOK, [Next]_vars PROVE PanelOK'
  OBVIOUS
<1>0. WorkerOK /\ PanelOK
  BY DEF TypeOK
<1> USE <1>0
<1>1. CASE UNCHANGED panel /\ handle' \in BOOLEAN
  BY <1>1 DEF panel, PanelOK
<1>2. 0 \in 0..(Watchdog - 1)
  BY LcdAssumption
<1>3. CASE StartMain \/ Cycle \/ Close \/ ProcessEnds \/ Receive \/ Tick \/ Handle \/ UNCHANGED vars
  <2>1. UNCHANGED panel /\ (UNCHANGED handle \/ handle' = FALSE)
    BY <1>3 DEF StartMain, Cycle, Close, ProcessEnds, Receive, Tick, Handle, SetEnabled,
                NoController, ShowNew, ShowReading, vars
  <2> QED BY <1>1, <2>1 DEF PanelOK
<1>4. CASE QueryFails \/ QueryAnswered
  BY <1>1, <1>4 DEF QueryFails, QueryAnswered, panel, PanelOK
<1>5. CASE SwitchToBuiltin \/ Release
  <2>1. (screen' = Builtin /\ silence' = 0) \/ UNCHANGED <<screen, silence>>
    BY <1>5 DEF SwitchToBuiltin, Release, ScreenGoesTo
  <2>2. UNCHANGED <<dev, frame>> /\ (UNCHANGED handle \/ handle' = FALSE)
    BY <1>5 DEF SwitchToBuiltin, Release
  <2> QED BY <1>2, <2>1, <2>2 DEF PanelOK
<1>6. CASE InitDone
  <2>1. PICK gone \in Wiped : frame' = [b \in Buckets |-> IF b \in gone THEN None ELSE frame[b]]
    BY <1>6 DEF InitDone, NewController
  <2>2. frame' \in [Buckets -> {None, Partial} \cup Frame]
    BY <2>1 DEF PanelOK
  <2> QED BY <1>6, <2>2 DEF InitDone, NewController, PanelOK
<1>7. CASE CommitStep
  <2>1. at \in Committing => ctl \in Controller
    BY DEF TypeOK, WorkerOK
  <2>2. (ctl.active_bucket \in Buckets /\ screen' = ctl.active_bucket /\ silence' = 0)
        \/ UNCHANGED <<screen, silence>>
    BY <1>7, <2>1
       DEF CommitStep, Commit, CommitDone, CommitFails, Committing, panel, ScreenGoesTo, Controller
  <2>3. UNCHANGED <<dev, frame>> /\ (UNCHANGED handle \/ handle' = FALSE)
    BY <1>7 DEF CommitStep, Commit, CommitDone, CommitFails, panel
  <2> QED BY <1>2, <2>2, <2>3 DEF PanelOK
<1>8. CASE UploadStep
  <2>1. job \in Upload /\ job.key \in Frame /\ Target \in Buckets
    BY <1>8 DEF UploadStep, PrepareBucket, StartTransfer, FinishTransfer, SwitchToTarget,
                SwitchDone, SwitchFails, TypeOK, WorkerOK, Uploading, Upload, Target
  <2>2. UNCHANGED dev /\ (UNCHANGED handle \/ handle' = FALSE)
    BY <1>8 DEF UploadStep, PrepareBucket, StartTransfer, FinishTransfer, SwitchToTarget,
                SwitchDone, SwitchFails, UploadFails, UploadGoesOn, panel
  <2>3. frame' \in [Buckets -> {None, Partial} \cup Frame]
    <3>1. \A v \in {None, Partial} \cup Frame :
             [frame EXCEPT ![Target] = v] \in [Buckets -> {None, Partial} \cup Frame]
      BY <2>1 DEF PanelOK
    <3>2. CASE PrepareBucket
      <4>1. PICK v \in {None, Partial} \cup Frame : frame' = [frame EXCEPT ![Target] = v]
        BY <2>1, <3>2 DEF PrepareBucket, PanelOK
      <4> QED BY <3>1, <4>1
    <3>3. CASE StartTransfer \/ FinishTransfer
      BY <2>1, <3>1, <3>3 DEF StartTransfer, FinishTransfer, PanelOK
    <3>4. CASE SwitchToTarget \/ SwitchDone \/ SwitchFails
      BY <3>4 DEF SwitchToTarget, SwitchDone, SwitchFails, panel, PanelOK
    <3> QED BY <1>8, <3>2, <3>3, <3>4 DEF UploadStep
  <2>4. (screen' \in Buckets /\ silence' = 0) \/ UNCHANGED <<screen, silence>>
    BY <1>8, <2>1 DEF UploadStep, PrepareBucket, StartTransfer, FinishTransfer, SwitchToTarget,
                      SwitchDone, SwitchFails, panel, ScreenGoesTo
  <2> QED BY <1>2, <2>2, <2>3, <2>4 DEF PanelOK
<1>9. CASE GetsFlaky \/ Unplug
  BY <1>9 DEF GetsFlaky, Unplug, PanelOK
<1>10. CASE Settles
  <2>1. UNCHANGED <<screen, frame, silence>>
        \/ (screen' = Builtin /\ silence' = 0 /\ frame' = [b \in Buckets |-> None])
    BY <1>10 DEF Settles
  <2>2. UNCHANGED handle /\ dev' = "ok"
    BY <1>10 DEF Settles
  <2> QED BY <1>2, <2>1, <2>2 DEF PanelOK
<1>11. CASE Pass
  <2>1. UNCHANGED <<dev, handle, frame>> /\ WatchdogCounts
    BY <1>11 DEF Pass
  <2>2. silence' \in 0..(Watchdog - 1) /\ screen' \in Buckets \cup {Builtin}
    BY <1>2, <2>1, LcdAssumption DEF WatchdogCounts, PanelOK
  <2> QED BY <2>1, <2>2 DEF PanelOK
<1> QED
  BY <1>3, <1>4, <1>5, <1>6, <1>7, <1>8, <1>9, <1>10, <1>11
     DEF Next, ControlStep, WorkerStep, InitStep, Exit, Kill

LEMMA StepType == TypeOK /\ [Next]_vars => TypeOK'
<1> SUFFICES ASSUME TypeOK, [Next]_vars PROVE TypeOK'
  OBVIOUS
<1>0. ControlOK' /\ ChannelOK' /\ WorkerOK' /\ PanelOK'
  BY ControlType, ChannelType, WorkerType, PanelType
<1> DEFINE Shape ==
              /\ at = "apply" => cmd # None
              /\ at \in Uploading => job # None
              /\ at \in Uploading \cup Committing \cup {"release"} => ctl # None
<1> SUFFICES Shape'
  BY <1>0 DEF TypeOK
<1>1. Shape
  BY DEF TypeOK
<1> USE <1>1 DEF Uploading, Committing
<1>2. CASE StartMain \/ Cycle \/ Close \/ Pass \/ GetsFlaky \/ Unplug \/ Settles \/ UNCHANGED vars
  BY <1>2 DEF StartMain, Cycle, Close, Pass, GetsFlaky, Unplug, Settles, vars, worker
<1>3. CASE ProcessEnds \/ Tick \/ SetEnabled \/ NoController
  BY <1>3 DEF ProcessEnds, Tick, SetEnabled, NoController
<1>4. CASE Receive
  <2>1. cmd' # None /\ at' = "apply"
    BY <1>4, ReceiveType, CommandShape DEF TypeOK
  <2> QED BY <2>1
<1>5. CASE ShowNew
  BY <1>5, ShowReadingType
<1>6. CASE InitStep \/ CommitStep \/ Release
  BY <1>6 DEF InitStep, QueryFails, QueryAnswered, SwitchToBuiltin, InitDone, NewController,
              CommitStep, Commit, CommitDone, CommitFails, Release, AfterCommand, worker
<1>7. ASSUME UploadFails PROVE Shape'
  BY <1>7 DEF UploadFails
<1>8. ASSUME NEW to \in Uploading, at \in Uploading, UploadGoesOn(to)
      PROVE  Shape'
  BY <1>8 DEF UploadGoesOn, worker
<1>9. CASE UploadStep
  <2>1. at' = "wait" \/ \E to \in Uploading : UploadGoesOn(to)
    BY <1>9 DEF UploadStep, PrepareBucket, StartTransfer, FinishTransfer, SwitchToTarget,
                SwitchDone, SwitchFails, UploadFails
  <2>2. at \in Uploading
    BY <1>9 DEF UploadStep, PrepareBucket, StartTransfer, FinishTransfer, SwitchToTarget,
                SwitchDone, SwitchFails
  <2> QED BY <1>8, <2>1, <2>2
<1> QED
  BY <1>2, <1>3, <1>4, <1>5, <1>6, <1>9
     DEF Next, ControlStep, WorkerStep, Handle, Exit, Kill

(* Every reachable state of the LCD thread and the panel is typed: TypeOK,  *)
(* about the variables of Worker and LcdController (lcd_worker.rs:89-98,    *)
(* lcd.rs:65-70), and about a frame under way having a controller.        *)
THEOREM LcdTypesCorrect == Spec => []TypeOK
<1> QED
  BY InitType, StepType, PTL DEF Spec

-----------------------------------------------------------------------------
(* Where the thread is, against the controller it has.                      *)

Preparing == {"query", "builtin", "wipe"}

PlaceInv ==
    /\ at \in Preparing => ctl = None
    /\ at \in Uploading => Target = OtherBucket(ctl.active_bucket)
    /\ dev = "absent" => ~ handle
    /\ main = "down" => at = "wait" /\ ctl = None
    /\ at \notin Calls => slow = 0

LEMMA InitPlace == Init => PlaceInv
BY DEF Init, FreshWorker, PlaceInv, Preparing, Uploading

LEMMA StepPlace == TypeOK /\ PlaceInv /\ [Next]_vars => PlaceInv'
<1> SUFFICES ASSUME TypeOK, PlaceInv, [Next]_vars PROVE PlaceInv'
  OBVIOUS
<1> DEFINE Place ==
              /\ at \in Preparing => ctl = None
              /\ at \in Uploading => Target = OtherBucket(ctl.active_bucket)
              /\ main = "down" => at = "wait" /\ ctl = None
              /\ at \notin Calls => slow = 0
<1>1. dev' = "absent" => ~ handle'
  <2>1. UNCHANGED <<dev, handle>> \/ handle' = FALSE \/ dev' # "absent"
    <3>1. StartMain \/ Cycle \/ Close \/ ProcessEnds \/ Receive \/ Tick \/ Handle \/ Pass
             => UNCHANGED <<dev, handle>> \/ handle' = FALSE
      BY DEF StartMain, Cycle, Close, ProcessEnds, Receive, Tick, Handle, SetEnabled, NoController,
             ShowNew, ShowReading, Pass, panel
    <3>2. InitStep \/ CommitStep \/ Release
             => UNCHANGED <<dev, handle>> \/ handle' = FALSE \/ dev' # "absent"
      BY DEF InitStep, QueryFails, QueryAnswered, SwitchToBuiltin, InitDone, NewController,
             CommitStep, Commit, CommitDone, CommitFails, Release, panel
    <3>3. UploadStep => UNCHANGED <<dev, handle>> \/ handle' = FALSE
      BY DEF UploadStep, PrepareBucket, StartTransfer, FinishTransfer, SwitchToTarget, SwitchDone,
             SwitchFails, UploadFails, UploadGoesOn, panel
    <3>4. GetsFlaky \/ Unplug \/ Settles \/ UNCHANGED vars
             => UNCHANGED <<dev, handle>> \/ handle' = FALSE \/ dev' # "absent"
      BY DEF GetsFlaky, Unplug, Settles, vars, panel
    <3> QED BY <3>1, <3>2, <3>3, <3>4 DEF Next, ControlStep, WorkerStep, Exit, Kill
  <2> QED BY <2>1 DEF PlaceInv
<1> SUFFICES Place'
  BY <1>1 DEF PlaceInv
<1>2. Place
  BY DEF PlaceInv
<1> USE <1>2 DEF Preparing, Calls, Uploading, Committing
<1>3. CASE StartMain \/ Cycle \/ Close \/ GetsFlaky \/ Unplug \/ Settles \/ UNCHANGED vars
  <2>1. UNCHANGED <<at, ctl, job, slow>> /\ (main' = "down" => main = "down")
    BY <1>3 DEF StartMain, Cycle, Close, GetsFlaky, Unplug, Settles, vars, worker, control
  <2> QED BY <2>1 DEF Target
<1>4. CASE ProcessEnds \/ Receive \/ NoController
  BY <1>4 DEF ProcessEnds, NoController, Receive, worker, Target, control
<1>5. CASE Tick
  BY <1>5 DEF Tick, control, Target
<1>6. CASE SetEnabled
  <2>0. at = "apply"
    BY <1>6 DEF SetEnabled
  <2>1. at' \in {"query", "release", "done", "wait"} /\ (at' = "query" => ctl = None)
        /\ UNCHANGED <<main, ctl, slow>> /\ slow = 0
    BY <1>6 DEF SetEnabled, control
  <2> QED BY <2>0, <2>1
<1>7. CASE ShowNew
  <2>0. at = "apply"
    BY <1>7 DEF ShowNew, ShowReading
  <2>1. at' = "wait" \/ (at' = "prepare" /\ Target' = OtherBucket(ctl.active_bucket))
    BY <1>7 DEF ShowNew, ShowReading, Target
  <2>2. UNCHANGED <<main, ctl, slow>> /\ slow = 0
    BY <1>7 DEF ShowNew, ShowReading, control
  <2> QED BY <2>0, <2>1, <2>2
<1>8. CASE QueryFails \/ QueryAnswered \/ SwitchToBuiltin
  BY <1>8 DEF QueryFails, QueryAnswered, SwitchToBuiltin, control, worker, Target
<1>9. CASE InitDone \/ CommitStep \/ Release
  <2>1. (at' \in {"wait", "done"} /\ slow' = 0) \/ at' = "committed"
    BY <1>9 DEF InitDone, NewController, CommitStep, Commit, CommitDone, CommitFails, Release,
                AfterCommand
  <2>2. main # "down" /\ UNCHANGED main
    BY <1>9 DEF InitDone, NewController, CommitStep, Commit, CommitDone, CommitFails, Release,
                control
  <2> QED BY <2>1, <2>2
<1>10. CASE UploadStep
  <2>1. at \in Uploading
    BY <1>10 DEF UploadStep, PrepareBucket, StartTransfer, FinishTransfer, SwitchToTarget,
                 SwitchDone, SwitchFails
  <2>2. main # "down" /\ UNCHANGED main
    BY <1>10, <2>1 DEF UploadStep, PrepareBucket, StartTransfer, FinishTransfer, SwitchToTarget,
                       SwitchDone, SwitchFails, UploadFails, UploadGoesOn, control
  <2>3. (at' = "wait" /\ slow' = 0) \/ (at' \in Uploading /\ UNCHANGED <<ctl, job, slow>>)
    BY <1>10 DEF UploadStep, PrepareBucket, StartTransfer, FinishTransfer, SwitchToTarget,
                 SwitchDone, SwitchFails, UploadFails, UploadGoesOn, worker
  <2> QED BY <2>1, <2>2, <2>3 DEF Target
<1>11. CASE Pass
  <2>1. UNCHANGED <<at, ctl, job>> /\ (main' = "down" => main = "down")
    BY <1>11 DEF Pass
  <2>2. UNCHANGED slow \/ at \in Calls
    BY <1>11 DEF Pass
  <2> QED BY <2>1, <2>2 DEF Target
<1> QED
  BY <1>3, <1>4, <1>5, <1>6, <1>7, <1>8, <1>9, <1>10, <1>11
     DEF Next, ControlStep, WorkerStep, Handle, InitStep, Exit, Kill

-----------------------------------------------------------------------------
(* Whole frames.  The bucket that the controller remembers as active holds  *)
(* a whole frame; the one that an upload goes to is off screen while it is  *)
(* written, and holds the frame from when the panel is told to switch to it. *)

FramesInv ==
    /\ WholeFrameOnScreen
    /\ ctl # None /\ handle /\ ctl.active_bucket # None => frame[ctl.active_bucket] \in Frame
    /\ at = "start" /\ handle => ~ Live(Target)
    /\ at \in {"switch", "switched"} /\ handle => frame[Target] = job.key

(* A call that took effect was made through the panel's own hidraw file, a  *)
(* call that was answered took effect.                                      *)
LEMMA CallOutcome ==
    ASSUME NEW applied \in BOOLEAN, NEW ok \in BOOLEAN, Call(applied, ok)
    PROVE  (applied => handle) /\ (ok => applied)
BY DEF Call

(* An upload goes to the bucket that the controller does not take for the   *)
(* active one.                                                              *)
LEMMA TargetIsOther ==
    ASSUME TypeOK, PlaceInv, at \in Uploading
    PROVE  /\ Target \in Buckets /\ job.key \in Frame
           /\ ctl \in Controller /\ Target # ctl.active_bucket
<1>1. job \in Upload /\ ctl \in Controller
  BY DEF TypeOK, WorkerOK
<1>2. Target = OtherBucket(ctl.active_bucket)
  BY DEF PlaceInv
<1> QED
  BY <1>1, <1>2 DEF Upload, Controller, Target, OtherBucket, Buckets

LEMMA InitFrames == Init => FramesInv
BY LcdMarkers DEF Init, FreshWorker, FramesInv, WholeFrameOnScreen

LEMMA StepFrames == TypeOK /\ PlaceInv /\ FramesInv /\ [Next]_vars => FramesInv'
<1> SUFFICES ASSUME TypeOK, PlaceInv, FramesInv, [Next]_vars PROVE FramesInv'
  OBVIOUS
<1>0. PanelOK
  BY DEF TypeOK
<1> USE DEF FramesInv, WholeFrameOnScreen
<1>1. CASE /\ UNCHANGED <<screen, frame, handle, ctl>>
           /\ at' \notin {"start", "switch", "switched"} \/ UNCHANGED <<at, job>>
  BY <1>1 DEF Live, Target
<1>2. CASE StartMain \/ Cycle \/ Close \/ Receive \/ Tick \/ Handle \/ GetsFlaky \/ UNCHANGED vars
  BY <1>1, <1>2
     DEF StartMain, Cycle, Close, Receive, Tick, Handle, SetEnabled, NoController, ShowNew,
         ShowReading, GetsFlaky, vars, worker, panel
<1>3. CASE ProcessEnds
  BY <1>3 DEF ProcessEnds, panel
<1>4. CASE QueryFails
  BY <1>1, <1>4 DEF QueryFails, worker, panel
<1>5. CASE QueryAnswered
  <2>1. ctl' = None /\ at' = "builtin" /\ UNCHANGED <<screen, frame>>
    BY <1>5 DEF QueryAnswered, PlaceInv, Preparing, worker, panel
  <2> QED BY <2>1
<1>6. CASE SwitchToBuiltin
  <2>1. screen' = Builtin \/ UNCHANGED screen
    BY <1>6 DEF SwitchToBuiltin, ScreenGoesTo
  <2>2. UNCHANGED frame /\ ctl' = None /\ at' = "wipe"
    BY <1>6 DEF SwitchToBuiltin, PlaceInv, Preparing, worker
  <2> QED BY <2>1, <2>2, LcdMarkers
<1>7. CASE InitDone
  <2>1. PICK gone \in Wiped : frame' = [b \in Buckets |-> IF b \in gone THEN None ELSE frame[b]]
    BY <1>7 DEF InitDone, NewController
  <2>2. screen \in Buckets => frame'[screen] = frame[screen]
    BY <2>1 DEF Wiped, Live
  <2>3. UNCHANGED screen /\ ctl'.active_bucket = None /\ at' = "wait"
    BY <1>7 DEF InitDone, NewController
  <2> QED BY <2>2, <2>3
<1>8. CASE CommitStep
  <2>1. at \in Committing => ctl # None
    BY DEF TypeOK
  <2>2. UNCHANGED frame /\ at' \in {"wait", "committed"}
    BY <1>8 DEF CommitStep, Commit, CommitDone, CommitFails, panel
  <2>3. (screen' = ctl.active_bucket /\ frame[ctl.active_bucket] \in Frame) \/ UNCHANGED screen
    BY <1>8, <2>1 DEF CommitStep, Commit, CommitDone, CommitFails, Committing, panel, ScreenGoesTo
  <2>4. UNCHANGED <<ctl, handle>> \/ ctl' = None
    BY <1>8 DEF CommitStep, Commit, CommitDone, CommitFails, worker
  <2> QED BY <2>2, <2>3, <2>4
<1>9. CASE Release
  <2>1. screen' = Builtin \/ UNCHANGED screen
    BY <1>9 DEF Release, ScreenGoesTo
  <2>2. UNCHANGED frame /\ ctl' = None /\ handle' = FALSE
    BY <1>9 DEF Release
  <2> QED BY <2>1, <2>2, LcdMarkers
<1>10. ASSUME UploadFails, screen' \in Buckets => frame'[screen'] \in Frame PROVE FramesInv'
  BY <1>10 DEF UploadFails
<1>11. CASE PrepareBucket
  <2>1. at = "prepare" /\ Target \in Buckets /\ ctl \in Controller /\ Target # ctl.active_bucket
    BY <1>11, TargetIsOther DEF PrepareBucket, Uploading
  <2>2. UNCHANGED screen /\ \A b \in Buckets : b # Target => frame'[b] = frame[b]
    BY <1>11, <1>0 DEF PrepareBucket, PanelOK
  <2>3. Live(Target) => frame'[Target] = frame[Target]
    BY <1>11, <1>0, <2>1 DEF PrepareBucket, PanelOK
  <2>4. screen' \in Buckets => frame'[screen'] \in Frame
    BY <2>2, <2>3 DEF Live
  <2>5. UploadFails \/ (UploadGoesOn("start") /\ ~ Live(Target))
    <3>1. ASSUME NEW created \in BOOLEAN, NEW ok2 \in BOOLEAN, Call(created, ok2), ok2
          PROVE  created
      BY <3>1, CallOutcome
    <3> QED BY <1>11, <3>1 DEF PrepareBucket
  <2>6. CASE UploadGoesOn("start") /\ ~ Live(Target)
    <3>1. at' = "start" /\ UNCHANGED <<ctl, job, handle>>
      BY <2>6 DEF UploadGoesOn, worker
    <3>2. ~ Live(Target)'
      BY <2>2, <2>6, <3>1 DEF Live, Target
    <3>3. ctl.active_bucket # None => ctl.active_bucket \in Buckets
      BY <2>1 DEF Controller
    <3> QED BY <2>1, <2>2, <2>4, <3>1, <3>2, <3>3
  <2> QED BY <1>10, <2>4, <2>5, <2>6
<1>12. CASE StartTransfer
  <2>1. PICK applied, ok \in BOOLEAN :
          /\ Call(applied, ok)
          /\ frame' = IF applied THEN [frame EXCEPT ![Target] = Partial] ELSE frame
          /\ IF ok THEN UploadGoesOn("finish") ELSE UploadFails
    BY <1>12 DEF StartTransfer
  <2>2. at = "start" /\ Target \in Buckets /\ ctl \in Controller /\ Target # ctl.active_bucket
    BY <1>12, TargetIsOther DEF StartTransfer, Uploading
  <2>3. UNCHANGED screen /\ \A b \in Buckets : b # Target => frame'[b] = frame[b]
    BY <1>12, <1>0, <2>1 DEF StartTransfer, PanelOK
  <2>4. Live(Target) => frame' = frame
    BY <2>1, <2>2, CallOutcome
  <2>5. screen' \in Buckets => frame'[screen'] \in Frame
    BY <2>3, <2>4 DEF Live
  <2>6. CASE UploadGoesOn("finish")
    <3>1. at' = "finish" /\ UNCHANGED <<ctl, job, handle>>
      BY <2>6 DEF UploadGoesOn, worker
    <3>2. ctl.active_bucket # None => ctl.active_bucket \in Buckets
      BY <2>2 DEF Controller
    <3> QED BY <2>2, <2>3, <2>5, <3>1, <3>2
  <2> QED BY <1>10, <2>1, <2>5, <2>6
<1>13. CASE FinishTransfer
  <2>1. PICK applied, ok \in BOOLEAN :
          /\ Call(applied, ok)
          /\ frame' = IF applied THEN [frame EXCEPT ![Target] = job.key] ELSE frame
          /\ IF ok THEN UploadGoesOn("switch") ELSE UploadFails
    BY <1>13 DEF FinishTransfer
  <2>2. /\ at = "finish" /\ Target \in Buckets /\ job.key \in Frame
        /\ ctl \in Controller /\ Target # ctl.active_bucket
    BY <1>13, TargetIsOther DEF FinishTransfer, Uploading
  <2>3. UNCHANGED screen /\ \A b \in Buckets : frame'[b] \in {frame[b], job.key}
    BY <1>13, <1>0, <2>1, <2>2 DEF FinishTransfer, PanelOK
  <2>4. screen' \in Buckets => frame'[screen'] \in Frame
    BY <2>2, <2>3
  <2>5. CASE ok
    <3>1. at' = "switch" /\ UNCHANGED <<ctl, job, handle>>
      BY <2>1, <2>5 DEF UploadGoesOn, worker
    <3>2. frame'[Target] = job.key
      BY <1>0, <2>1, <2>2, <2>5, CallOutcome DEF PanelOK
    <3>3. ctl.active_bucket # None => ctl.active_bucket \in Buckets
      BY <2>2 DEF Controller
    <3> QED BY <2>2, <2>3, <2>4, <3>1, <3>2, <3>3 DEF Target
  <2> QED BY <1>10, <2>1, <2>4, <2>5
<1>14. CASE SwitchToTarget \/ SwitchDone \/ SwitchFails
  <2>1. at \in {"switch", "switched"} /\ UNCHANGED frame /\ Target \in Buckets /\ job.key \in Frame
    <3>1. at \in {"switch", "switched"} /\ UNCHANGED frame
      BY <1>14 DEF SwitchToTarget, SwitchDone, SwitchFails, panel
    <3> QED BY <3>1, TargetIsOther DEF Uploading
  <2>2. handle => frame[Target] \in Frame
    BY <2>1
  <2>3. (handle /\ screen' = Target) \/ UNCHANGED screen
    BY <1>14 DEF SwitchToTarget, SwitchDone, SwitchFails, panel, ScreenGoesTo
  <2>4. screen' \in Buckets => frame'[screen'] \in Frame
    BY <2>1, <2>2, <2>3
  <2>5. CASE SwitchToTarget
    <3>1. UNCHANGED <<ctl, job, handle>> /\ at' = "switched"
      BY <2>5 DEF SwitchToTarget, UploadGoesOn, worker
    <3> QED BY <2>1, <2>4, <3>1 DEF Target
  <2>6. CASE SwitchDone
    <3>1. handle /\ ctl' = [active_bucket |-> Target] /\ at' = "wait"
      BY <2>6 DEF SwitchDone
    <3> QED BY <2>1, <2>2, <2>4, <3>1
  <2> QED BY <1>10, <1>14, <2>4, <2>5, <2>6 DEF SwitchFails
<1>15. CASE Unplug
  BY <1>15 DEF Unplug, worker, Live, Target
<1>16. CASE Settles
  <2>1. UNCHANGED <<at, ctl, job, handle>>
    BY <1>16 DEF Settles, worker
  <2>2. CASE UNCHANGED <<screen, frame>>
    BY <1>1, <2>1, <2>2
  <2>3. CASE dev = "absent" /\ screen' = Builtin
    BY <2>1, <2>3, LcdMarkers DEF PlaceInv
  <2> QED BY <1>16, <2>2, <2>3 DEF Settles
<1>17. CASE Pass
  <2>1. UNCHANGED <<at, ctl, job, handle, frame>> /\ (screen' = Builtin \/ UNCHANGED screen)
    BY <1>17 DEF Pass, WatchdogCounts
  <2>2. at = "start" /\ handle => Target \in Buckets
    BY TargetIsOther DEF Uploading
  <2> QED BY <2>1, <2>2, LcdMarkers DEF Live, Target
<1> QED
  BY <1>2, <1>3, <1>4, <1>5, <1>6, <1>7, <1>8, <1>9, <1>11, <1>12, <1>13, <1>14, <1>15, <1>16, <1>17
     DEF Next, ControlStep, WorkerStep, InitStep, UploadStep, Exit, Kill

(* Whatever calls fail, get lost or only seem to fail, whenever the panel   *)
(* is unplugged and the daemon killed, the panel never shows a bucket       *)
(* without a whole frame: WholeFrameOnScreen, about the double-buffered     *)
(* upload of LcdController::upload (lcd.rs:41-43, 312-352).                 *)
THEOREM PanelShowsWholeFrames == Spec => []WholeFrameOnScreen
<1> DEFINE Inv == TypeOK /\ PlaceInv /\ FramesInv
<1>1. Init => Inv
  BY InitType, InitPlace, InitFrames
<1>2. Inv /\ [Next]_vars => Inv'
  BY StepType, StepPlace, StepFrames
<1>3. Inv => WholeFrameOnScreen
  BY DEF FramesInv
<1> QED
  BY <1>1, <1>2, <1>3, PTL DEF Spec

-----------------------------------------------------------------------------
(* What the thread remembers.  While it has a controller on a panel that is *)
(* there, the panel has not been left alone for longer than the answer to   *)
(* one command, the keep-alive interval and the calls of the next command   *)
(* take: that is less than the watchdog.  Between a switch and its answer   *)
(* the panel is ahead of what the thread remembers.                         *)

SilenceBound ==
    IF at = "committed" THEN slow
    ELSE MaxCall + (IF at = "commit" THEN Keepalive ELSE touched) + slow

RememberedInv ==
    ctl # None /\ handle /\ last_rendered # None /\ at # "switched" =>
        /\ screen = ctl.active_bucket
        /\ frame[ctl.active_bucket] = last_rendered
        /\ silence <= SilenceBound

SwitchedInv == at = "switched" /\ handle => screen = Target /\ silence <= slow

FreshInv == RememberedInv /\ SwitchedInv

LEMMA StepSwitched ==
    TypeOK /\ PlaceInv /\ SwitchedInv /\ [Next]_vars => SwitchedInv'
<1> SUFFICES ASSUME TypeOK, PlaceInv, SwitchedInv, [Next]_vars, at' = "switched", handle'
             PROVE  screen' = Target' /\ silence' <= slow'
  BY DEF SwitchedInv
<1>0. slow \in Nat /\ slow <= MaxCall /\ silence \in Nat /\ MaxCall \in Nat /\ Watchdog \in Nat
      /\ MaxCall + 1 < Watchdog
  BY LcdAssumption DEF TypeOK, WorkerOK, PanelOK
<1>1. CASE SwitchToTarget
  BY <1>0, <1>1 DEF SwitchToTarget, UploadGoesOn, ScreenGoesTo, worker, Target
<1>2. CASE UNCHANGED <<at, handle, screen, silence, job, slow>>
  BY <1>2 DEF SwitchedInv, Target
<1>3. CASE StartMain \/ Cycle \/ Close \/ GetsFlaky \/ UNCHANGED vars
  BY <1>2, <1>3 DEF StartMain, Cycle, Close, GetsFlaky, vars, worker, panel
<1>4. CASE ProcessEnds \/ Receive \/ Tick \/ Handle \/ InitStep \/ CommitStep \/ Release
  BY <1>4 DEF ProcessEnds, Receive, Tick, Handle, SetEnabled, NoController, ShowNew, ShowReading,
              InitStep, QueryFails, QueryAnswered, SwitchToBuiltin, InitDone, NewController,
              CommitStep, Commit, CommitDone, CommitFails, Release, AfterCommand
<1>5. CASE PrepareBucket \/ StartTransfer \/ FinishTransfer \/ SwitchDone \/ SwitchFails
  BY <1>5 DEF PrepareBucket, StartTransfer, FinishTransfer, SwitchDone, SwitchFails, UploadGoesOn,
              UploadFails
<1>6. CASE Unplug
  BY <1>6 DEF Unplug
<1>7. CASE Settles
  <2>1. UNCHANGED <<at, handle, job, slow>>
    BY <1>7 DEF Settles, worker
  <2>2. dev # "absent"
    BY <2>1 DEF PlaceInv
  <2> QED BY <1>2, <1>7, <2>1, <2>2 DEF Settles
<1>8. CASE Pass
  <2>1. UNCHANGED <<at, handle, job>> /\ WatchdogCounts /\ at = "switched"
    BY <1>8 DEF Pass
  <2>2. slow < MaxCall /\ slow' = slow + 1
    BY <1>8, <2>1 DEF Pass, PlaceInv
  <2>3. screen = Target /\ silence <= slow /\ Target \in Buckets
    BY <2>1, TargetIsOther DEF SwitchedInv, Uploading
  <2>4. silence' = silence + 1 /\ UNCHANGED screen
    BY <1>0, <2>1, <2>2, <2>3, LcdMarkers DEF WatchdogCounts
  <2> QED BY <1>0, <2>1, <2>2, <2>3, <2>4 DEF Target
<1> QED
  BY <1>1, <1>3, <1>4, <1>5, <1>6, <1>7, <1>8
     DEF Next, ControlStep, WorkerStep, UploadStep, Exit, Kill

LEMMA StepRemembered ==
    TypeOK /\ PlaceInv /\ FramesInv /\ FreshInv /\ [Next]_vars => RememberedInv'
<1> SUFFICES ASSUME TypeOK, PlaceInv, FramesInv, FreshInv, [Next]_vars,
                    ctl' # None, handle', last_rendered' # None, at' # "switched"
             PROVE  /\ screen' = ctl'.active_bucket
                    /\ frame'[ctl'.active_bucket] = last_rendered'
                    /\ silence' <= SilenceBound'
  BY DEF RememberedInv
<1>0. PanelOK /\ WorkerOK /\ RememberedInv
  BY DEF TypeOK, FreshInv
<1>n. /\ touched \in Nat /\ slow \in Nat /\ silence \in Nat /\ touched <= Keepalive
      /\ slow <= MaxCall /\ MaxCall \in Nat /\ Keepalive \in Nat /\ Watchdog \in Nat
      /\ Keepalive + MaxCall + MaxCall < Watchdog
  BY <1>0, LcdAssumption DEF WorkerOK, PanelOK
<1> USE <1>0 DEF SilenceBound
<1>1. CASE /\ UNCHANGED <<ctl, handle, last_rendered, screen, frame, silence, touched, slow>>
           /\ at \notin Committing \cup {"switched"} /\ at' \notin Committing
  BY <1>1 DEF RememberedInv, Committing
<1>2. CASE StartMain \/ Cycle \/ Close \/ GetsFlaky \/ UNCHANGED vars
  <2>1. UNCHANGED <<ctl, handle, last_rendered, screen, frame, silence, touched, slow, at>>
    BY <1>2 DEF StartMain, Cycle, Close, GetsFlaky, vars, worker, panel
  <2> QED BY <2>1 DEF RememberedInv
<1>3. CASE ProcessEnds \/ Unplug \/ Release
  BY <1>3 DEF ProcessEnds, Unplug, Release
<1>4. CASE Receive \/ Handle
  BY <1>1, <1>4
     DEF Receive, Handle, SetEnabled, NoController, ShowNew, ShowReading, worker, panel, Committing
<1>5. CASE Tick
  <2>1. UNCHANGED <<ctl, handle, last_rendered, screen, frame, silence, slow>>
    BY <1>5 DEF Tick, panel
  <2>2. at' = "commit" /\ at = "wait" /\ touched = Keepalive
    BY <1>5, <2>1 DEF Tick
  <2> QED BY <2>1, <2>2 DEF RememberedInv
<1>6. CASE QueryFails \/ QueryAnswered \/ SwitchToBuiltin
  <2>1. ctl' = None
    BY <1>6 DEF QueryFails, QueryAnswered, SwitchToBuiltin, PlaceInv, Preparing, worker
  <2> QED BY <2>1
<1>7. CASE InitDone
  BY <1>7 DEF InitDone, NewController
<1>8. CASE CommitStep
  <2>1. UNCHANGED <<frame, last_rendered, touched, ctl, handle>> /\ at \in Committing
    BY <1>8 DEF CommitStep, Commit, CommitDone, CommitFails, Committing, worker, panel
  <2>2. screen = ctl.active_bucket /\ frame[ctl.active_bucket] = last_rendered
        /\ silence <= SilenceBound
    BY <2>1 DEF RememberedInv, Committing
  <2>3. ctl.active_bucket # None
    BY <2>2, LcdMarkers, LcdAssumption DEF PanelOK, Buckets
  <2>4. CASE Commit
    BY <1>n, <2>1, <2>2, <2>4 DEF Commit, ScreenGoesTo, worker
  <2>5. CASE CommitDone
    <3>1. at = "committed" /\ at' = "wait" /\ slow' = 0 /\ UNCHANGED <<screen, silence>>
      BY <2>3, <2>5 DEF CommitDone, panel
    <3>2. silence' <= MaxCall
      BY <1>n, <2>2, <3>1
    <3> QED BY <1>n, <2>1, <2>2, <3>1, <3>2
  <2> QED BY <1>8, <2>1, <2>4, <2>5 DEF CommitStep, CommitFails
<1>9. CASE PrepareBucket \/ StartTransfer \/ FinishTransfer
  <2>1. at \in Uploading \ {"switched"} /\ at \notin Committing
    BY <1>9 DEF PrepareBucket, StartTransfer, FinishTransfer, Uploading, Committing
  <2>2. UploadGoesOn("start") \/ UploadGoesOn("finish") \/ UploadGoesOn("switch")
    BY <1>9 DEF PrepareBucket, StartTransfer, FinishTransfer, UploadFails
  <2>3. UNCHANGED <<ctl, handle, last_rendered, screen, silence, touched, slow>>
        /\ at' \notin Committing
    BY <1>9, <2>2 DEF PrepareBucket, StartTransfer, FinishTransfer, UploadGoesOn, worker, Committing
  <2>4. \A b \in Buckets : b # Target => frame'[b] = frame[b]
    BY <1>9 DEF PrepareBucket, StartTransfer, FinishTransfer, PanelOK
  <2>5. ctl.active_bucket \in Buckets \cup {None} /\ ctl.active_bucket # Target
    BY <2>1, TargetIsOther DEF Controller
  <2>6. screen = ctl.active_bucket /\ frame[ctl.active_bucket] = last_rendered
        /\ silence <= SilenceBound
    BY <2>1, <2>3 DEF RememberedInv
  <2>7. ctl.active_bucket \in Buckets
    BY <2>5, <2>6, LcdMarkers DEF PanelOK, Buckets
  <2> QED BY <2>1, <2>3, <2>4, <2>5, <2>6, <2>7 DEF Committing
<1>10. CASE SwitchToTarget \/ SwitchFails
  BY <1>10 DEF SwitchToTarget, SwitchFails, UploadGoesOn, UploadFails
<1>11. CASE SwitchDone
  <2>1. /\ at = "switched" /\ handle /\ UNCHANGED <<screen, frame, silence>>
        /\ ctl' = [active_bucket |-> Target] /\ last_rendered' = job.key /\ touched' = 0
        /\ at' = "wait" /\ slow' = 0
    BY <1>11 DEF SwitchDone, panel
  <2>2. screen = Target /\ silence <= slow /\ frame[Target] = job.key
    BY <2>1 DEF FreshInv, SwitchedInv, FramesInv
  <2> QED BY <1>n, <2>1, <2>2
<1>12. CASE Settles
  <2>1. UNCHANGED <<screen, frame, silence>>
    BY <1>12 DEF Settles, PlaceInv
  <2>2. UNCHANGED <<ctl, handle, last_rendered, touched, slow, at>>
    BY <1>12 DEF Settles, worker
  <2> QED BY <2>1, <2>2 DEF RememberedInv
<1>13. CASE Pass
  <2>1. UNCHANGED <<ctl, handle, last_rendered, frame, at>> /\ WatchdogCounts
    BY <1>13 DEF Pass
  <2>2. screen = ctl.active_bucket /\ frame[ctl.active_bucket] = last_rendered
        /\ silence <= SilenceBound
    BY <2>1 DEF RememberedInv
  <2>3. main # "down"
    BY <2>1 DEF PlaceInv
  <2>4. \/ at = "wait" /\ touched < Keepalive /\ touched' = touched + 1 /\ slow' = slow
        \/ /\ at \in Calls /\ slow < MaxCall /\ slow' = slow + 1
           /\ touched' = IF touched < Keepalive THEN touched + 1 ELSE touched
    BY <1>13, <2>3 DEF Pass
  <2>5. at = "wait" => slow = 0
    BY DEF PlaceInv, Calls, Uploading, Committing
  <2>6. silence + 1 <= SilenceBound' /\ silence + 1 < Watchdog
    BY <1>n, <2>1, <2>2, <2>4, <2>5
  <2>7. ctl.active_bucket # Builtin
    <3>1. ctl.active_bucket \in Buckets \cup {None}
      BY <2>1 DEF WorkerOK, Controller
    <3> QED BY <3>1, LcdMarkers
  <2>8. UNCHANGED screen /\ silence' = silence + 1
    BY <1>n, <2>1, <2>2, <2>6, <2>7 DEF WatchdogCounts
  <2> QED BY <2>1, <2>2, <2>6, <2>8
<1> QED
  BY <1>2, <1>3, <1>4, <1>5, <1>6, <1>7, <1>8, <1>9, <1>10, <1>11, <1>12, <1>13
     DEF Next, ControlStep, WorkerStep, InitStep, UploadStep, Exit, Kill

(* The thread skips an upload only when the frame is on screen:             *)
(* PanelShowsRendered, about last_rendered and the keep-alive               *)
(* (lcd_worker.rs:164-176, 212-238), for any keep-alive interval that       *)
(* leaves the calls of two commands time before the watchdog.               *)
THEOREM RememberedIsShown == Spec => []PanelShowsRendered
<1> DEFINE Inv == TypeOK /\ PlaceInv /\ FramesInv /\ FreshInv
<1>1. Init => Inv
  BY InitType, InitPlace, InitFrames DEF Init, FreshWorker, FreshInv, RememberedInv, SwitchedInv
<1>2. Inv /\ [Next]_vars => Inv'
  BY StepType, StepPlace, StepFrames, StepRemembered, StepSwitched DEF FreshInv
<1>3. Inv => PanelShowsRendered
  BY DEF FreshInv, RememberedInv, PanelShowsRendered
<1> QED
  BY <1>1, <1>2, <1>3, PTL DEF Spec

-----------------------------------------------------------------------------
(* What the commands still to be handled come to.                           *)

LEMMA LastSwitchIs ==
    ASSUME NEW s \in Seq(Command), NEW told, NEW i \in 1..Len(s), s[i].kind = "enable",
           \A j \in 1..Len(s) : i < j => s[j].kind # "enable"
    PROVE  LastSwitch(s, told) = s[i].arg
<1> DEFINE switches == {k \in DOMAIN s : s[k].kind = "enable"}
<1>1. DOMAIN s = 1..Len(s) /\ Len(s) \in Nat
  OBVIOUS
<1>2. i \in switches /\ \A j \in switches : j <= i
  BY <1>1
<1>3. \A k \in switches : (\A j \in switches : j <= k) => k = i
  BY <1>1, <1>2
<1>4. (CHOOSE k \in switches : \A j \in switches : j <= k) = i
  BY <1>2, <1>3, Zenon
<1>5. switches # {}
  BY <1>2
<1> QED
  BY <1>4, <1>5, Zenon DEF LastSwitch

LEMMA LastSwitchNone ==
    ASSUME NEW s \in Seq(Command), NEW told, \A j \in 1..Len(s) : s[j].kind # "enable"
    PROVE  LastSwitch(s, told) = told
<1>1. DOMAIN s = 1..Len(s)
  OBVIOUS
<1> QED
  BY <1>1, Zenon DEF LastSwitch

LEMMA LastSwitchExists ==
    ASSUME NEW s \in Seq(Command), NEW k \in 1..Len(s), s[k].kind = "enable"
    PROVE  \E i \in 1..Len(s) :
              s[i].kind = "enable" /\ \A j \in 1..Len(s) : i < j => s[j].kind # "enable"
<1> DEFINE switches == {n \in 1..Len(s) : s[n].kind = "enable"}
<1>1. Len(s) \in Nat /\ switches \in SUBSET (0..Len(s)) /\ switches # {}
  OBVIOUS
<1>2. PICK i \in switches : \A j \in switches : j <= i
  BY <1>1, GreatestElement
<1> QED
  BY <1>1, <1>2

(* A command that is posted last decides, if it switches the gauge.         *)
LEMMA LastSwitchAppend ==
    ASSUME NEW s \in Seq(Command), NEW c \in Command, NEW told
    PROVE  LastSwitch(s \o <<c>>, told) = IF c.kind = "enable" THEN c.arg ELSE LastSwitch(s, told)
<1> DEFINE t == s \o <<c>>
<1>1. /\ t \in Seq(Command) /\ Len(s) \in Nat /\ Len(t) = Len(s) + 1 /\ t[Len(s) + 1] = c
      /\ \A i \in 1..Len(s) : t[i] = s[i]
  OBVIOUS
<1> HIDE DEF t
<1>2. CASE c.kind = "enable"
  <2>1. LastSwitch(t, told) = t[Len(s) + 1].arg
    BY <1>1, <1>2, LastSwitchIs
  <2> QED BY <1>1, <1>2, <2>1 DEF t
<1>3. CASE c.kind # "enable" /\ \A j \in 1..Len(s) : s[j].kind # "enable"
  <2>1. \A j \in 1..Len(t) : t[j].kind # "enable"
    BY <1>1, <1>3
  <2>2. LastSwitch(t, told) = told /\ LastSwitch(s, told) = told
    BY <1>1, <1>3, <2>1, LastSwitchNone
  <2> QED BY <1>3, <2>2 DEF t
<1>4. ASSUME c.kind # "enable", NEW k \in 1..Len(s), s[k].kind = "enable"
      PROVE  LastSwitch(t, told) = LastSwitch(s, told)
  <2>1. PICK i \in 1..Len(s) :
           s[i].kind = "enable" /\ \A j \in 1..Len(s) : i < j => s[j].kind # "enable"
    BY <1>4, LastSwitchExists
  <2>2. LastSwitch(s, told) = s[i].arg
    BY <2>1, LastSwitchIs
  <2>3. i \in 1..Len(t) /\ t[i] = s[i] /\ \A j \in 1..Len(t) : i < j => t[j].kind # "enable"
    BY <1>1, <1>4, <2>1
  <2>4. LastSwitch(t, told) = t[i].arg
    BY <1>1, <2>1, <2>3, LastSwitchIs
  <2> QED BY <2>2, <2>3, <2>4
<1> QED
  BY <1>2, <1>3, <1>4 DEF t

(* A command that does not switch the gauge may go from the front; one that *)
(* does, when it has been told.                                             *)
LEMMA LastSwitchHead ==
    ASSUME NEW s \in Seq(Command), NEW c \in Command, NEW told
    PROVE  LastSwitch(<<c>> \o s, told) = LastSwitch(s, IF c.kind = "enable" THEN c.arg ELSE told)
<1> DEFINE t == <<c>> \o s
<1>1. /\ t \in Seq(Command) /\ Len(s) \in Nat /\ Len(t) = Len(s) + 1 /\ t[1] = c
      /\ \A i \in 1..Len(s) : t[i + 1] = s[i]
      /\ \A i \in 2..Len(t) : t[i] = s[i - 1] /\ i - 1 \in 1..Len(s)
  OBVIOUS
<1> HIDE DEF t
<1>2. CASE \A j \in 1..Len(s) : s[j].kind # "enable"
  <2>1. \A j \in 1..Len(t) : 1 < j => t[j].kind # "enable"
    BY <1>1, <1>2
  <2>2. c.kind = "enable" => LastSwitch(t, told) = c.arg
    <3>1. 1 \in 1..Len(t)
      BY <1>1
    <3> QED BY <1>1, <2>1, <3>1, LastSwitchIs
  <2>3. c.kind # "enable" => LastSwitch(t, told) = told
    <3>1. c.kind # "enable" => \A j \in 1..Len(t) : t[j].kind # "enable"
      BY <1>1, <2>1
    <3> QED BY <1>1, <3>1, LastSwitchNone
  <2>4. \A v : LastSwitch(s, v) = v
    BY <1>2, LastSwitchNone
  <2> QED BY <2>2, <2>3, <2>4 DEF t
<1>3. ASSUME NEW k \in 1..Len(s), s[k].kind = "enable"
      PROVE  \A v : LastSwitch(t, told) = LastSwitch(s, v)
  <2>1. PICK i \in 1..Len(s) :
           s[i].kind = "enable" /\ \A j \in 1..Len(s) : i < j => s[j].kind # "enable"
    BY <1>3, LastSwitchExists
  <2>2. \A v : LastSwitch(s, v) = s[i].arg
    BY <2>1, LastSwitchIs
  <2>3. i + 1 \in 1..Len(t) /\ t[i + 1] = s[i]
    BY <1>1
  <2>4. ASSUME NEW j \in 1..Len(t), i + 1 < j PROVE t[j].kind # "enable"
    <3>1. j - 1 \in 1..Len(s) /\ i < j - 1 /\ t[j] = s[j - 1]
      BY <1>1, <2>4
    <3> QED BY <2>1, <3>1
  <2>5. LastSwitch(t, told) = t[i + 1].arg
    BY <1>1, <2>1, <2>3, <2>4, LastSwitchIs
  <2> QED BY <2>2, <2>3, <2>5
<1> QED
  BY <1>2, <1>3 DEF t

(* Readings may go from the front.                                          *)
LEMMA LastSwitchSuffix ==
    ASSUME NEW s \in Seq(Command), NEW told, NEW k \in 1..Len(s),
           \A i \in 1..(k - 1) : s[i].kind # "enable"
    PROVE  LastSwitch(SubSeq(s, k, Len(s)), told) = LastSwitch(s, told)
<1> DEFINE t == SubSeq(s, k, Len(s))
<1>1. Len(s) \in Nat /\ \A i \in 1..Len(s) : s[i] \in Command
  OBVIOUS
<1>2. /\ t \in Seq(Command) /\ Len(t) = Len(s) - k + 1
      /\ \A i \in 1..Len(t) : t[i] = s[k + i - 1]
  BY <1>1, SubSeqProperties
<1> HIDE DEF t
<1>3. CASE \A j \in 1..Len(s) : s[j].kind # "enable"
  <2>1. \A j \in 1..Len(t) : t[j].kind # "enable"
    BY <1>1, <1>2, <1>3
  <2>2. LastSwitch(t, told) = told /\ LastSwitch(s, told) = told
    BY <1>2, <1>3, <2>1, LastSwitchNone
  <2> QED BY <2>2 DEF t
<1>4. ASSUME NEW n \in 1..Len(s), s[n].kind = "enable"
      PROVE  LastSwitch(t, told) = LastSwitch(s, told)
  <2>1. PICK i \in 1..Len(s) :
           s[i].kind = "enable" /\ \A j \in 1..Len(s) : i < j => s[j].kind # "enable"
    BY <1>4, LastSwitchExists
  <2>2. LastSwitch(s, told) = s[i].arg
    BY <2>1, LastSwitchIs
  <2>3. i >= k
    BY <1>1, <2>1
  <2>4. i - k + 1 \in 1..Len(t) /\ t[i - k + 1] = s[i]
    <3>1. i - k + 1 \in 1..Len(t) /\ k + (i - k + 1) - 1 = i
      BY <1>1, <1>2, <2>3
    <3> QED BY <1>2, <3>1
  <2>5. ASSUME NEW j \in 1..Len(t), i - k + 1 < j PROVE t[j].kind # "enable"
    <3>1. k + j - 1 \in 1..Len(s) /\ i < k + j - 1 /\ t[j] = s[k + j - 1]
      BY <1>1, <1>2, <2>5
    <3> QED BY <2>1, <3>1
  <2>6. LastSwitch(t, told) = t[i - k + 1].arg
    BY <1>2, <2>1, <2>4, <2>5, LastSwitchIs
  <2> QED BY <2>2, <2>4, <2>6
<1> QED
  BY <1>3, <1>4 DEF t

-----------------------------------------------------------------------------
(* No command is lost.                                                      *)

CommandsInv ==
    /\ main \in {"post", "sleep"} => LatestWish = wished
    /\ stopping => at \in {"release", "done"} /\ main = "closing"
    /\ main # "closing" => \A i \in 1..Len(Todo) : Todo[i] # Shutdown
    /\ main = "closing" => stopping \/ \E i \in 1..Len(Todo) : Todo[i] = Shutdown

LEMMA TodoIs ==
    ASSUME TypeOK
    PROVE  /\ Todo \in Seq(Command)
           /\ at = "apply" => cmd \in Command /\ Todo = <<cmd>> \o Arrived
           /\ at # "apply" => Todo = Arrived
<1>1. Arrived \in Seq(Command)
  BY ArrivedType DEF TypeOK
<1>2. at = "apply" => cmd \in Command
  BY DEF TypeOK, ChannelOK
<1> QED
  BY <1>1, <1>2, ConcatEmptySeq, ConcatProperties DEF Todo

(* Receive takes readings from the front of what there is to do, but never  *)
(* the last command that there was, nor one after a command that is no      *)
(* reading.                                                                 *)
LEMMA ReceiveDropsReadings ==
    ASSUME TypeOK, Receive
    PROVE  \E k \in 1..Len(Todo) :
              /\ Todo' = SubSeq(Todo, k, Len(Todo))
              /\ \A i \in 1..(k - 1) : Todo[i].kind = "show"
<1> DEFINE n == LeadingShows(Arrived)
           len == Len(Arrived)
<1>1. Todo = Arrived /\ Arrived \in Seq(Command) /\ Arrived # <<>> /\ at' = "apply"
  BY TodoIs, ArrivedType DEF Receive, TypeOK
<1>2. n \in 0..len /\ len \in Nat \ {0} /\ \A i \in 1..n : Arrived[i].kind = "show"
  BY <1>1, LeadingShowsCounts, EmptySeq
<1>3. \A i \in 1..len : Arrived[i] \in Command
  BY <1>1
<1>4. Todo' = <<cmd'>> \o Arrived'
  BY <1>1 DEF Todo
<1>5. CASE n = 0
  <2>1. cmd' = Head(Arrived) /\ queue' = Tail(Arrived) /\ pending' = None
    BY <1>5 DEF Receive
  <2>2. Arrived' = Tail(Arrived) /\ cmd' = Arrived[1]
    BY <1>1, <2>1, HeadTailProperties, ConcatEmptySeq DEF Arrived
  <2>3. Tail(Arrived) = SubSeq(Arrived, 2, len)
    BY <1>1, TailIsSubSeq
  <2>4. Todo' = SubSeq(Arrived, 1, len)
    BY <1>1, <1>2, <1>4, <2>2, <2>3, SubSeqRecursiveFirst
  <2> QED BY <1>1, <1>2, <2>4
<1>6. CASE n # 0
  <2>1. /\ cmd' = Arrived[n]
        /\ pending' = IF n < len THEN Arrived[n + 1] ELSE None
        /\ queue' = SubSeq(Arrived, n + 2, len)
    BY <1>6 DEF Receive
  <2>2. SubSeq(Arrived, n + 2, len) \in Seq(Command)
    BY <1>2, <1>3, SubSeqProperties
  <2>3. Arrived' = SubSeq(Arrived, n + 1, len)
    <3>1. CASE n < len
      <4>1. pending' = Arrived[n + 1] /\ pending' # None
        <5>1. pending' = Arrived[n + 1]
          BY <2>1, <3>1
        <5>2. n + 1 \in 1..len
          BY <1>2, <3>1
        <5>3. Arrived[n + 1] # None
          BY <1>3, <5>2, CommandShape
        <5> QED BY <5>1, <5>3
      <4>2. Arrived' = <<Arrived[n + 1]>> \o SubSeq(Arrived, n + 2, len)
        BY <2>1, <4>1 DEF Arrived
      <4>3. n + 1 \in 1..len /\ len \in (n + 1)..len /\ (n + 1) + 1 = n + 2
        BY <1>2, <3>1
      <4> QED BY <1>1, <4>2, <4>3, SubSeqRecursiveFirst
    <3>2. CASE n = len
      <4>1. pending' = None /\ Arrived' = <<>> \o SubSeq(Arrived, n + 2, len)
        BY <2>1, <3>2 DEF Arrived
      <4>2. SubSeq(Arrived, n + 2, len) = <<>> /\ SubSeq(Arrived, n + 1, len) = <<>>
        BY <1>2, <3>2, SubSeqEmpty
      <4> QED BY <4>1, <4>2, <2>2, ConcatEmptySeq
    <3> QED BY <1>2, <3>1, <3>2
  <2>4. n \in 1..len /\ len \in n..len
    BY <1>2, <1>6
  <2>5. Todo' = SubSeq(Arrived, n, len)
    BY <1>1, <1>4, <2>1, <2>3, <2>4, SubSeqRecursiveFirst
  <2> QED BY <1>1, <1>2, <2>4, <2>5
<1> QED
  BY <1>5, <1>6

(* What handling a command leaves to do.                                    *)
LEMMA HandleTakesFirst ==
    ASSUME TypeOK, Handle
    PROVE  /\ cmd \in Command /\ Arrived \in Seq(Command)
           /\ Todo = <<cmd>> \o Arrived /\ Todo' = Arrived
<1>1. at = "apply" /\ at' # "apply" /\ UNCHANGED channel
  BY DEF Handle, SetEnabled, NoController, ShowNew, ShowReading
<1>2. Arrived' = Arrived /\ Arrived \in Seq(Command)
  BY <1>1, ArrivedType DEF Arrived, channel, TypeOK
<1>3. Todo' = Arrived
  BY <1>1, <1>2, ConcatEmptySeq DEF Todo
<1> QED
  BY <1>1, <1>2, <1>3, TodoIs

LEMMA PostAddsLast ==
    ASSUME TypeOK, NEW t \in Seq(Command), queue' = queue \o t, UNCHANGED <<at, pending, cmd>>
    PROVE  Todo' = Todo \o t
<1> DEFINE found == IF pending = None THEN <<>> ELSE <<pending>>
           now == IF at = "apply" THEN <<cmd>> ELSE <<>>
<1>1. queue \in Seq(Command) /\ found \in Seq(Command) /\ now \in Seq(Command)
  BY DEF TypeOK, ChannelOK
<1>2. Arrived = found \o queue /\ Arrived' = found \o (queue \o t)
  BY DEF Arrived
<1> HIDE DEF found
<1>3. Arrived' = Arrived \o t /\ Arrived \in Seq(Command)
  BY <1>1, <1>2, ConcatAssociative, ConcatProperties
<1>4. Todo = now \o Arrived /\ Todo' = now \o (Arrived \o t)
  BY <1>3 DEF Todo
<1> HIDE DEF now
<1>5. (now \o Arrived) \o t = now \o (Arrived \o t)
  BY SMTT(30), <1>1, <1>3, ConcatAssociative
<1> QED
  BY <1>4, <1>5

(* The control loop posts a command: what was wished is what the last one   *)
(* that switches the gauge asks for.                                        *)
LEMMA PostCommands ==
    ASSUME NEW s \in Seq(Command), NEW c \in Command
    PROVE  /\ s \o <<c>> \in Seq(Command) /\ Len(s \o <<c>>) = Len(s) + 1
           /\ \A i \in 1..Len(s) : (s \o <<c>>)[i] = s[i]
           /\ (s \o <<c>>)[Len(s) + 1] = c
OBVIOUS

LEMMA StepCommands == TypeOK /\ CommandsInv /\ [Next]_vars => CommandsInv'
<1> SUFFICES ASSUME TypeOK, CommandsInv, [Next]_vars PROVE CommandsInv'
  OBVIOUS
<1>0. Todo \in Seq(Command) /\ Len(Todo) \in Nat /\ queue \in Seq(Command)
  BY TodoIs DEF TypeOK, ChannelOK
<1>1. /\ Shutdown \in Command /\ Shutdown.kind = "shutdown" /\ \A r \in Readings : Show(r) \in Command
      /\ \A r \in Readings : Show(r).kind = "show" /\ Show(r) # Shutdown
      /\ \A on \in BOOLEAN : Enable(on) \in Command /\ Enable(on).kind = "enable"
                             /\ Enable(on).arg = on /\ Enable(on) # Shutdown
  BY DEF Command, Enable, Show, Shutdown
<1>a. ASSUME NEW c \in Command, Post(c), UNCHANGED <<at, pending, cmd>>
      PROVE  Todo' = Todo \o <<c>>
  <2>1. <<c>> \in Seq(Command) /\ queue' = queue \o <<c>>
    BY <1>0, <1>a, AppendIsConcat DEF Post
  <2> QED BY <1>a, <2>1, PostAddsLast
<1>2. CASE StartMain
  <2>1. PICK on \in BOOLEAN : wished' = on /\ Post(Enable(on))
    BY <1>2 DEF StartMain
  <2>2. Todo' = Todo \o <<Enable(on)>>
    BY <1>1, <1>2, <1>a, <2>1 DEF StartMain
  <2>3. LatestWish' = wished'
    BY <1>0, <1>1, <2>1, <2>2, LastSwitchAppend DEF LatestWish
  <2>4. \A i \in 1..Len(Todo') : Todo'[i] # Shutdown
    BY <1>0, <1>1, <1>2, <2>2, PostCommands DEF CommandsInv, StartMain
  <2>5. UNCHANGED stopping /\ ~ stopping /\ main' = "post"
    BY <1>2 DEF StartMain, worker, CommandsInv
  <2> QED BY <2>3, <2>4, <2>5 DEF CommandsInv
<1>3. CASE Cycle
  <2>1. PICK r \in Readings :
          \/ Post(Show(r)) /\ UNCHANGED wished
          \/ \E on \in BOOLEAN : wished' = on /\ queue' = queue \o <<Enable(on), Show(r)>>
    BY <1>3 DEF Cycle
  <2>2. UNCHANGED <<at, pending, cmd, stopping, want_enabled>> /\ main = "post" /\ main' = "sleep"
        /\ ~ stopping
    BY <1>3 DEF Cycle, worker, CommandsInv
  <2>3. CASE Post(Show(r)) /\ UNCHANGED wished
    <3>1. Todo' = Todo \o <<Show(r)>>
      BY <1>1, <1>a, <2>2, <2>3
    <3>2. LatestWish' = wished'
      BY <1>0, <1>1, <2>2, <2>3, <3>1, LastSwitchAppend DEF LatestWish, CommandsInv
    <3>3. \A i \in 1..Len(Todo') : Todo'[i] # Shutdown
      BY <1>0, <1>1, <2>2, <3>1, PostCommands DEF CommandsInv
    <3> QED BY <2>2, <3>2, <3>3 DEF CommandsInv
  <2>4. ASSUME NEW on \in BOOLEAN, wished' = on, queue' = queue \o <<Enable(on), Show(r)>>
        PROVE  CommandsInv'
    <3>1. Todo' = Todo \o <<Enable(on), Show(r)>>
      <4>1. <<Enable(on), Show(r)>> \in Seq(Command)
        BY <1>1
      <4> QED BY <2>2, <2>4, <4>1, PostAddsLast
    <3>2. Todo' = (Todo \o <<Enable(on)>>) \o <<Show(r)>>
      <4>1. <<Enable(on), Show(r)>> = <<Enable(on)>> \o <<Show(r)>>
        OBVIOUS
      <4> QED BY <1>0, <1>1, <3>1, <4>1, ConcatAssociative
    <3>3. Todo \o <<Enable(on)>> \in Seq(Command)
      BY <1>0, <1>1
    <3>4. LatestWish' = wished'
      <4>1. LastSwitch(Todo \o <<Enable(on)>>, want_enabled) = on
        BY <1>0, <1>1, LastSwitchAppend
      <4>2. LastSwitch(Todo', want_enabled) = on
        BY <1>1, <3>2, <3>3, <4>1, LastSwitchAppend
      <4> QED BY <2>2, <2>4, <4>2 DEF LatestWish
    <3>5. \A i \in 1..Len(Todo \o <<Enable(on)>>) : (Todo \o <<Enable(on)>>)[i] # Shutdown
      BY <1>0, <1>1, <2>2, PostCommands DEF CommandsInv
    <3>6. \A i \in 1..Len(Todo') : Todo'[i] # Shutdown
      BY <1>1, <3>2, <3>3, <3>5, PostCommands
    <3> QED BY <2>2, <3>4, <3>6 DEF CommandsInv
  <2> QED BY <2>1, <2>3, <2>4
<1>4. CASE Close
  <2>1. Todo' = Todo \o <<Shutdown>>
    BY <1>1, <1>4, <1>a DEF Close
  <2>2. Len(Todo) + 1 \in 1..Len(Todo') /\ Todo'[Len(Todo) + 1] = Shutdown
    BY <1>0, <1>1, <2>1, PostCommands
  <2>3. main' = "closing" /\ UNCHANGED stopping /\ ~ stopping
    BY <1>4 DEF Close, worker, CommandsInv
  <2> QED BY <2>2, <2>3 DEF CommandsInv
<1>5. CASE ProcessEnds
  <2>1. main' = "down" /\ stopping' = FALSE /\ Todo' = <<>>
    BY <1>5 DEF ProcessEnds, Todo, Arrived
  <2> QED BY <2>1 DEF CommandsInv
<1>6. CASE Receive
  <2>1. PICK k \in 1..Len(Todo) :
           Todo' = SubSeq(Todo, k, Len(Todo)) /\ \A i \in 1..(k - 1) : Todo[i].kind = "show"
    BY <1>6, ReceiveDropsReadings
  <2>2. UNCHANGED <<main, wished, want_enabled, stopping>> /\ ~ stopping
    BY <1>6 DEF Receive, control, worker, CommandsInv
  <2>3. LatestWish' = LatestWish
    BY <1>0, <2>1, <2>2, LastSwitchSuffix DEF LatestWish
  <2>4. Len(Todo') = Len(Todo) - k + 1 /\ \A i \in 1..Len(Todo') : Todo'[i] = Todo[k + i - 1]
    BY <1>0, <2>1, SubSeqProperties
  <2>5. main # "closing" => \A i \in 1..Len(Todo') : Todo'[i] # Shutdown
    BY <1>0, <2>4 DEF CommandsInv
  <2>6. ASSUME main = "closing" PROVE \E i \in 1..Len(Todo') : Todo'[i] = Shutdown
    <3>1. PICK i \in 1..Len(Todo) : Todo[i] = Shutdown
      BY <2>2, <2>6 DEF CommandsInv
    <3>2. i >= k
      BY <1>0, <1>1, <2>1, <3>1
    <3>3. i - k + 1 \in 1..Len(Todo') /\ k + (i - k + 1) - 1 = i
      BY <1>0, <2>4, <3>2
    <3> QED BY <2>4, <3>1, <3>3
  <2> QED BY <2>2, <2>3, <2>5, <2>6 DEF CommandsInv
<1>7. CASE Handle
  <2>0. /\ cmd \in Command /\ Arrived \in Seq(Command)
        /\ Todo = <<cmd>> \o Arrived /\ Todo' = Arrived
    BY <1>7, HandleTakesFirst
  <2>1. /\ Len(Arrived) \in Nat /\ Len(Todo) = Len(Arrived) + 1 /\ Todo[1] = cmd
        /\ \A i \in 1..Len(Arrived) : Todo[i + 1] = Arrived[i]
    BY <2>0
  <2>2. UNCHANGED <<main, wished>> /\ ~ stopping
    BY <1>7 DEF Handle, SetEnabled, NoController, ShowNew, ShowReading, control, CommandsInv
  <2>3. main # "closing" => \A i \in 1..Len(Arrived) : Arrived[i] # Shutdown
    BY <2>1 DEF CommandsInv
  <2>4. main = "closing" => cmd = Shutdown \/ \E i \in 1..Len(Arrived) : Arrived[i] = Shutdown
    <3>1. \A i \in 1..Len(Todo) : i = 1 \/ (i - 1 \in 1..Len(Arrived) /\ Todo[i] = Arrived[i - 1])
      BY <2>0, <2>1
    <3> QED BY <2>1, <2>2, <3>1 DEF CommandsInv
  <2>5. CASE NoController \/ ShowNew
    <3>1. cmd.kind = "show" /\ UNCHANGED <<want_enabled, stopping>>
      BY <2>5 DEF NoController, ShowNew, ShowReading, worker
    <3>2. LatestWish' = LatestWish
      BY <2>0, <3>1, LastSwitchHead DEF LatestWish
    <3> QED BY <1>1, <2>0, <2>2, <2>3, <2>4, <3>1, <3>2 DEF CommandsInv
  <2>6. CASE SetEnabled
    <3>1. /\ cmd.kind \in {"enable", "shutdown"}
          /\ want_enabled' = (cmd = Enable(TRUE)) /\ stopping' = (cmd = Shutdown)
      BY <2>6 DEF SetEnabled
    <3>2. CASE cmd.kind = "enable"
      <4>1. cmd # Shutdown /\ cmd.arg \in BOOLEAN /\ (cmd = Enable(TRUE) <=> cmd.arg = TRUE)
        BY <1>1, <2>0, <3>2, CommandShape
      <4>2. want_enabled' = cmd.arg
        BY <3>1, <4>1
      <4>3. stopping' = FALSE
        BY <3>1, <4>1
      <4>4. LatestWish' = LatestWish
        BY <2>0, <3>2, <4>2, LastSwitchHead DEF LatestWish
      <4> QED BY <2>0, <2>2, <2>3, <2>4, <4>1, <4>3, <4>4 DEF CommandsInv
    <3>3. CASE cmd.kind = "shutdown"
      <4>1. cmd = Shutdown
        BY <2>0, <3>3, CommandShape
      <4>2. main = "closing"
        BY <2>1, <4>1 DEF CommandsInv
      <4>3. stopping' = TRUE
        BY <3>1, <4>1
      <4>4. at' \in {"release", "done"}
        <5>1. cmd # Enable(TRUE)
          BY <1>1, <4>1
        <5>2. want_enabled' = FALSE
          BY <3>1, <5>1
        <5> QED BY <2>6, <4>3, <5>2 DEF SetEnabled
      <4> QED BY <2>2, <4>2, <4>3, <4>4 DEF CommandsInv
    <3> QED BY <3>1, <3>2, <3>3
  <2> QED BY <1>7, <2>5, <2>6 DEF Handle
<1>8. ASSUME UNCHANGED <<channel, wished, want_enabled, stopping>>,
             at = "apply" <=> at' = "apply", at = "apply" => UNCHANGED cmd,
             main' = main \/ (main = "sleep" /\ main' = "post"),
             stopping => at' \in {"release", "done"}
      PROVE  CommandsInv'
  <2>1. Todo' = Todo
    BY <1>8 DEF Todo, Arrived, channel
  <2>2. LatestWish' = LatestWish
    BY <1>8, <2>1 DEF LatestWish
  <2> QED BY <1>8, <2>1, <2>2 DEF CommandsInv
<1>9. CASE Tick \/ QueryFails \/ QueryAnswered \/ SwitchToBuiltin \/ InitDone \/ CommitStep
  <2>1. /\ UNCHANGED <<channel, wished, want_enabled, stopping, main>>
        /\ at # "apply" /\ at' # "apply" /\ at \notin {"release", "done"}
    BY <1>9 DEF Tick, QueryFails, QueryAnswered, SwitchToBuiltin, InitDone, NewController,
                CommitStep, Commit, CommitDone, CommitFails, control, worker
  <2> QED BY <1>8, <2>1 DEF CommandsInv
<1>10. CASE Release
  <2>1. /\ UNCHANGED <<channel, wished, want_enabled, stopping, main>>
        /\ at = "release" /\ at' = IF stopping THEN "done" ELSE "wait"
    BY <1>10 DEF Release, AfterCommand, control
  <2> QED BY <1>8, <2>1 DEF CommandsInv
<1>11. CASE UploadStep
  <2>1. /\ UNCHANGED <<channel, wished, want_enabled, stopping, main>>
        /\ at # "apply" /\ at' # "apply" /\ at \notin {"release", "done"}
    BY <1>11 DEF UploadStep, PrepareBucket, StartTransfer, FinishTransfer, SwitchToTarget,
                 SwitchDone, SwitchFails, UploadFails, UploadGoesOn, control, worker
  <2> QED BY <1>8, <2>1 DEF CommandsInv
<1>12. CASE GetsFlaky \/ Unplug \/ Settles \/ Pass \/ UNCHANGED vars
  <2>1. UNCHANGED <<channel, wished, want_enabled, stopping, at, cmd>>
    BY <1>12 DEF GetsFlaky, Unplug, Settles, Pass, vars, control, worker
  <2>2. main' = main \/ (main = "sleep" /\ main' = "post")
    BY <1>12 DEF GetsFlaky, Unplug, Settles, Pass, vars, control
  <2> QED BY <1>8, <2>1, <2>2 DEF CommandsInv
<1> QED
  BY <1>2, <1>3, <1>4, <1>5, <1>6, <1>7, <1>9, <1>10, <1>11, <1>12
     DEF Next, ControlStep, WorkerStep, InitStep, Exit, Kill

(* Draining the channel loses no command but readings that a newer one      *)
(* replaces, and keeps their order: NoCommandLost, about Worker::run        *)
(* (lcd_worker.rs:114-160), however many commands have queued up.           *)
THEOREM DrainingLosesNothing == Spec => []NoCommandLost
<1>1. Init => CommandsInv
  <2> SUFFICES ASSUME Init PROVE CommandsInv
    OBVIOUS
  <2>1. main = "down" /\ stopping = FALSE /\ Todo = <<>>
    BY DEF Init, FreshWorker, Todo, Arrived
  <2> QED BY <2>1 DEF CommandsInv
<1>2. TypeOK /\ CommandsInv /\ [Next]_vars => TypeOK' /\ CommandsInv'
  BY StepType, StepCommands
<1>3. TypeOK /\ CommandsInv => NoCommandLost
  <2> SUFFICES ASSUME TypeOK, CommandsInv, main = "closing", ~ stopping,
                      ~ (at = "apply" /\ cmd = Shutdown)
               PROVE  \E i \in DOMAIN Arrived : Arrived[i] = Shutdown
    BY DEF CommandsInv, NoCommandLost
  <2>1. PICK i \in 1..Len(Todo) : Todo[i] = Shutdown
    BY DEF CommandsInv
  <2>2. Arrived \in Seq(Command)
    BY ArrivedType DEF TypeOK
  <2>3. CASE at # "apply"
    BY <2>1, <2>2, <2>3, TodoIs
  <2>4. CASE at = "apply"
    <3>1. Todo = <<cmd>> \o Arrived /\ cmd \in Command
      BY <2>4, TodoIs
    <3>2. i = 1 \/ (i - 1 \in 1..Len(Arrived) /\ Todo[i] = Arrived[i - 1])
      BY <2>1, <2>2, <3>1
    <3>3. i # 1
      BY <2>1, <2>2, <2>4, <3>1
    <3> QED BY <2>1, <2>2, <3>2, <3>3
  <2> QED BY <2>3, <2>4
<1> QED
  BY <1>1, <1>2, <1>3, InitType, PTL DEF Spec
=============================================================================
