----------------------------- MODULE GuiBridge -----------------------------
(***************************************************************************)
(* The bridge of the GUI (gui/src/bridge.rs, gui/src/config.rs) between    *)
(* config.toml and the QML side (gui/qml/), which edits the bridge's        *)
(* properties in place and keeps the points of the two curves to itself    *)
(* until Save & Apply.  Around it: a daemon that starts, reloads and stops, *)
(* other clients that set the mode, and a user who edits the file by hand. *)
(*                                                                          *)
(* The GUI handles one event at a time.  A save is two steps, because      *)
(* others may act between its rename and its ReloadConfig.  The daemon's    *)
(* side is one step per request or reload: ConfigStore has the details.    *)
(***************************************************************************)
EXTENDS Config, SequencesExt

CONSTANTS
    None,          \* Option::None
    FirstTexts,    \* what the file may say at first
    HandTexts,     \* what a user may write by hand
    AskedModes,    \* the modes other clients ask for
    ModeChoices, DutyChoices, CeilingChoices, SourceChoices,
                   \* what the user may enter in the window: modes, silent duties,
                   \* ceilings (whole degrees) and sources of the gauge and the curves
    PointChoices,  \* points of the curve editors: whole degrees and duties
    EditedChannels,\* the curves the user edits
    MaxPoints,     \* bound on the points of an edited curve
    MaxEdits       \* bound on the edits, in the window or by hand

ASSUME BridgeAssumption ==
    /\ FirstTexts \cup HandTexts \subseteq ConfigType \cup {Unparsable}
    /\ AskedModes \cup ModeChoices \subseteq Modes
    /\ DutyChoices \subseteq 0..100 /\ CeilingChoices \subseteq 40..100
    /\ SourceChoices \subseteq Sources /\ EditedChannels \subseteq Channels
    /\ \A p \in PointChoices : p.degrees \in 0..150 /\ p.duty \in 0..100
    /\ MaxPoints \in Nat /\ MaxEdits \in Nat
    /\ None \notin ConfigType

VARIABLES
    file,          \* what a read of config.toml returns
    daemon,        \* "down" or "serving"
    running,       \* the config the daemon runs, or None
    reload_flag,
    open,          \* does the GUI process exist?
    cfg,           \* DaemonBridgeRust::cfg: of a config, the fields the GUI does not show
    props,         \* the editable properties but curves_json
    curves_json,   \* the property of that name
    editor,        \* the ListModels and source boxes of the two CurveEditors
    message,       \* status_message: every error is one
    announcing,    \* save is between its rename and its ReloadConfig
    edits,         \* bound: edits so far
    touched,       \* history: of "props", "editor" and "curves_json", what has edits that
                   \* are not in the file
    foreign,       \* history: has another wrote the file since the GUI last read or wrote it?
    writer,        \* history: who wrote the file last: "gui", "client", "hand", or "none" yet
    unread         \* history: has a reload failed since the daemon last took the file?

outside == <<file, daemon, running, reload_flag, foreign, writer, unread, edits>>
view == <<props, curves_json, editor>>
bridge == <<open, cfg, view, message, announcing, touched>>
bridgeVars == <<outside, bridge>>

-----------------------------------------------------------------------------
(* Between a config and what the window shows.                              *)

\* f32::round and the cast to i32, which makes 0 of NaN (its saturation is left out)
WholeDegrees(t) ==
    IF t = NaN THEN 0
    ELSE IF t < 0 THEN - RoundDiv(- t, Degree) ELSE RoundDiv(t, Degree)

(* The properties of a config: mode_numbers, source_mode_str, cfg.lcd       *)
PropsOf(c) ==
    [mode |-> c.mode, silent_duty |-> c.silent_duty_pct,
     failsafe_temp |-> WholeDegrees(c.failsafe_temp_c),
     lcd_enabled |-> c.lcd.enabled, lcd_source |-> c.lcd.source]

(* What the properties are when no config was loaded: the schema's defaults *)
DefaultProps ==
    [mode |-> "Auto", silent_duty |-> 40, failsafe_temp |-> 60,
     lcd_enabled |-> FALSE, lcd_source |-> "Cpu"]

NoCurves == [ch \in Channels |-> [temp_source |-> "Liquid", points |-> <<>>]]

Hidden(c) == [poll_interval_ms |-> c.poll_interval_ms]

\* Where point i goes in a stable sort by temperature
Rank(points, i) ==
    Cardinality({j \in DOMAIN points :
        \/ points[j].temp_c < points[i].temp_c
        \/ points[j].temp_c = points[i].temp_c /\ j <= i})

SortByTemp(points) ==
    [k \in DOMAIN points |-> points[CHOOSE i \in DOMAIN points : Rank(points, i) = k]]

\* Mutant: the points are saved in the order of the editor
ApplyCurveUnsorted(curve) ==
    [curve EXCEPT !.points =
        [i \in DOMAIN curve.points |->
            [curve.points[i] EXCEPT !.duty_pct = Clamp(@)]]]

(* apply_curve, for a curve that has points                                 *)
ApplyCurve(curve) ==
    [curve EXCEPT !.points =
        SortByTemp([i \in DOMAIN curve.points |->
                       [curve.points[i] EXCEPT !.duty_pct = Clamp(@)]])]

(* The config that save puts together from the copy and the properties      *)
Built(c, p, curves) ==
    [mode |-> p.mode, silent_duty_pct |-> Clamp(p.silent_duty),
     failsafe_temp_c |-> p.failsafe_temp * Degree,
     curve |-> [ch \in Channels |-> ApplyCurve(curves[ch])],
     poll_interval_ms |-> c.poll_interval_ms,
     lcd |-> [enabled |-> p.lcd_enabled, source |-> p.lcd_source]]

-----------------------------------------------------------------------------
(* The bridge's life: open, edit, save, revert, quit.                       *)

Closed ==
    /\ open' = FALSE /\ cfg' = None /\ props' = DefaultProps
    /\ curves_json' = NoCurves /\ editor' = NoCurves
    /\ message' = "" /\ announcing' = FALSE
    /\ touched' = {}

\* The event loop is free
Ready == open /\ ~ announcing

BridgeInit ==
    /\ file \in FirstTexts
    /\ daemon = "down" /\ running = None /\ reload_flag = FALSE
    /\ foreign = FALSE /\ writer = "none" /\ unread = FALSE
    /\ open = FALSE /\ cfg = None /\ props = DefaultProps
    /\ curves_json = NoCurves /\ editor = NoCurves
    /\ message = "" /\ announcing = FALSE
    /\ edits = 0 /\ touched = {}

\* What the window shows is the file: config::load, which does not validate, and the seeding
Show(c) ==
    /\ cfg' = Hidden(c) /\ props' = PropsOf(c)
    /\ curves_json' = c.curve /\ editor' = c.curve
    /\ touched' = {} /\ foreign' = FALSE

Open ==
    /\ ~ open
    /\ open' = TRUE
    /\ IF file = Unparsable
       THEN message' = "error" /\ UNCHANGED <<cfg, view, touched, foreign>>
       ELSE Show(file) /\ UNCHANGED message
    /\ UNCHANGED <<file, daemon, running, reload_flag, writer, unread, announcing, edits>>

\* A kill too: an announcement that was due is not made
Quit == open /\ Closed /\ UNCHANGED outside

\* An edit of the window, of its properties or of its curve editors
Edit(part) ==
    /\ Ready /\ edits < MaxEdits
    /\ edits' = edits + 1
    /\ touched' = touched \cup {part}
    /\ UNCHANGED <<file, daemon, running, reload_flag, foreign, writer, unread,
                   open, cfg, curves_json, message, announcing>>

EditProps ==
    /\ Edit("props")
    /\ \/ \E m \in ModeChoices : props' = [props EXCEPT !.mode = m]
       \/ \E d \in DutyChoices : props' = [props EXCEPT !.silent_duty = d]
       \/ \E t \in CeilingChoices : props' = [props EXCEPT !.failsafe_temp = t]
       \/ props' = [props EXCEPT !.lcd_enabled = ~ @]
       \/ /\ props.lcd_enabled
          /\ \E s \in SourceChoices : props' = [props EXCEPT !.lcd_source = s]
    /\ UNCHANGED editor

NewPoints == {[temp_c |-> p.degrees * Degree, duty_pct |-> p.duty] : p \in PointChoices}

\* The point that "Add point" adds: a little warmer and faster than the last one
NextPoint(points) ==
    IF points = <<>> THEN [temp_c |-> 20 * Degree, duty_pct |-> 50]
    ELSE LET last == points[Len(points)]
         IN  [temp_c   |-> IF last.temp_c < 145 * Degree THEN last.temp_c + 5 * Degree
                           ELSE 150 * Degree,
              duty_pct |-> Clamp(last.duty_pct + 10)]

\* What a drag makes of a point, or a field typed over
Moved(point) ==
    NewPoints
    \cup {[point EXCEPT !.temp_c = p.temp_c] : p \in NewPoints}
    \cup {[point EXCEPT !.duty_pct = p.duty_pct] : p \in NewPoints}

\* What one gesture makes of a list of points: a point is moved; one is added, by a
\* double-click or the button; one is removed
EditedPoints(points) ==
    (UNION {{[points EXCEPT ![i] = p] : p \in Moved(points[i])} : i \in DOMAIN points})
    \cup {Append(points, p) :
            p \in IF Len(points) < MaxPoints THEN NewPoints \cup {NextPoint(points)} ELSE {}}
    \cup {RemoveAt(points, i) : i \in IF Len(points) > 1 THEN DOMAIN points ELSE {}}

EditCurve(ch) ==
    /\ Edit("editor")
    /\ \/ \E new \in EditedPoints(editor[ch].points) :
             editor' = [editor EXCEPT ![ch].points = new]
       \/ \E s \in SourceChoices : editor' = [editor EXCEPT ![ch].temp_source = s]
    /\ UNCHANGED props

(* DaemonBridge::save, up to its rename, of the properties p and the curves *)
(* in curves_json.  A rename leaves of the edits what is not in parts.      *)
SaveRefused ==
    /\ cfg = None \/ \E ch \in Channels : curves_json'[ch].points = <<>>
    /\ message' = "error"
    /\ UNCHANGED <<outside, announcing>>

\* The config does not validate, or the write fails
SaveFails ==
    /\ cfg # None /\ \A ch \in Channels : curves_json'[ch].points # <<>>
    /\ message' = "error"
    /\ UNCHANGED <<outside, announcing>>

SaveWrites ==
    /\ cfg # None /\ \A ch \in Channels : curves_json'[ch].points # <<>>
    /\ file' = Built(cfg, props', curves_json')
    /\ ValidConfig(file')
    /\ announcing' = TRUE
    /\ foreign' = FALSE /\ writer' = "gui"
    /\ UNCHANGED <<daemon, running, reload_flag, unread, edits, message>>

(* The action "Save & Apply" of the window                                  *)
SaveAndApply ==
    /\ Ready
    /\ curves_json' = editor
    /\ UNCHANGED <<open, cfg, props, editor>>
    /\ \/ (SaveRefused \/ SaveFails) /\ touched' = touched \cup {"curves_json"}
       \/ SaveWrites /\ touched' = {}

\* Mutant: the tray saves what the editors hold
ModeFromTrayWithEditors(m) ==
    /\ Ready
    /\ props' = [props EXCEPT !.mode = m]
    /\ curves_json' = editor
    /\ UNCHANGED <<open, cfg, editor>>
    /\ \/ (SaveRefused \/ SaveFails) /\ touched' = touched \cup {"props"}
       \/ SaveWrites /\ touched' = touched \ {"props", "curves_json"}

(* applyModeFromTray: the same save, of the properties as they are and of   *)
(* the curves as they were saved last                                       *)
ModeFromTray(m) ==
    /\ Ready
    /\ props' = [props EXCEPT !.mode = m]
    /\ UNCHANGED <<open, cfg, editor, curves_json>>
    /\ \/ (SaveRefused \/ SaveFails) /\ touched' = touched \cup {"props"}
       \/ SaveWrites /\ touched' = touched \ {"props", "curves_json"}

\* Mutant: success is reported without the request
AnnounceUnsent ==
    /\ announcing
    /\ announcing' = FALSE
    /\ message' = IF daemon = "serving" THEN "saved_reloaded" ELSE "saved"
    /\ UNCHANGED <<outside, open, cfg, view, touched>>

\* request_reload: answered by a daemon that serves, and the end of save
Announce ==
    /\ announcing
    /\ announcing' = FALSE
    /\ IF daemon = "serving"
       THEN reload_flag' = TRUE /\ message' = "saved_reloaded"
       ELSE message' = "saved" /\ UNCHANGED reload_flag
    /\ UNCHANGED <<file, daemon, running, foreign, writer, unread,
                   open, cfg, view, edits, touched>>

\* Mutant: the curve editors are not seeded again
RevertKeepsEditors ==
    /\ Ready
    /\ IF file = Unparsable
       THEN message' = "error" /\ UNCHANGED <<cfg, view, touched, foreign>>
       ELSE /\ cfg' = Hidden(file) /\ props' = PropsOf(file) /\ curves_json' = file.curve
            /\ touched' = {} /\ foreign' = FALSE
            /\ message' = "reverted" /\ UNCHANGED editor
    /\ UNCHANGED <<file, daemon, running, reload_flag, writer, unread, edits, open, announcing>>

(* The action "Revert" of the window; when the bridge cannot load the file  *)
(* the editors are seeded with the curves_json of before                    *)
Revert ==
    /\ Ready
    /\ IF file = Unparsable
       THEN /\ message' = "error"
            /\ editor' = curves_json
            /\ UNCHANGED <<cfg, props, curves_json, touched, foreign>>
       ELSE Show(file) /\ message' = "reverted"
    /\ UNCHANGED <<file, daemon, running, reload_flag, writer, unread, edits, open, announcing>>

-----------------------------------------------------------------------------
(* The others.                                                              *)

\* Another, by the name of who, wrote t
Written(t, who) == file' = t /\ foreign' = TRUE /\ writer' = who

ClientSetsMode ==
    /\ daemon = "serving"
    /\ \E m \in AskedModes :
          /\ Loads(SetActiveMode(file, m))
          /\ Written(SetActiveMode(file, m), "client")
    /\ reload_flag' = TRUE
    /\ UNCHANGED <<daemon, running, unread, edits, bridge>>

HandEdit ==
    /\ edits < MaxEdits /\ edits' = edits + 1
    /\ \E t \in HandTexts : Written(t, "hand")
    /\ UNCHANGED <<daemon, running, reload_flag, unread, bridge>>

DaemonStarts ==
    /\ daemon = "down" /\ Loads(file)
    /\ daemon' = "serving" /\ running' = file /\ unread' = FALSE
    /\ UNCHANGED <<file, reload_flag, foreign, writer, edits, bridge>>

\* The file is taken; or it is refused, or this once it cannot be read
DaemonReloads ==
    /\ daemon = "serving" /\ reload_flag
    /\ reload_flag' = FALSE
    /\ \/ Loads(file) /\ running' = file /\ unread' = FALSE
       \/ unread' = TRUE /\ UNCHANGED running
    /\ UNCHANGED <<file, daemon, foreign, writer, edits, bridge>>

DaemonStops ==
    /\ daemon = "serving"
    /\ daemon' = "down" /\ running' = None /\ reload_flag' = FALSE /\ unread' = FALSE
    /\ UNCHANGED <<file, foreign, writer, edits, bridge>>

Others == ClientSetsMode \/ HandEdit \/ DaemonStarts \/ DaemonReloads \/ DaemonStops

-----------------------------------------------------------------------------
(* Properties.                                                              *)

CurvesType == [Channels -> [temp_source : Sources, points : CurvePoints]]

PropsType ==
    [mode : Modes, silent_duty : 0..255, failsafe_temp : Int,
     lcd_enabled : BOOLEAN, lcd_source : Sources]

Messages == {"", "error", "saved", "saved_reloaded", "reverted"}

\* Every variable has its type; a GUI that was never able to load a config has no copy.
BridgeTypeOK ==
    /\ file \in ConfigType \cup {Unparsable}
    /\ daemon \in {"down", "serving"} /\ reload_flag \in BOOLEAN
    /\ running \in ConfigType \cup {None}
    /\ open \in BOOLEAN /\ announcing \in BOOLEAN
    /\ cfg \in [poll_interval_ms : Nat] \cup {None}
    /\ props \in PropsType
    /\ curves_json \in CurvesType /\ editor \in CurvesType
    /\ message \in Messages
    /\ edits \in 0..MaxEdits
    /\ touched \subseteq {"props", "editor", "curves_json"}
    /\ foreign \in BOOLEAN /\ unread \in BOOLEAN
    /\ writer \in {"none", "gui", "client", "hand"}

\* What the window shows of duties is cut at 100, and it draws curves sorted
Shown(p) == [p EXCEPT !.silent_duty = Clamp(@)]

Drawn(curves) == [ch \in Channels |-> ApplyCurve(curves[ch])]

(* A save writes a whole config from memory (bridge.rs:283).  As long as no *)
(* other program wrote the file since, what the GUI holds is the file: the  *)
(* fields that it does not show, each property and each curve that was not  *)
(* edited, over saves that fail half-way, reverts, switches from the tray   *)
(* and restarts.  So all that a save can overwrite unseen is a change that  *)
(* another made after the GUI last read or wrote the file.                  *)
ViewMatchesFile ==
    open /\ cfg # None /\ ~ foreign =>
        /\ cfg = Hidden(file)
        /\ "props" \notin touched => Shown(props) = Shown(PropsOf(file))
        /\ "editor" \notin touched => Drawn(editor) = Drawn(file.curve)
        /\ "curves_json" \notin touched => Drawn(curves_json) = Drawn(file.curve)

(* "a config one side rejects is never produced by the other"               *)
(* (common/src/config.rs:233-235): although the GUI opens files that the    *)
(* daemon refuses, what it writes is loaded, and its curves are ascending,  *)
(* as the daemon's interpolation needs them.                                *)
SavedLoads ==
    writer = "gui" => Loads(file) /\ \A ch \in Channels : Sorted(file.curve[ch].points)

(* "Saved and reloaded." is true: the daemon runs what was saved, together  *)
(* with the mode that another client may have set since, or is about to     *)
(* take the reload; unless a user edited the file by hand, which nobody     *)
(* announces, or a reload failed.                                           *)
ToldTruth ==
    /\ message = "saved_reloaded" /\ ~ announcing /\ daemon = "serving"
    /\ writer # "hand" /\ ~ unread
    => reload_flag \/ running = file

(* "curvesJson still holds the last-saved curves, so uncommitted edits in   *)
(* an open window are neither applied nor lost" (Main.qml:45-47), of the    *)
(* curves: a save that leaves edits in the editors is one of the tray, and  *)
(* writes the curves that were in the file, unless another wrote the file.  *)
(* So it is while curvesJson does hold them.  After a Save & Apply that     *)
(* failed it does not, and the tray writes the curves that were refused.    *)
TrayKeepsCurves ==
    [][~ announcing /\ announcing' /\ "editor" \in touched' /\ ~ foreign
        /\ "curves_json" \notin touched
        => file'.curve = Drawn(file.curve) /\ editor' = editor]_bridgeVars

(* "a failed revert should not destroy the user's work on top of the error" *)
(* (bridge.rs:305-306): it leaves the window as it was.                     *)
FailedRevertKeepsWork ==
    [][Revert /\ cfg # None /\ file = Unparsable => UNCHANGED view]_bridgeVars
=============================================================================
