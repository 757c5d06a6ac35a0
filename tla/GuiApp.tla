------------------------------- MODULE GuiApp -------------------------------
(***************************************************************************)
(* The GUI's window and tray icon (gui/qml/Main.qml, SettingsPage.qml) and  *)
(* its own preferences (gui/src/settings.rs), around the bridge: what can   *)
(* be done when, a window that hides in the tray, gui.toml, which is        *)
(* rewritten in place at every toggle, and the autostart entry that goes    *)
(* with it.                                                                 *)
(*                                                                          *)
(* gui.toml is the settings that load_from makes of it, which are the       *)
(* defaults when it is missing or does not parse.                          *)
(***************************************************************************)
EXTENDS GuiBridge

VARIABLES
    window,        \* is the window visible?
    prefs,         \* the four settings, as the bridge's properties hold them
    gui_toml,      \* the settings that gui.toml holds
    entry,         \* is there an autostart entry?
    settings_ok    \* history: the last save of the settings was not cut short

own == <<prefs, gui_toml, entry, settings_ok>>
app == <<window, own>>
vars == <<bridgeVars, app>>

\* The fields of GuiSettings, in the order in which they are written
Fields == <<"tray_icon", "close_to_tray", "start_minimized", "autostart">>

Settings == [{Fields[i] : i \in DOMAIN Fields} -> BOOLEAN]

DefaultSettings == [f \in {Fields[i] : i \in DOMAIN Fields} |-> f = "tray_icon"]

\* What load_from makes of a file cut off in the writing of s: the lines that are there
Torn(s) ==
    {[f \in DOMAIN s |-> IF \E i \in 1..k : Fields[i] = f THEN s[f] ELSE DefaultSettings[f]] :
        k \in 0..Len(Fields)}

\* The icon is on, and the desktop shows it: available is trayIcon.available, which the
\* desktop may change at any time
TrayUsable(available) == prefs["tray_icon"] /\ available

Init ==
    /\ BridgeInit
    /\ window = FALSE
    /\ prefs = DefaultSettings /\ gui_toml = DefaultSettings /\ entry = FALSE
    /\ settings_ok = TRUE

-----------------------------------------------------------------------------
(* The window.                                                              *)

\* Mutant: a minimized start does not ask for the icon
StartUnguarded ==
    /\ Open
    /\ prefs' = gui_toml
    /\ window' = ~ gui_toml["start_minimized"]
    /\ UNCHANGED <<gui_toml, entry, settings_ok>>

\* A user or the desktop session starts the GUI, which asks for the switch and not for the tray
Start ==
    /\ Open
    /\ prefs' = gui_toml
    /\ window' = ~ (gui_toml["start_minimized"] /\ gui_toml["tray_icon"])
    /\ UNCHANGED <<gui_toml, entry, settings_ok>>

\* Mutant: the window outlives the process
EndKeepsWindow ==
    /\ Quit
    /\ prefs' = DefaultSettings
    /\ UNCHANGED <<window, gui_toml, entry, settings_ok>>

\* Quit from the tray's menu, or a kill
End ==
    /\ Quit
    /\ window' = FALSE /\ prefs' = DefaultSettings
    /\ UNCHANGED <<gui_toml, entry, settings_ok>>

Hide ==
    /\ window' = FALSE
    /\ UNCHANGED <<bridgeVars, own>>

(* onClosing; the last window that is closed takes the application with it  *)
Close ==
    /\ Ready /\ window
    /\ \E available \in BOOLEAN :
          IF prefs["close_to_tray"] /\ TrayUsable(available) THEN Hide ELSE End

\* A click on the icon, its menu, or "Hide to tray"
ToggleWindow ==
    /\ Ready /\ \E available \in BOOLEAN : TrayUsable(available)
    /\ window' = ~ window
    /\ UNCHANGED <<bridgeVars, own>>

-----------------------------------------------------------------------------
(* The settings page: each switch is saved at once, by save_to and then     *)
(* sync_autostart.                                                          *)

\* The switch of f is flipped: it is enabled, and the settings become new
Flip(f, new) ==
    /\ Ready /\ window /\ edits < MaxEdits
    /\ f \in {"tray_icon", "autostart"} \/ prefs["tray_icon"]
    /\ new = [prefs EXCEPT ![f] = ~ @]
    /\ edits' = edits + 1
    /\ UNCHANGED <<file, daemon, running, reload_flag, foreign, writer, unread>>

\* Mutant: the entry is written when it is wanted and never removed
SettingsSavedNoRemove(f) ==
    \E new \in Settings :
        /\ Flip(f, new)
        /\ prefs' = new /\ gui_toml' = new /\ settings_ok' = TRUE
        /\ entry' = (entry \/ new["autostart"])
        /\ UNCHANGED <<bridge, window>>

SettingsSaved(f) ==
    \E new \in Settings :
        /\ Flip(f, new)
        /\ prefs' = new /\ gui_toml' = new /\ settings_ok' = TRUE
        /\ entry' = new["autostart"]
        /\ UNCHANGED <<bridge, window>>

\* How far a save of new gets that is cut short
SavedInPart(new) ==
    /\ settings_ok' = FALSE
    /\ \/ gui_toml' \in Torn(new) \cup {gui_toml} /\ UNCHANGED entry
       \/ gui_toml' = new /\ entry' \in {entry, entry \/ new["autostart"]}

SettingsFail(f) ==
    \E new \in Settings :
        /\ Flip(f, new)
        /\ SavedInPart(new)
        /\ prefs' = new
        /\ message' = "error"
        /\ UNCHANGED <<open, cfg, view, announcing, touched, window>>

\* The GUI is killed in the middle of it
SettingsKilled(f) ==
    \E new \in Settings :
        /\ Flip(f, new)
        /\ SavedInPart(new)
        /\ Closed
        /\ window' = FALSE /\ prefs' = DefaultSettings

-----------------------------------------------------------------------------
Toggle(f) == SettingsSaved(f) \/ SettingsFail(f) \/ SettingsKilled(f)

FromWindow ==
    /\ window
    /\ EditProps \/ (\E ch \in EditedChannels : EditCurve(ch)) \/ SaveAndApply \/ Revert
    /\ UNCHANGED app

FromTray ==
    /\ \E available \in BOOLEAN : TrayUsable(available)
    /\ \E m \in ModeChoices : ModeFromTray(m)
    /\ UNCHANGED app

Elsewhere == (Announce \/ Others) /\ UNCHANGED app

Next ==
    \/ Start \/ End \/ Close \/ ToggleWindow
    \/ \E f \in DOMAIN DefaultSettings : Toggle(f)
    \/ FromWindow \/ FromTray \/ Elsewhere

Spec == Init /\ [][Next]_vars

-----------------------------------------------------------------------------
(* Properties.                                                              *)

\* Every variable has its type; a window is one of a process.
TypeOK ==
    /\ BridgeTypeOK
    /\ window \in BOOLEAN /\ entry \in BOOLEAN
    /\ prefs \in Settings /\ gui_toml \in Settings
    /\ settings_ok \in BOOLEAN
    /\ window => open

(* "a hidden window with no tray icon has no way back"                      *)
(* (SettingsPage.qml:66): whatever the switches, the saved settings and     *)
(* what cut a save of them short, a GUI without a window has its icon       *)
(* switched on.                                                             *)
HiddenHasTray == open /\ ~ window => prefs["tray_icon"]

(* The autostart entry, gui.toml and the switches say the same, unless the  *)
(* last save of the settings was cut short.                                 *)
SettingsAgree ==
    settings_ok =>
        /\ entry = gui_toml["autostart"]
        /\ open => prefs = gui_toml
=============================================================================
