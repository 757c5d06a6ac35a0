------------------------------- MODULE Config -------------------------------
(***************************************************************************)
(* Config of common/src/config.rs: what a config.toml says, when it is      *)
(* accepted, and the edit that set_active_mode makes to it.  Pure.          *)
(*                                                                          *)
(* The text of the file is abstracted to the record it parses to.           *)
(* Unparsable stands for every text that does not parse, and for a file     *)
(* that cannot be read.  hwmon.device_name is left out: it names the one    *)
(* device the model has.                                                    *)
(***************************************************************************)
EXTENDS Curve

CONSTANTS
    NaN,          \* the f32 that is no number: the TOML literal nan
    Unparsable    \* the text of a file that does not parse

ASSUME NaNAssumption == NaN \notin Int

Modes == {"Performance", "Silent", "Auto"}

Sources == {"Liquid", "Cpu", "Gpu"}

Channels == {"pump", "fan"}

ConfigType ==
    [mode : Modes,
     silent_duty_pct : 0..255,
     failsafe_temp_c : Int \cup {NaN},
     curve : [Channels -> [temp_source : Sources, points : CurvePoints]],
     poll_interval_ms : Nat,
     lcd : [enabled : BOOLEAN, source : Sources]]

ASSUME UnparsableAssumption == Unparsable \notin ConfigType

\* The comparisons of f32: with NaN on either side both are false
F32Lt(a, b) == a # NaN /\ b # NaN /\ a < b

F32Ge(a, b) == a # NaN /\ b # NaN /\ a >= b

MinFailsafe == 40 * Degree

\* Mutant: the duty of Silent mode is not looked at
ValidConfigWithoutSilent(cfg) ==
    /\ \A c \in Channels : ValidCurve(cfg.curve[c].points)
    /\ ~ F32Lt(cfg.failsafe_temp_c, MinFailsafe)
    /\ cfg.poll_interval_ms \in 100..5000

(* Config::validate                                                         *)
ValidConfig(cfg) ==
    /\ \A c \in Channels : ValidCurve(cfg.curve[c].points)
    /\ ~ F32Lt(cfg.failsafe_temp_c, MinFailsafe)
    /\ cfg.silent_duty_pct <= 100
    /\ cfg.poll_interval_ms \in 100..5000

(* Config::load succeeds on this text, and then yields the record itself    *)
Loads(text) == text # Unparsable /\ ValidConfig(text)

(* set_active_mode: the edited text, to be written only when it loads.      *)
(* Comments, order and layout are not in the record, so every other field   *)
(* being kept is what "byte for byte" comes to.                             *)
SetActiveMode(text, m) ==
    IF text = Unparsable THEN Unparsable ELSE [text EXCEPT !.mode = m]
=============================================================================
