--------------------------- MODULE MCControlLoop ---------------------------
(***************************************************************************)
(* Values for the constants of ControlLoop.                                *)
(***************************************************************************)
EXTENDS ControlLoop

Point(t, d) == [temp_c |-> t, duty_pct |-> d]

\* The shape of config/default.toml, with the fan on the CPU's temperature
Auto ==
    [mode |-> "Auto", silent_duty_pct |-> 40, failsafe_temp_c |-> 60,
     curve |-> [pump |-> [temp_source |-> "Liquid",
                          points |-> <<Point(20, 50), Point(55, 100)>>],
                fan  |-> [temp_source |-> "Cpu",
                          points |-> <<Point(20, 30), Point(55, 100)>>]],
     poll_interval_ms |-> 1000,
     lcd |-> [enabled |-> FALSE, source |-> "Cpu"]]

Silent == [Auto EXCEPT !.mode = "Silent", !.lcd.enabled = TRUE, !.lcd.source = "Liquid"]

HighSilent == [Silent EXCEPT !.silent_duty_pct = 150]

NoCeiling == [Silent EXCEPT !.failsafe_temp_c = NaN]

SomeFiles == {Auto, Silent, HighSilent}

NaNFiles == {Silent, NoCeiling}

SomeReadings == [Liquid |-> {30, 60}, Cpu |-> {40}, Gpu |-> {}]
=============================================================================
