------------------------------ MODULE MCDaemon ------------------------------
(***************************************************************************)
(* Values for the constants of Daemon.                                     *)
(***************************************************************************)
EXTENDS Daemon

Point(t, d) == [temp_c |-> t, duty_pct |-> d]

Silent ==
    [mode |-> "Silent", silent_duty_pct |-> 40, failsafe_temp_c |-> 60,
     curve |-> [ch \in Channels |->
                   [temp_source |-> "Liquid", points |-> <<Point(20, 50)>>]],
     poll_interval_ms |-> 1000,
     lcd |-> [enabled |-> FALSE, source |-> "Cpu"]]

Full == [Silent EXCEPT !.mode = "Performance"]

First == {Silent}

Known == {Silent, Full}

Nothing == {}

HotReadings == [Liquid |-> {60}, Cpu |-> {}, Gpu |-> {}]
=============================================================================
