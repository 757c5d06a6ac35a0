------------------------------ MODULE MCGuiApp ------------------------------
(***************************************************************************)
(* Values for the constants of GuiApp.  Temperatures are half degrees, so   *)
(* that a ceiling can lie between two of the window's whole degrees.        *)
(***************************************************************************)
EXTENDS GuiApp

Point(t, d) == [temp_c |-> t * Degree, duty_pct |-> d]

Plain ==
    [mode |-> "Auto", silent_duty_pct |-> 40, failsafe_temp_c |-> 60 * Degree,
     curve |-> [ch \in Channels |->
                   [temp_source |-> "Liquid", points |-> <<Point(20, 50)>>]],
     poll_interval_ms |-> 1000,
     lcd |-> [enabled |-> FALSE, source |-> "Cpu"]]

\* What a user may write: a slower poll and a ceiling of 50.5 degrees; a file that the
\* daemon refuses, with a ceiling of 30, a duty of 150 and points in falling order;
\* one with a curve without points, which parses
Slower == [Plain EXCEPT !.poll_interval_ms = 2000, !.failsafe_temp_c = 101]

Refused ==
    [Plain EXCEPT !.failsafe_temp_c = 30 * Degree, !.silent_duty_pct = 150,
                  !.curve["fan"].points = <<Point(30, 150), Point(20, 50)>>]

Pointless == [Plain EXCEPT !.curve["pump"].points = <<>>]

First == {Plain}

ByHand == {Slower, Refused, Pointless, Unparsable}

Broken == {Unparsable}

OnePoint == {[degrees |-> 10, duty |-> 80]}
=============================================================================
