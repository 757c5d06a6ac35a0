--------------------------- MODULE MCConfigStore ---------------------------
(***************************************************************************)
(* Values for the constants of ConfigStore.                                *)
(***************************************************************************)
EXTENDS ConfigStore, TLC

Point(t, d) == [temp_c |-> t, duty_pct |-> d]

Curve1(d) == [temp_source |-> "Liquid", points |-> <<Point(20, d)>>]

\* Two configs that differ in a curve, so that a change of it can get lost
Base ==
    [mode |-> "Auto", silent_duty_pct |-> 40, failsafe_temp_c |-> 60,
     curve |-> [pump |-> Curve1(50), fan |-> Curve1(30)],
     poll_interval_ms |-> 1000,
     lcd |-> [enabled |-> FALSE, source |-> "Cpu"]]

Quieter == [Base EXCEPT !.curve["fan"] = Curve1(20)]

LowCeiling == [Base EXCEPT !.failsafe_temp_c = 6]

First == {Base}
Saved == {Quieter}
ByHand == {LowCeiling}
Nothing == {}

Symmetry == Permutations(Clients)
=============================================================================
