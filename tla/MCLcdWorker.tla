---------------------------- MODULE MCLcdWorker ----------------------------
(***************************************************************************)
(* Values for the constants of LcdWorker.  A unit of time is what one       *)
(* command's calls to the device may take; the keep-alive interval is one,  *)
(* and the watchdog is as short as it may be.  Two readings, one of them of *)
(* a missing sensor, make two frames, which the two buckets need.           *)
(***************************************************************************)
EXTENDS LcdWorker

Reading(s, t) == [source |-> s, temp |-> t]

TwoReadings == {Reading("Cpu", 40), Reading("Cpu", None)}
=============================================================================
