---------------------------- MODULE MC_GdbFlow ----------------------------
(* A port timeout of four sleeps (15 s / 0.2 s is 75) leaves room for the  *)
(* debugserver to start listening, or to exit, between any two polls.     *)
EXTENDS GdbFlow

MCPortTimeout == 4
MCRetrySleep == 1
MCMaxInterrupts == 1
=============================================================================
