---------------------------- MODULE MC_Session ----------------------------
(* A small instance of Session.  One time unit is the 50 ms back-off; the  *)
(* 0.2 s grace and 0.5 s poll timeout keep their ratios to it, the long    *)
(* waits are shortened so that each wait loop runs a few iterations.       *)
EXTENDS Session

MCMaxAttempts == 2
MCBackoff == 1
MCGrace == 4
MCPollTimeout == 10
MCReadyTimeout == 24
MCSendDelay == 20
MCWaitTimes == {0, 16}
MCMaxNoise == 1
MCMaxReboots == 1
MCMaxFaults == 1
=============================================================================
