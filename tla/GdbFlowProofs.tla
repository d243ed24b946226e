---------------------------- MODULE GdbFlowProofs ----------------------------
(***************************************************************************)
(* Proofs about GdbFlow, for every port timeout, sleep and bound on Ctrl-C *)
(* presses allowed by GdbFlowAssumption.                                  *)
(*                                                                         *)
(* TeardownStopsServer is not inductive on its own: a run that leaves      *)
(* through the file checks passes none of the teardown, and is safe only   *)
(* because nothing was started yet.  TypeOK bounds the clock only because  *)
(* the port deadline is set from a clock still at zero.  BeforeSpawn says  *)
(* both.                                                                   *)
(***************************************************************************)
EXTENDS GdbFlow, TLAPS

(* Before Popen no debugserver exists and no time has passed.              *)
BeforeSpawn == hpc \in {"emit", "check", "spawn"} => ds = "none" /\ now = 0

IInv == TypeOK /\ TeardownStopsServer /\ BeforeSpawn

USE GdbFlowAssumption

LEMMA InitIInv == Init => IInv
BY DEF Init, IInv, TypeOK, Hpcs, TeardownStopsServer, BeforeSpawn, Running

LEMMA NextIInv == IInv /\ [Next]_vars => IInv'
<1> SUFFICES ASSUME IInv, [Next]_vars PROVE IInv'
  OBVIOUS
<1> USE DEF IInv, TypeOK, Hpcs, TeardownStopsServer, BeforeSpawn, Running
<1>1. CASE Emit \/ Check \/ Spawn
  BY <1>1 DEF Emit, Check, Spawn
<1>2. CASE PollConnect \/ PollRefused \/ PollTimeout
  BY <1>2 DEF PollConnect, PollRefused, PollTimeout, PortOpen
<1>3. CASE GdbRun
  BY <1>3 DEF GdbRun
<1>4. CASE Finally \/ WaitReturns \/ WaitTimesOut
  BY <1>4 DEF Finally, WaitReturns, WaitTimesOut
<1>5. CASE Interrupt
  BY <1>5 DEF Interrupt
<1>6. CASE DsListen \/ DsExit
  BY <1>6 DEF DsListen, DsExit
<1>7. CASE UNCHANGED vars
  BY <1>7 DEF vars
<1>8. QED
  BY <1>1, <1>2, <1>3, <1>4, <1>5, <1>6, <1>7 DEF Next, Tool

LEMMA IInvInvariant == Spec => []IInv
BY InitIInv, NextIInv, PTL DEF Spec

(* The tool's state stays well typed; in particular the clock of the port  *)
(* poll never runs more than one sleep past the 15 s deadline.             *)
THEOREM GdbTypeCorrect == Spec => []TypeOK
BY IInvInvariant, PTL DEF IInv

(* The finally clause of _run_gdb_flow stops the debugserver on every exit *)
(* but a Ctrl-C inside the clause itself: a missing file, the port        *)
(* timeout, a gdb failure or success, a Ctrl-C during the poll or gdb, a   *)
(* debugserver that ignores SIGTERM.                                       *)
THEOREM TeardownSound == Spec => []TeardownStopsServer
BY IInvInvariant, PTL DEF IInv
=============================================================================
