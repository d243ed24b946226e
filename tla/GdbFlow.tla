------------------------------- MODULE GdbFlow -------------------------------
(***************************************************************************)
(* provision_curve.py --gdb-run: main writes the GDB script and calls      *)
(* _run_gdb_flow, which checks its files, starts `west debugserver` as a   *)
(* child process, polls 127.0.0.1:3333 with _wait_for_port, runs gdb, and  *)
(* in a finally clause terminates the debugserver, waits 5 s for it and    *)
(* kills it if it is still running.                                        *)
(*                                                                         *)
(* The other actors are the debugserver (it starts listening, or exits on  *)
(* its own, e.g. without a probe; it may ignore SIGTERM), a listener left  *)
(* on port 3333 by another program, and the operator's Ctrl-C, which       *)
(* raises KeyboardInterrupt in the tool and sends SIGINT to the whole      *)
(* foreground process group.  Time is a counter advanced by the poll's     *)
(* sleep.                                                                  *)
(***************************************************************************)
EXTENDS Naturals

CONSTANTS
    PortTimeout,    \* the timeout of _wait_for_port (15 s)
    RetrySleep,     \* the sleep after a refused connect (0.2 s)
    MaxInterrupts   \* bound on Ctrl-C presses

ASSUME GdbFlowAssumption ==
    /\ PortTimeout \in Nat \ {0}
    /\ RetrySleep \in Nat \ {0}
    /\ MaxInterrupts \in Nat

VARIABLES
    hpc,         \* where the tool is
    filesOk,     \* the script, the ELF and gdb exist
    now,         \* time.monotonic()
    deadline,    \* the deadline of _wait_for_port
    ds,          \* the debugserver: "none", "starting", "listening", "exited"
    stubborn,    \* the debugserver does not exit on SIGTERM
    foreign,     \* another program listens on port 3333
    gdbTarget,   \* what gdb's `target remote :3333` reached
    exitKind,    \* how the tool ended: "ok", "error" (SystemExit), or by a
                 \* KeyboardInterrupt in the try ("interrupt") or in the
                 \* finally clause ("interrupt_teardown")
    interrupts   \* Ctrl-C presses so far

vars == <<hpc, filesOk, now, deadline, ds, stubborn, foreign, gdbTarget,
          exitKind, interrupts>>

Hpcs == {"emit", "check", "spawn", "poll", "gdb", "finally", "wait", "exited"}
Running(d) == d \in {"starting", "listening"}
PortOpen == ds = "listening" \/ foreign

TypeOK ==
    /\ hpc \in Hpcs
    /\ filesOk \in BOOLEAN /\ stubborn \in BOOLEAN /\ foreign \in BOOLEAN
    /\ now \in 0..(PortTimeout + RetrySleep)
    /\ deadline \in 0..PortTimeout
    /\ ds \in {"none", "starting", "listening", "exited"}
    /\ gdbTarget \in {"none", "ours", "other", "nothing"}
    /\ exitKind \in {"none", "ok", "error", "interrupt", "interrupt_teardown"}
    /\ interrupts \in 0..MaxInterrupts

Init ==
    /\ hpc = "emit"
    /\ filesOk \in BOOLEAN
    /\ now = 0
    /\ deadline = 0
    /\ ds = "none"
    /\ stubborn \in BOOLEAN
    /\ foreign \in BOOLEAN
    /\ gdbTarget = "none"
    /\ exitKind = "none"
    /\ interrupts = 0

-----------------------------------------------------------------------------
(* The tool.                                                               *)

(* main: the script is written to --gdb-script or a temporary file.        *)
Emit ==
    /\ hpc = "emit"
    /\ hpc' = "check"
    /\ UNCHANGED <<filesOk, now, deadline, ds, stubborn, foreign, gdbTarget,
                   exitKind, interrupts>>

(* The three existence checks of _run_gdb_flow: SystemExit before anything *)
(* is started.                                                             *)
Check ==
    /\ hpc = "check"
    /\ IF filesOk THEN hpc' = "spawn" /\ UNCHANGED exitKind
                  ELSE hpc' = "exited" /\ exitKind' = "error"
    /\ UNCHANGED <<filesOk, now, deadline, ds, stubborn, foreign, gdbTarget,
                   interrupts>>

(* subprocess.Popen(debug_cmd), then _wait_for_port sets its deadline.     *)
Spawn ==
    /\ hpc = "spawn"
    /\ ds' = "starting"
    /\ deadline' = now + PortTimeout
    /\ hpc' = "poll"
    /\ UNCHANGED <<filesOk, now, stubborn, foreign, gdbTarget, exitKind,
                   interrupts>>

(* A connect that succeeds, to whatever listens on the port.               *)
PollConnect ==
    /\ hpc = "poll"
    /\ now < deadline
    /\ PortOpen
    /\ hpc' = "gdb"
    /\ UNCHANGED <<filesOk, now, deadline, ds, stubborn, foreign, gdbTarget,
                   exitKind, interrupts>>

(* Seeded fault for TypeOK: the deadline test of the loop dropped.         *)
PollRefusedUnbounded ==
    /\ hpc = "poll"
    /\ ~PortOpen
    /\ now' = now + RetrySleep
    /\ UNCHANGED <<hpc, filesOk, deadline, ds, stubborn, foreign, gdbTarget,
                   exitKind, interrupts>>

(* A refused connect: sleep 0.2 s and test the deadline again.             *)
PollRefused ==
    /\ hpc = "poll"
    /\ now < deadline
    /\ ~PortOpen
    /\ now' = now + RetrySleep
    /\ UNCHANGED <<hpc, filesOk, deadline, ds, stubborn, foreign, gdbTarget,
                   exitKind, interrupts>>

(* _wait_for_port returned False: SystemExit inside the try.              *)
PollTimeout ==
    /\ hpc = "poll"
    /\ now >= deadline
    /\ hpc' = "finally"
    /\ exitKind' = "error"
    /\ UNCHANGED <<filesOk, now, deadline, ds, stubborn, foreign, gdbTarget,
                   interrupts>>

(* subprocess.run(gdb_cmd): gdb reaches whatever listens on the port now;  *)
(* a non-zero status raises SystemExit.                                    *)
GdbRun ==
    /\ hpc = "gdb"
    /\ gdbTarget' = IF ds = "listening" THEN "ours"
                    ELSE IF foreign THEN "other" ELSE "nothing"
    /\ exitKind' \in {"ok", "error"}
    /\ hpc' = "finally"
    /\ UNCHANGED <<filesOk, now, deadline, ds, stubborn, foreign, interrupts>>

(* finally: if debug_proc.poll() is None, terminate(); a debugserver that  *)
(* honours SIGTERM is gone before the wait ends.                           *)
Finally ==
    /\ hpc = "finally"
    /\ IF Running(ds)
         THEN /\ hpc' = "wait"
              /\ ds' = IF stubborn THEN ds ELSE "exited"
         ELSE /\ hpc' = "exited"
              /\ UNCHANGED ds
    /\ UNCHANGED <<filesOk, now, deadline, stubborn, foreign, gdbTarget,
                   exitKind, interrupts>>

(* debug_proc.wait(timeout=5.0) returns.                                   *)
WaitReturns ==
    /\ hpc = "wait"
    /\ ~Running(ds)
    /\ hpc' = "exited"
    /\ UNCHANGED <<filesOk, now, deadline, ds, stubborn, foreign, gdbTarget,
                   exitKind, interrupts>>

(* Seeded fault for TeardownStopsServer: TimeoutExpired swallowed without  *)
(* the kill.                                                               *)
WaitTimesOutNoKill ==
    /\ hpc = "wait"
    /\ Running(ds)
    /\ hpc' = "exited"
    /\ UNCHANGED <<filesOk, now, deadline, ds, stubborn, foreign, gdbTarget,
                   exitKind, interrupts>>

(* Seeded fault for EndsUnlessGdbWaits: wait() without a timeout, which   *)
(* never returns for a debugserver that ignores SIGTERM.                   *)
WaitTimesOutBlocked ==
    /\ hpc = "wait"
    /\ Running(ds)
    /\ UNCHANGED vars

(* TimeoutExpired: debug_proc.kill().                                      *)
WaitTimesOut ==
    /\ hpc = "wait"
    /\ Running(ds)
    /\ ds' = "exited"
    /\ hpc' = "exited"
    /\ UNCHANGED <<filesOk, now, deadline, stubborn, foreign, gdbTarget,
                   exitKind, interrupts>>

(* Ctrl-C: KeyboardInterrupt in the tool.  Inside the try it runs the      *)
(* finally clause; inside the finally clause it ends the tool at once.     *)
(* SIGINT also reaches the debugserver, which may or may not exit on it.   *)
Interrupt ==
    /\ interrupts < MaxInterrupts
    /\ hpc \in {"poll", "gdb", "finally", "wait"}
    /\ interrupts' = interrupts + 1
    /\ IF hpc \in {"poll", "gdb"}
         THEN hpc' = "finally" /\ exitKind' = "interrupt"
         ELSE hpc' = "exited" /\ exitKind' = "interrupt_teardown"
    /\ ds' \in {ds, IF Running(ds) THEN "exited" ELSE ds}
    /\ UNCHANGED <<filesOk, now, deadline, stubborn, foreign, gdbTarget>>

-----------------------------------------------------------------------------
(* The debugserver.                                                        *)

(* OpenOCD binds port 3333, which it cannot while another program holds it.*)
DsListen ==
    /\ ds = "starting"
    /\ ~foreign
    /\ ds' = "listening"
    /\ UNCHANGED <<hpc, filesOk, now, deadline, stubborn, foreign, gdbTarget,
                   exitKind, interrupts>>

(* It exits on its own: no probe, the port taken, a crash.                 *)
DsExit ==
    /\ Running(ds)
    /\ ds' = "exited"
    /\ UNCHANGED <<hpc, filesOk, now, deadline, stubborn, foreign, gdbTarget,
                   exitKind, interrupts>>

Tool ==
    \/ Emit \/ Check \/ Spawn \/ PollConnect \/ PollRefused \/ PollTimeout
    \/ GdbRun \/ Finally \/ WaitReturns \/ WaitTimesOut

Next == Tool \/ Interrupt \/ DsListen \/ DsExit

(* The tool is one thread, and every call it makes outside gdb returns:    *)
(* the file checks, Popen, connect with its 1 s timeout, sleep, poll,      *)
(* terminate, wait(timeout=5.0) and kill.  gdb gets no fairness: it runs   *)
(* without -batch, so an error in the -x script leaves it at its console   *)
(* for the operator.  The debugserver and the operator get none either.    *)
Fairness ==
    /\ WF_vars(Emit) /\ WF_vars(Check) /\ WF_vars(Spawn)
    /\ WF_vars(PollConnect) /\ WF_vars(PollRefused) /\ WF_vars(PollTimeout)
    /\ WF_vars(Finally) /\ WF_vars(WaitReturns) /\ WF_vars(WaitTimesOut)

Spec == Init /\ [][Next]_vars
FairSpec == Spec /\ Fairness

-----------------------------------------------------------------------------
(* Properties.                                                             *)

(* The teardown of the finally clause: when the tool ends by success, by a *)
(* SystemExit (a missing file, the port timeout, a gdb failure) or by a    *)
(* Ctrl-C before the teardown, the debugserver it started is no longer     *)
(* running, even if it ignores SIGTERM or exited or began listening in     *)
(* between.                                                                *)
TeardownStopsServer ==
    (hpc = "exited" /\ exitKind # "interrupt_teardown") => ~Running(ds)

(* Every run of the tool ends, unless gdb stays at its console for good:   *)
(* the port poll times out, and the wait for the terminated debugserver is *)
(* cut short by kill, so no step of the tool outside gdb blocks forever.   *)
EndsUnlessGdbWaits == <>(hpc = "exited") \/ <>[](hpc = "gdb")

(* Whatever way the tool ends, Ctrl-C included, it leaves no debugserver   *)
(* running to hold port 3333 and the probe.                                *)
DebugserverStopped == hpc = "exited" => ~Running(ds)

(* gdb is run against the debugserver the tool started, as the --gdb-run   *)
(* help and the "waiting for OpenOCD" message take for granted.            *)
GdbUsesOwnServer == gdbTarget # "other"
=============================================================================
