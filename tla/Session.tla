------------------------------ MODULE Session ------------------------------
(***************************************************************************)
(* The UART provisioning session of tools/provision_curve.py:              *)
(* _send_curve_command together with the two polling loops it drives,     *)
(* _drain_until_ready and _drain_response, and the device at the other     *)
(* end of the serial line.                                                 *)
(*                                                                         *)
(* Time is a discrete clock `now` advanced only by the host's blocking     *)
(* calls (the poll timeout of ser.read, the 50 ms back-off, the settle     *)
(* delay).  Received text is abstracted to the set of kinds of line that   *)
(* are waiting in the OS input buffer: a ready banner, the ack banner, or  *)
(* other output.  A read returns everything buffered (ser.in_waiting > 0)  *)
(* or, when nothing is buffered, blocks up to the poll timeout.            *)
(***************************************************************************)
EXTENDS Naturals, Integers

CONSTANTS
    MaxAttempts,   \* max_attempts = 2
    Backoff,       \* time.sleep(0.05) between empty reads
    Grace,         \* the 0.2 s deadline extension of _drain_response
    PollTimeout,   \* serial.Serial(..., timeout=0.5)
    ReadyTimeout,  \* --ready-timeout
    SendDelay,     \* --send-delay
    WaitTimes,     \* the values of --wait the model tries (0 included)
    MaxNoise,      \* bound on the device's non-marker output lines
    MaxReboots,    \* bound on device reboots during one session
    MaxFaults      \* bound on serial exceptions during one session

ASSUME ConstantsAssumption ==
    /\ MaxAttempts \in Nat \ {0}
    /\ Backoff \in Nat \ {0}
    /\ Grace \in Nat
    /\ PollTimeout \in Nat \ {0}
    /\ ReadyTimeout \in Nat
    /\ SendDelay \in Nat
    /\ WaitTimes \subseteq Int
    /\ MaxNoise \in Nat
    /\ MaxReboots \in Nat
    /\ MaxFaults \in Nat

(* Kinds of device output.  READY_MARKERS and ACK_MARKERS are disjoint.    *)
Kinds == {"ready", "ack", "noise"}
READY_MARKERS == {"ready"}
ACK_MARKERS == {"ack"}

(* Sentinel for "no data read yet in this ack wait".                       *)
NoData == -1

VARIABLES
    \* the command line: --wait-ready, --no-read, stdin.isatty(),
    \* --command-file given, --wait
    waitReady, noRead, interactive, cmdFile, waitTime,
    \* host
    pc,          \* where _send_curve_command is
    now,         \* time.monotonic()
    deadline,    \* the deadline of the current drain loop
    attempts,    \* attempts
    ackSeen,     \* ack_seen (of the current _drain_response and the caller)
    readyTag,    \* what _drain_until_ready returned
    outcome,     \* what the session reported when it returned
    \* serial line
    rx,          \* kinds of text waiting in the input buffer
    faults,      \* serial exceptions raised so far
    \* device
    dev,         \* "booting" or "ready"
    pendingAck,  \* the device applied a command and has not yet printed the ack
    applied,     \* commands the device applied
    noise,       \* non-marker lines printed
    reboots,     \* reboots so far
    \* history (for the properties only)
    ackStart,    \* `now` when the current ack wait started
    lastData     \* `now` at the last non-empty read of the current ack wait

modeVars == <<waitReady, noRead, interactive, cmdFile, waitTime>>
hostVars == <<pc, now, deadline, attempts, ackSeen, readyTag, outcome>>
devVars == <<dev, pendingAck, applied, noise, reboots>>
histVars == <<ackStart, lastData>>
vars == <<modeVars, hostVars, rx, faults, devVars, histVars>>

Pcs == {"open", "ready", "ready_wait", "settle", "send", "ack", "ack_wait",
        "decide", "prompt", "done"}
Outcomes == {"none", "acked", "unconfirmed", "failed", "aborted"}

(* The port is open inside the `with serial.Serial(...)` block.            *)
PortOpen == pc \notin {"open", "done"}

Later(a, b) == IF a >= b THEN a ELSE b

(* The type invariant, in three parts: flags, enumerations and sets, and   *)
(* numbers.                                                                *)
FlagsTypeOK ==
    /\ waitReady \in BOOLEAN /\ noRead \in BOOLEAN
    /\ interactive \in BOOLEAN /\ cmdFile \in BOOLEAN
    /\ ackSeen \in BOOLEAN
    /\ pendingAck \in BOOLEAN

EnumTypeOK ==
    /\ waitTime \in WaitTimes
    /\ pc \in Pcs
    /\ readyTag \in {"none", "observed", "timedout"}
    /\ outcome \in Outcomes
    /\ rx \subseteq Kinds
    /\ dev \in {"booting", "ready"}

CountTypeOK ==
    /\ now \in Nat
    /\ deadline \in Int
    /\ attempts \in 0..MaxAttempts
    /\ faults \in 0..MaxFaults
    /\ applied \in 0..MaxAttempts
    /\ noise \in 0..MaxNoise
    /\ reboots \in 0..MaxReboots
    /\ ackStart \in Nat
    /\ lastData \in Nat \cup {NoData}

TypeOK == FlagsTypeOK /\ EnumTypeOK /\ CountTypeOK

Init ==
    /\ waitReady \in BOOLEAN /\ noRead \in BOOLEAN
    /\ interactive \in BOOLEAN /\ cmdFile \in BOOLEAN
    /\ waitTime \in WaitTimes
    /\ pc = "open"
    /\ now = 0
    /\ deadline = 0
    /\ attempts = 0
    /\ ackSeen = FALSE
    /\ readyTag = "none"
    /\ outcome = "none"
    /\ rx = {}
    /\ faults = 0
    /\ dev \in {"booting", "ready"}
    /\ pendingAck = FALSE
    /\ applied = 0
    /\ noise = 0
    /\ reboots = 0
    /\ ackStart = 0
    /\ lastData = NoData

-----------------------------------------------------------------------------
(* Host: _send_curve_command.                                              *)

(* `with serial.Serial(device, baud, timeout=0.5)`: opening the port       *)
(* discards what the driver buffered before; then either the ready wait    *)
(* (its deadline fixed now) or the settle path.                            *)
Open ==
    /\ pc = "open"
    /\ rx' = {}
    /\ pc' = IF waitReady THEN "ready" ELSE "settle"
    /\ deadline' = now + ReadyTimeout
    /\ UNCHANGED <<modeVars, now, attempts, ackSeen, readyTag, outcome,
                   faults, devVars, histVars>>

(* _drain_until_ready, a non-empty read: the chunk is added to the window  *)
(* and the loop returns True as soon as a ready marker is in it.           *)
(* Seeded fault for Progress: the chunk is inspected but left buffered.    *)
ReadyChunkPeek(t) ==
    /\ now' = t
    /\ rx' = rx
    /\ IF rx \cap READY_MARKERS # {}
         THEN pc' = "send" /\ readyTag' = "observed"
         ELSE pc' = "ready" /\ readyTag' = readyTag

ReadyChunk(t) ==
    /\ now' = t
    /\ rx' = {}
    /\ IF rx \cap READY_MARKERS # {}
         THEN pc' = "send" /\ readyTag' = "observed"
         ELSE pc' = "ready" /\ readyTag' = readyTag

(* ser.read(ser.in_waiting) with text already buffered returns at once.    *)
ReadyPoll ==
    /\ pc = "ready"
    /\ rx # {}
    /\ ReadyChunk(now)
    /\ UNCHANGED <<modeVars, deadline, attempts, ackSeen, outcome, faults,
                   devVars, histVars>>

(* ser.read(1) with nothing buffered blocks for at most the poll timeout.  *)
ReadyBlock ==
    /\ pc = "ready"
    /\ rx = {}
    /\ pc' = "ready_wait"
    /\ UNCHANGED <<modeVars, now, deadline, attempts, ackSeen, readyTag,
                   outcome, rx, faults, devVars, histVars>>

(* Text arrives while the read blocks: it returns within the poll timeout. *)
ReadyWake ==
    /\ pc = "ready_wait"
    /\ rx # {}
    /\ \E d \in 0..PollTimeout : ReadyChunk(now + d)
    /\ UNCHANGED <<modeVars, deadline, attempts, ackSeen, outcome, faults,
                   devVars, histVars>>

(* The read times out empty: past the deadline the loop returns False,     *)
(* otherwise it sleeps the back-off and reads again.                       *)
ReadyIdle ==
    /\ pc = "ready_wait"
    /\ rx = {}
    /\ IF now + PollTimeout >= deadline
         THEN /\ now' = now + PollTimeout
              /\ pc' = "send"
              /\ readyTag' = "timedout"
         ELSE /\ now' = now + PollTimeout + Backoff
              /\ pc' = "ready"
              /\ readyTag' = readyTag
    /\ UNCHANGED <<modeVars, deadline, attempts, ackSeen, outcome, rx,
                   faults, devVars, histVars>>

(* Without --wait-ready: reset_input_buffer() unless --no-read, then sleep *)
(* --send-delay unless a command file is sent.                             *)
Settle ==
    /\ pc = "settle"
    /\ rx' = IF noRead THEN rx ELSE {}
    /\ now' = IF ~cmdFile /\ SendDelay > 0 THEN now + SendDelay ELSE now
    /\ pc' = "send"
    /\ UNCHANGED <<modeVars, deadline, attempts, ackSeen, readyTag, outcome,
                   faults, devVars, histVars>>

(* The device receives the payload: applied if it is up, lost if booting. *)
Deliver ==
    IF dev = "ready"
      THEN applied' = applied + 1 /\ pendingAck' = TRUE
      ELSE UNCHANGED <<applied, pendingAck>>

(* Seeded fault for AckNeverDiscarded: reset_input_buffer() before every   *)
(* write of the loop, not only before the first.                           *)
SendResetInput ==
    /\ pc = "send"
    /\ attempts < MaxAttempts
    /\ ~ackSeen
    /\ attempts' = attempts + 1
    /\ Deliver
    /\ IF noRead \/ waitTime <= 0
         THEN /\ pc' = "done"
              /\ outcome' = "unconfirmed"
              /\ UNCHANGED <<deadline, ackStart, lastData>>
         ELSE /\ pc' = "ack"
              /\ outcome' = outcome
              /\ deadline' = now + waitTime
              /\ ackStart' = now
              /\ lastData' = NoData
    /\ rx' = {}
    /\ UNCHANGED <<modeVars, now, ackSeen, readyTag, faults, dev, noise,
                   reboots>>

(* The head of the retry loop: while attempts < max_attempts and not       *)
(* ack_seen, write the payload; with --no-read or --wait <= 0 return at    *)
(* once, else drain the response with a fresh window and deadline.         *)
Send ==
    /\ pc = "send"
    /\ attempts < MaxAttempts
    /\ ~ackSeen
    /\ attempts' = attempts + 1
    /\ Deliver
    /\ IF noRead \/ waitTime <= 0
         THEN /\ pc' = "done"
              /\ outcome' = "unconfirmed"
              /\ UNCHANGED <<deadline, ackStart, lastData>>
         ELSE /\ pc' = "ack"
              /\ outcome' = outcome
              /\ deadline' = now + waitTime
              /\ ackStart' = now
              /\ lastData' = NoData
    /\ UNCHANGED <<modeVars, now, ackSeen, readyTag, rx, faults, dev, noise,
                   reboots>>

(* _drain_response, a non-empty read: the chunk goes into the window,      *)
(* ack_seen is set if an ack marker is in it, and the deadline is pushed   *)
(* to at least 0.2 s after now.                                            *)
(* Seeded faults: any output taken for an acknowledgement; the deadline    *)
(* reset to 0.2 s after the chunk instead of extended.                     *)
AckChunkAnyOutput(t) ==
    /\ now' = t
    /\ rx' = {}
    /\ ackSeen' = (ackSeen \/ rx # {})
    /\ deadline' = Later(deadline, t + Grace)
    /\ lastData' = t

AckChunkResetDeadline(t) ==
    /\ now' = t
    /\ rx' = {}
    /\ ackSeen' = (ackSeen \/ rx \cap ACK_MARKERS # {})
    /\ deadline' = t + Grace
    /\ lastData' = t

AckChunk(t) ==
    /\ now' = t
    /\ rx' = {}
    /\ ackSeen' = (ackSeen \/ rx \cap ACK_MARKERS # {})
    /\ deadline' = Later(deadline, t + Grace)
    /\ lastData' = t

AckPoll ==
    /\ pc = "ack"
    /\ rx # {}
    /\ AckChunk(now)
    /\ UNCHANGED <<modeVars, pc, attempts, readyTag, outcome, faults,
                   devVars, ackStart>>

AckBlock ==
    /\ pc = "ack"
    /\ rx = {}
    /\ pc' = "ack_wait"
    /\ UNCHANGED <<modeVars, now, deadline, attempts, ackSeen, readyTag,
                   outcome, rx, faults, devVars, histVars>>

AckWake ==
    /\ pc = "ack_wait"
    /\ rx # {}
    /\ pc' = "ack"
    /\ \E d \in 0..PollTimeout : AckChunk(now + d)
    /\ UNCHANGED <<modeVars, attempts, readyTag, outcome, faults, devVars,
                   ackStart>>

(* An empty read past the deadline ends the drain, which returns ack_seen. *)
AckIdle ==
    /\ pc = "ack_wait"
    /\ rx = {}
    /\ IF now + PollTimeout >= deadline
         THEN /\ now' = now + PollTimeout
              /\ pc' = "decide"
         ELSE /\ now' = now + PollTimeout + Backoff
              /\ pc' = "ack"
    /\ UNCHANGED <<modeVars, deadline, attempts, ackSeen, readyTag, outcome,
                   rx, faults, devVars, histVars>>

(* After a drain: stop on an ack; with attempts left ask the operator if   *)
(* stdin is a tty, else warn and stop; with none left the loop ends.  A    *)
(* loop that ends without ack_seen prints "scalar not reaching hardware".  *)
Decide ==
    /\ pc = "decide"
    /\ CASE ackSeen
              -> pc' = "done" /\ outcome' = "acked"
         [] ~ackSeen /\ attempts < MaxAttempts /\ interactive
              -> pc' = "prompt" /\ outcome' = outcome
         [] OTHER
              -> pc' = "done" /\ outcome' = "failed"
    /\ UNCHANGED <<modeVars, now, deadline, attempts, ackSeen, readyTag, rx,
                   faults, devVars, histVars>>

(* input("Resend the same scalar? [Y/n]"): an answer starting with "n"     *)
(* stops, any other answer (the empty one included) resends; end of input  *)
(* raises EOFError, which leaves the session with an exception.            *)
Prompt ==
    /\ pc = "prompt"
    /\ \E answer \in {"yes", "no", "eof"} :
         CASE answer = "yes" -> pc' = "send" /\ outcome' = outcome
           [] answer = "no"  -> pc' = "done" /\ outcome' = "failed"
           [] answer = "eof" -> pc' = "done" /\ outcome' = "aborted"
    /\ UNCHANGED <<modeVars, now, deadline, attempts, ackSeen, readyTag, rx,
                   faults, devVars, histVars>>

(* Seeded fault for ImplementsAbstract: the pc guard dropped, so an        *)
(* exception may also follow a reported outcome and replace it.            *)
TransportFaultAnyPc ==
    /\ faults < MaxFaults
    /\ faults' = faults + 1
    /\ pc' = "done"
    /\ outcome' = "aborted"
    /\ UNCHANGED <<modeVars, now, deadline, attempts, ackSeen, readyTag, rx,
                   devVars, histVars>>

(* A SerialException from opening, reading or writing the port propagates *)
(* out of the `with` block, which closes the port.                         *)
TransportFault ==
    /\ pc \in {"open", "ready", "ready_wait", "send", "ack", "ack_wait"}
    /\ faults < MaxFaults
    /\ faults' = faults + 1
    /\ pc' = "done"
    /\ outcome' = "aborted"
    /\ UNCHANGED <<modeVars, now, deadline, attempts, ackSeen, readyTag, rx,
                   devVars, histVars>>

-----------------------------------------------------------------------------
(* Device: boots and prints a ready banner, may reboot, prints the ack     *)
(* some time after applying a command, prints other lines.  What it prints *)
(* while the port is closed is lost.                                       *)

Emit(k) == rx' = IF PortOpen THEN rx \cup {k} ELSE rx

DevBoot ==
    /\ dev = "booting"
    /\ dev' = "ready"
    /\ Emit("ready")
    /\ UNCHANGED <<modeVars, hostVars, faults, pendingAck, applied, noise,
                   reboots, histVars>>

DevReboot ==
    /\ dev = "ready"
    /\ reboots < MaxReboots
    /\ dev' = "booting"
    /\ pendingAck' = FALSE
    /\ reboots' = reboots + 1
    /\ UNCHANGED <<modeVars, hostVars, rx, faults, applied, noise, histVars>>

DevAck ==
    /\ pendingAck
    /\ pendingAck' = FALSE
    /\ Emit("ack")
    /\ UNCHANGED <<modeVars, hostVars, faults, dev, applied, noise, reboots,
                   histVars>>

DevNoise ==
    /\ noise < MaxNoise
    /\ noise' = noise + 1
    /\ Emit("noise")
    /\ UNCHANGED <<modeVars, hostVars, faults, dev, pendingAck, applied,
                   reboots, histVars>>

-----------------------------------------------------------------------------
Host ==
    \/ Open \/ ReadyPoll \/ ReadyBlock \/ ReadyWake \/ ReadyIdle \/ Settle
    \/ Send \/ AckPoll \/ AckBlock \/ AckWake \/ AckIdle \/ Decide \/ Prompt
    \/ TransportFault

Device == DevBoot \/ DevReboot \/ DevAck \/ DevNoise

Next == Host \/ Device

(* The host is one thread that only ever blocks for a bounded time, so     *)
(* each of its own steps is weakly fair.  The operator's answer (Prompt)   *)
(* and serial exceptions are not: input() may wait forever, and faults     *)
(* need not happen.  The device gets no fairness.                          *)
Fairness ==
    /\ WF_vars(Open) /\ WF_vars(ReadyPoll) /\ WF_vars(ReadyBlock)
    /\ WF_vars(ReadyWake) /\ WF_vars(ReadyIdle) /\ WF_vars(Settle)
    /\ WF_vars(Send) /\ WF_vars(AckPoll) /\ WF_vars(AckBlock)
    /\ WF_vars(AckWake) /\ WF_vars(AckIdle) /\ WF_vars(Decide)

Spec == Init /\ [][Next]_vars

FairSpec == Spec /\ Fairness

-----------------------------------------------------------------------------
(* Properties.                                                             *)

(* Success is never reported for a command the device did not apply: when *)
(* the session ends without the "scalar not reaching hardware" warning     *)
(* because _drain_response saw an ack marker, the device applied at least  *)
(* one of the payloads written.  Violating it takes a write, device output *)
(* and a drain that mistakes that output for an acknowledgement.           *)
SuccessImpliesApplied ==
    outcome = "acked" => applied >= 1

(* _drain_response never gives up early: when it returns, the --wait time *)
(* since the write has elapsed, and so has the 0.2 s grace period since    *)
(* the last chunk it read (the deadline extension of line 346).            *)
AckWaitNotCutShort ==
    pc = "decide" =>
        /\ now >= ackStart + waitTime
        /\ lastData = NoData \/ now >= lastData + Grace

(* Every phase of the host's own work ends: each wait loop returns once    *)
(* the device falls silent, so the session either finishes or is waiting  *)
(* on the operator's answer.                                               *)
Progress ==
    pc \notin {"done", "prompt"} ~> pc \in {"done", "prompt"}

(* Section 5 of the design: no wait blocks longer than its timeout plus    *)
(* one back-off increment.  Stated for the ready wait of                   *)
(* _drain_until_ready: it has ended within --ready-timeout plus the        *)
(* back-off of session start.                                              *)
ReadyWaitBounded ==
    (waitReady /\ attempts = 0 /\ pc \in {"ready", "ready_wait", "send"})
        => now <= ReadyTimeout + Backoff

(* The closing warning of _send_curve_command says the "scalar [is] not    *)
(* reaching hardware": whenever it is printed, the device applied none of  *)
(* the payloads.                                                           *)
FailureMeansNotApplied ==
    outcome = "failed" => applied = 0
(* An acknowledgement the device printed is never thrown away while the   *)
(* session runs: every host step leaves it in the input buffer or reads it *)
(* into ack_seen.  The buffer is reset only before the first write (the    *)
(* open and line 392), and the late ack of one attempt is still there for  *)
(* the drain of the next.                                                  *)
AckNeverDiscarded ==
    [][("ack" \in rx /\ pc' # "done") => ("ack" \in rx' \/ ackSeen')]_vars

(* Section 6 of the design: only a transport error is fatal; a resend     *)
(* question nobody can answer ends the session as FAILED with the advisory *)
(* message.  The code's input() raises EOFError when stdin is closed.      *)
AbortedOnlyByTransport == outcome = "aborted" => faults > 0

-----------------------------------------------------------------------------
(* The session implements SessionAbstract: attempts are its writes, and    *)
(* the device's applications and the reported outcome are shared.  Every   *)
(* step of the host, the transport and the device is a write, the end of  *)
(* the session, or a step the abstract session does not see.               *)
Abs == INSTANCE SessionAbstract WITH sent <- attempts

(* The loop of _send_curve_command writes at most max_attempts times and   *)
(* never after it returned; the outcome, once reported, is final; "acked"  *)
(* needs an applied write and "failed" a write.                            *)
ImplementsAbstract == Abs!Spec
=============================================================================
