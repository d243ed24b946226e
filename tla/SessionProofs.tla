--------------------------- MODULE SessionProofs ---------------------------
(***************************************************************************)
(* Proofs about Session, for every value of the constants allowed by       *)
(* ConstantsAssumption.                                                    *)
(*                                                                         *)
(* TypeOK and SuccessImpliesApplied are not inductive on their own:       *)
(* TypeOK bounds `applied` only because applied <= attempts, and an        *)
(* acknowledgement can be seen only because every ack on its way (one the  *)
(* device still owes, one waiting in the input buffer) comes from an      *)
(* applied command.  Inv adds exactly these facts.                         *)
(***************************************************************************)
EXTENDS Session, TLAPS

(* The retry bound of the provisioning loop: the operator is asked to      *)
(* resend only while attempts remain, and the device never applies more    *)
(* payloads than were written.                                             *)
RetryBound ==
    /\ pc = "prompt" => attempts < MaxAttempts
    /\ applied <= attempts

(* Nothing that can turn into a reported success exists before the device *)
(* has applied a command.                                                  *)
NoAckBeforeApply ==
    applied = 0 =>
        /\ ~pendingAck
        /\ "ack" \notin rx
        /\ ~ackSeen
        /\ outcome # "acked"

Inv == TypeOK /\ RetryBound /\ NoAckBeforeApply

USE ConstantsAssumption

LEMMA InitInv == Init => Inv
<1> SUFFICES ASSUME Init PROVE Inv
  OBVIOUS
<1>1. TypeOK
  <2>1. FlagsTypeOK
    BY DEF Init, FlagsTypeOK
  <2>2. EnumTypeOK
    BY DEF Init, EnumTypeOK, Pcs, Outcomes
  <2>3. CountTypeOK
    BY DEF Init, CountTypeOK, NoData
  <2>4. QED
    BY <2>1, <2>2, <2>3 DEF TypeOK
<1>2. RetryBound
  BY DEF Init, RetryBound
<1>3. NoAckBeforeApply
  BY DEF Init, NoAckBeforeApply
<1>4. QED
  BY <1>1, <1>2, <1>3 DEF Inv

LEMMA NextInv == Inv /\ [Next]_vars => Inv'
<1> SUFFICES ASSUME Inv, [Next]_vars PROVE Inv'
  OBVIOUS
<1> USE DEF Inv, TypeOK, FlagsTypeOK, EnumTypeOK, CountTypeOK, RetryBound,
            NoAckBeforeApply, Pcs, Outcomes, Kinds, NoData
<1>1. CASE Open
  <2> USE <1>1 DEF Open, modeVars, devVars, histVars
  <2>1. FlagsTypeOK'
    OBVIOUS
  <2>2. EnumTypeOK'
    OBVIOUS
  <2>3. CountTypeOK'
    OBVIOUS
  <2>4. RetryBound'
    OBVIOUS
  <2>5. NoAckBeforeApply'
    OBVIOUS
  <2>6. QED
    BY <2>1, <2>2, <2>3, <2>4, <2>5
<1>2. CASE ReadyPoll
  <2> USE <1>2 DEF ReadyPoll, ReadyChunk, READY_MARKERS, modeVars, devVars, histVars
  <2>1. FlagsTypeOK'
    OBVIOUS
  <2>2. EnumTypeOK'
    OBVIOUS
  <2>3. CountTypeOK'
    OBVIOUS
  <2>4. RetryBound'
    OBVIOUS
  <2>5. NoAckBeforeApply'
    OBVIOUS
  <2>6. QED
    BY <2>1, <2>2, <2>3, <2>4, <2>5
<1>3. CASE ReadyBlock
  <2> USE <1>3 DEF ReadyBlock, modeVars, devVars, histVars
  <2>1. FlagsTypeOK'
    OBVIOUS
  <2>2. EnumTypeOK'
    OBVIOUS
  <2>3. CountTypeOK'
    OBVIOUS
  <2>4. RetryBound'
    OBVIOUS
  <2>5. NoAckBeforeApply'
    OBVIOUS
  <2>6. QED
    BY <2>1, <2>2, <2>3, <2>4, <2>5
<1>4. CASE ReadyWake
  <2> USE <1>4 DEF ReadyWake, ReadyChunk, READY_MARKERS, modeVars, devVars, histVars
  <2>1. FlagsTypeOK'
    OBVIOUS
  <2>2. EnumTypeOK'
    OBVIOUS
  <2>3. CountTypeOK'
    OBVIOUS
  <2>4. RetryBound'
    OBVIOUS
  <2>5. NoAckBeforeApply'
    OBVIOUS
  <2>6. QED
    BY <2>1, <2>2, <2>3, <2>4, <2>5
<1>5. CASE ReadyIdle
  <2> USE <1>5 DEF ReadyIdle, modeVars, devVars, histVars
  <2>1. FlagsTypeOK'
    OBVIOUS
  <2>2. EnumTypeOK'
    OBVIOUS
  <2>3. CountTypeOK'
    OBVIOUS
  <2>4. RetryBound'
    OBVIOUS
  <2>5. NoAckBeforeApply'
    OBVIOUS
  <2>6. QED
    BY <2>1, <2>2, <2>3, <2>4, <2>5
<1>6. CASE Settle
  <2> USE <1>6 DEF Settle, modeVars, devVars, histVars
  <2>1. FlagsTypeOK'
    OBVIOUS
  <2>2. EnumTypeOK'
    OBVIOUS
  <2>3. CountTypeOK'
    OBVIOUS
  <2>4. RetryBound'
    OBVIOUS
  <2>5. NoAckBeforeApply'
    OBVIOUS
  <2>6. QED
    BY <2>1, <2>2, <2>3, <2>4, <2>5
<1>7. CASE Send
  <2> USE <1>7 DEF Send, Deliver, modeVars
  <2>1. FlagsTypeOK'
    OBVIOUS
  <2>2. EnumTypeOK'
    OBVIOUS
  <2>3. CountTypeOK'
    OBVIOUS
  <2>4. RetryBound'
    OBVIOUS
  <2>5. NoAckBeforeApply'
    OBVIOUS
  <2>6. QED
    BY <2>1, <2>2, <2>3, <2>4, <2>5
<1>8. CASE AckPoll
  <2> USE <1>8 DEF AckPoll, AckChunk, ACK_MARKERS, Later, modeVars, devVars
  <2>1. FlagsTypeOK'
    OBVIOUS
  <2>2. EnumTypeOK'
    OBVIOUS
  <2>3. CountTypeOK'
    OBVIOUS
  <2>4. RetryBound'
    OBVIOUS
  <2>5. NoAckBeforeApply'
    OBVIOUS
  <2>6. QED
    BY <2>1, <2>2, <2>3, <2>4, <2>5
<1>9. CASE AckBlock
  <2> USE <1>9 DEF AckBlock, modeVars, devVars, histVars
  <2>1. FlagsTypeOK'
    OBVIOUS
  <2>2. EnumTypeOK'
    OBVIOUS
  <2>3. CountTypeOK'
    OBVIOUS
  <2>4. RetryBound'
    OBVIOUS
  <2>5. NoAckBeforeApply'
    OBVIOUS
  <2>6. QED
    BY <2>1, <2>2, <2>3, <2>4, <2>5
<1>10. CASE AckWake
  <2> USE <1>10 DEF AckWake, AckChunk, ACK_MARKERS, Later, modeVars, devVars
  <2>1. FlagsTypeOK'
    OBVIOUS
  <2>2. EnumTypeOK'
    OBVIOUS
  <2>3. CountTypeOK'
    OBVIOUS
  <2>4. RetryBound'
    OBVIOUS
  <2>5. NoAckBeforeApply'
    OBVIOUS
  <2>6. QED
    BY <2>1, <2>2, <2>3, <2>4, <2>5
<1>11. CASE AckIdle
  <2> USE <1>11 DEF AckIdle, modeVars, devVars, histVars
  <2>1. FlagsTypeOK'
    OBVIOUS
  <2>2. EnumTypeOK'
    OBVIOUS
  <2>3. CountTypeOK'
    OBVIOUS
  <2>4. RetryBound'
    OBVIOUS
  <2>5. NoAckBeforeApply'
    OBVIOUS
  <2>6. QED
    BY <2>1, <2>2, <2>3, <2>4, <2>5
<1>12. CASE Decide
  <2> USE <1>12 DEF Decide, modeVars, devVars, histVars
  <2>1. FlagsTypeOK'
    OBVIOUS
  <2>2. EnumTypeOK'
    OBVIOUS
  <2>3. CountTypeOK'
    OBVIOUS
  <2>4. RetryBound'
    OBVIOUS
  <2>5. NoAckBeforeApply'
    OBVIOUS
  <2>6. QED
    BY <2>1, <2>2, <2>3, <2>4, <2>5
<1>13. CASE Prompt
  <2> USE <1>13 DEF Prompt, modeVars, devVars, histVars
  <2>1. FlagsTypeOK'
    OBVIOUS
  <2>2. EnumTypeOK'
    OBVIOUS
  <2>3. CountTypeOK'
    OBVIOUS
  <2>4. RetryBound'
    OBVIOUS
  <2>5. NoAckBeforeApply'
    OBVIOUS
  <2>6. QED
    BY <2>1, <2>2, <2>3, <2>4, <2>5
<1>14. CASE TransportFault
  <2> USE <1>14 DEF TransportFault, modeVars, devVars, histVars
  <2>1. FlagsTypeOK'
    OBVIOUS
  <2>2. EnumTypeOK'
    OBVIOUS
  <2>3. CountTypeOK'
    OBVIOUS
  <2>4. RetryBound'
    OBVIOUS
  <2>5. NoAckBeforeApply'
    OBVIOUS
  <2>6. QED
    BY <2>1, <2>2, <2>3, <2>4, <2>5
<1>15. CASE DevBoot
  <2> USE <1>15 DEF DevBoot, Emit, PortOpen, modeVars, hostVars, histVars
  <2>1. FlagsTypeOK'
    OBVIOUS
  <2>2. EnumTypeOK'
    OBVIOUS
  <2>3. CountTypeOK'
    OBVIOUS
  <2>4. RetryBound'
    OBVIOUS
  <2>5. NoAckBeforeApply'
    OBVIOUS
  <2>6. QED
    BY <2>1, <2>2, <2>3, <2>4, <2>5
<1>16. CASE DevReboot
  <2> USE <1>16 DEF DevReboot, modeVars, hostVars, histVars
  <2>1. FlagsTypeOK'
    OBVIOUS
  <2>2. EnumTypeOK'
    OBVIOUS
  <2>3. CountTypeOK'
    OBVIOUS
  <2>4. RetryBound'
    OBVIOUS
  <2>5. NoAckBeforeApply'
    OBVIOUS
  <2>6. QED
    BY <2>1, <2>2, <2>3, <2>4, <2>5
<1>17. CASE DevAck
  <2> USE <1>17 DEF DevAck, Emit, PortOpen, modeVars, hostVars, histVars
  <2>1. FlagsTypeOK'
    OBVIOUS
  <2>2. EnumTypeOK'
    OBVIOUS
  <2>3. CountTypeOK'
    OBVIOUS
  <2>4. RetryBound'
    OBVIOUS
  <2>5. NoAckBeforeApply'
    OBVIOUS
  <2>6. QED
    BY <2>1, <2>2, <2>3, <2>4, <2>5
<1>18. CASE DevNoise
  <2> USE <1>18 DEF DevNoise, Emit, PortOpen, modeVars, hostVars, histVars
  <2>1. FlagsTypeOK'
    OBVIOUS
  <2>2. EnumTypeOK'
    OBVIOUS
  <2>3. CountTypeOK'
    OBVIOUS
  <2>4. RetryBound'
    OBVIOUS
  <2>5. NoAckBeforeApply'
    OBVIOUS
  <2>6. QED
    BY <2>1, <2>2, <2>3, <2>4, <2>5
<1>19. CASE UNCHANGED vars
  BY <1>19 DEF vars, modeVars, hostVars, devVars, histVars
<1>20. QED
  BY <1>1, <1>2, <1>3, <1>4, <1>5, <1>6, <1>7, <1>8, <1>9, <1>10, <1>11, <1>12, <1>13, <1>14, <1>15, <1>16, <1>17, <1>18, <1>19
  DEF Next, Host, Device

LEMMA InvInvariant == Spec => []Inv
BY InitInv, NextInv, PTL DEF Spec

(* Type correctness of the session and the device model.                   *)
THEOREM TypeCorrect == Spec => []TypeOK
BY InvInvariant, PTL DEF Inv

(* A session reports an acknowledged provisioning only after the device    *)
(* applied one of the payloads.                                            *)
THEOREM SuccessSound == Spec => []SuccessImpliesApplied
<1>1. Inv => SuccessImpliesApplied
  BY DEF Inv, TypeOK, CountTypeOK, NoAckBeforeApply, SuccessImpliesApplied
<1>2. QED
  BY InvInvariant, <1>1, PTL

-----------------------------------------------------------------------------
(* The refinement.  Two more facts about the control of                   *)
(* _send_curve_command make each step recognisable as an abstract one: an *)
(* outcome exists only once the function returned, so every step that sets *)
(* one starts from "none"; and the drain, the decision and the prompt come *)
(* after at least one write, so "acked" and "failed" follow a write.       *)
OutcomeOnlyAtEnd == pc # "done" => outcome = "none"
DrainAfterWrite == pc \in {"ack", "ack_wait", "decide", "prompt"} => attempts >= 1
ControlInv == OutcomeOnlyAtEnd /\ DrainAfterWrite

LEMMA InitControl == Init => ControlInv
BY DEF Init, ControlInv, OutcomeOnlyAtEnd, DrainAfterWrite

LEMMA NextControl == Inv /\ ControlInv /\ [Next]_vars => ControlInv'
<1> SUFFICES ASSUME Inv, ControlInv, [Next]_vars PROVE ControlInv'
  OBVIOUS
<1> USE DEF Inv, TypeOK, CountTypeOK, EnumTypeOK, ControlInv, OutcomeOnlyAtEnd,
            DrainAfterWrite
<1>1. CASE Open \/ Settle
  BY <1>1 DEF Open, Settle
<1>2. CASE ReadyPoll \/ ReadyWake
  BY <1>2 DEF ReadyPoll, ReadyWake, ReadyChunk
<1>3. CASE ReadyBlock \/ ReadyIdle
  BY <1>3 DEF ReadyBlock, ReadyIdle
<1>4. CASE Send
  BY <1>4 DEF Send
<1>5. CASE AckPoll \/ AckWake
  BY <1>5 DEF AckPoll, AckWake, AckChunk
<1>6. CASE AckBlock \/ AckIdle
  BY <1>6 DEF AckBlock, AckIdle
<1>7. CASE Decide \/ Prompt \/ TransportFault
  BY <1>7 DEF Decide, Prompt, TransportFault
<1>8. CASE Device
  BY <1>8 DEF Device, DevBoot, DevReboot, DevAck, DevNoise, hostVars
<1>9. CASE UNCHANGED vars
  BY <1>9 DEF vars, hostVars
<1>10. QED
  BY <1>1, <1>2, <1>3, <1>4, <1>5, <1>6, <1>7, <1>8, <1>9 DEF Next, Host

(* Every step of Session is a step of SessionAbstract or leaves its        *)
(* variables unchanged: Send is a Write, the three ways of returning with *)
(* an outcome are a Finish, and the rest touch none of them.              *)
LEMMA StepRefines ==
    Inv /\ ControlInv /\ [Next]_vars => [Abs!Next]_(Abs!vars)
<1> SUFFICES ASSUME Inv, ControlInv, [Next]_vars
             PROVE  [Abs!Next]_(Abs!vars)
  OBVIOUS
<1> DEFINE Stutter == UNCHANGED <<attempts, applied, outcome>>
<1>1. Stutter => [Abs!Next]_(Abs!vars)
  BY DEF Abs!vars
<1> USE DEF Inv, TypeOK, CountTypeOK, EnumTypeOK, ControlInv, OutcomeOnlyAtEnd,
            DrainAfterWrite
<1>2. CASE Send
  <2>1. outcome = "none" /\ attempts < MaxAttempts
    BY <1>2 DEF Send
  <2>2. attempts' = attempts + 1 /\ applied' \in {applied, applied + 1}
    BY <1>2 DEF Send, Deliver
  <2>3. outcome' \in {"none", "unconfirmed"}
    BY <1>2, <2>1 DEF Send
  <2>4. QED
    BY <2>1, <2>2, <2>3 DEF Abs!Next, Abs!Write
<1>3. CASE Decide
  <2>1. attempts >= 1 /\ outcome = "none"
    BY <1>3 DEF Decide
  <2>2. CASE ackSeen
    <3>1. applied >= 1
      BY <2>2 DEF NoAckBeforeApply
    <3>2. outcome' = "acked" /\ UNCHANGED <<attempts, applied>>
      BY <1>3, <2>2 DEF Decide, devVars
    <3>3. QED
      BY <2>1, <3>1, <3>2 DEF Abs!Next, Abs!Finish
  <2>3. CASE ~ackSeen /\ attempts < MaxAttempts /\ interactive
    <3>1. Stutter
      BY <1>3, <2>3 DEF Decide, devVars
    <3>2. QED
      BY <3>1, <1>1
  <2>4. CASE ~(ackSeen \/ (~ackSeen /\ attempts < MaxAttempts /\ interactive))
    <3>1. outcome' = "failed" /\ UNCHANGED <<attempts, applied>>
      BY <1>3, <2>4 DEF Decide, devVars
    <3>2. QED
      BY <2>1, <3>1 DEF Abs!Next, Abs!Finish
  <2>5. QED
    BY <2>2, <2>3, <2>4
<1>4. CASE Prompt
  <2>1. attempts >= 1 /\ outcome = "none"
    BY <1>4 DEF Prompt
  <2>2. UNCHANGED <<attempts, applied>>
    BY <1>4 DEF Prompt, devVars
  <2>3. outcome' \in {"none", "failed", "aborted"}
    BY <1>4, <2>1 DEF Prompt
  <2>4. QED
    BY <2>1, <2>2, <2>3, <1>1 DEF Abs!Next, Abs!Finish
<1>5. CASE TransportFault
  <2>1. outcome = "none" /\ outcome' = "aborted"
    BY <1>5 DEF TransportFault
  <2>2. UNCHANGED <<attempts, applied>>
    BY <1>5 DEF TransportFault, devVars
  <2>3. QED
    BY <2>1, <2>2 DEF Abs!Next, Abs!Finish
<1>6. CASE Open \/ Settle \/ ReadyPoll \/ ReadyWake \/ ReadyBlock \/ ReadyIdle
  BY <1>6, <1>1 DEF Open, Settle, ReadyPoll, ReadyWake, ReadyChunk,
                    ReadyBlock, ReadyIdle, devVars
<1>7. CASE AckPoll \/ AckWake \/ AckBlock \/ AckIdle
  BY <1>7, <1>1 DEF AckPoll, AckWake, AckChunk, AckBlock, AckIdle, devVars
<1>8. CASE Device
  BY <1>8, <1>1 DEF Device, DevBoot, DevReboot, DevAck, DevNoise, hostVars
<1>9. CASE UNCHANGED vars
  BY <1>9, <1>1 DEF vars, hostVars, devVars
<1>10. QED
  BY <1>2, <1>3, <1>4, <1>5, <1>6, <1>7, <1>8, <1>9 DEF Next, Host

(* _send_curve_command implements the abstract session: at most            *)
(* max_attempts writes and none after it returned, one final outcome,      *)
(* "acked" only for an applied payload and "failed" only after a write,    *)
(* whatever the device, the transport and the operator do.                 *)
THEOREM Refinement == Spec => ImplementsAbstract
<1>1. Init => Abs!Init
  BY DEF Init, Abs!Init
<1>2. Spec => [](Inv /\ ControlInv)
  BY InitInv, NextInv, InitControl, NextControl, PTL DEF Spec
<1>3. QED
  BY <1>1, <1>2, StepRefines, PTL DEF Spec, ImplementsAbstract, Abs!Spec

-----------------------------------------------------------------------------
(* The ack wait.  AckWaitNotCutShort speaks only of the step that leaves  *)
(* _drain_response; what makes it hold is that, all through the drain,    *)
(* the deadline stays at least --wait after the write and at least the     *)
(* grace period after the last chunk: max() at line 346 never lowers it.   *)
DrainDeadline ==
    pc \in {"ack", "ack_wait", "decide"} =>
        /\ deadline >= ackStart + waitTime
        /\ lastData # NoData => deadline >= lastData + Grace

AckInv == DrainDeadline /\ AckWaitNotCutShort

LEMMA InitAck == Init => AckInv
BY DEF Init, AckInv, DrainDeadline, AckWaitNotCutShort

(* A chunk of the ack wait pushes the deadline to at least the grace       *)
(* period after it and never below where it was.                           *)
LEMMA AckChunkDeadline ==
    ASSUME NEW t \in Nat, deadline \in Int, AckChunk(t)
    PROVE  /\ deadline' >= deadline
           /\ deadline' >= t + Grace
           /\ lastData' = t
BY DEF AckChunk, Later

LEMMA NextAck == Inv /\ AckInv /\ [Next]_vars => AckInv'
<1> SUFFICES ASSUME Inv, AckInv, [Next]_vars PROVE AckInv'
  OBVIOUS
<1>0. Inv'
  BY NextInv
<1> USE DEF Inv, TypeOK, CountTypeOK, EnumTypeOK, AckInv, DrainDeadline,
            AckWaitNotCutShort, NoData, modeVars
<1>1. CASE Send
  BY <1>1 DEF Send
<1>2. CASE AckPoll
  <2>1. deadline' >= deadline /\ deadline' >= now + Grace /\ lastData' = now
    BY <1>2, AckChunkDeadline DEF AckPoll
  <2>2. pc = "ack" /\ pc' = "ack" /\ ackStart' = ackStart /\ waitTime' = waitTime
    BY <1>2 DEF AckPoll
  <2>3. QED
    BY <1>0, <2>1, <2>2
<1>3. CASE AckWake
  <2>1. PICK d \in 0..PollTimeout : AckChunk(now + d)
    BY <1>3 DEF AckWake
  <2>2. deadline' >= deadline /\ deadline' >= now + d + Grace /\ lastData' = now + d
    BY <2>1, AckChunkDeadline
  <2>3. pc = "ack_wait" /\ pc' = "ack" /\ ackStart' = ackStart /\ waitTime' = waitTime
    BY <1>3 DEF AckWake
  <2>4. QED
    BY <1>0, <2>2, <2>3
<1>4. CASE AckIdle
  <2>1. pc = "ack_wait" /\ UNCHANGED <<deadline, ackStart, lastData, waitTime>>
    BY <1>4 DEF AckIdle, histVars
  <2>2. now' >= deadline \/ pc' = "ack"
    BY <1>4 DEF AckIdle
  <2>3. pc' \in {"ack", "decide"}
    BY <1>4 DEF AckIdle
  <2>4. QED
    BY <1>0, <2>1, <2>2, <2>3
<1>5. CASE AckBlock
  BY <1>5 DEF AckBlock, histVars
<1>6. CASE Open \/ Settle \/ ReadyPoll \/ ReadyWake \/ ReadyBlock \/ ReadyIdle
  BY <1>6 DEF Open, Settle, ReadyPoll, ReadyWake, ReadyChunk, ReadyBlock,
              ReadyIdle, histVars
<1>7. CASE Decide \/ Prompt \/ TransportFault
  BY <1>7 DEF Decide, Prompt, TransportFault, histVars
<1>8. CASE Device
  BY <1>8 DEF Device, DevBoot, DevReboot, DevAck, DevNoise, hostVars, histVars,
              modeVars
<1>9. CASE UNCHANGED vars
  BY <1>9 DEF vars, hostVars, histVars, modeVars
<1>10. QED
  BY <1>1, <1>2, <1>3, <1>4, <1>5, <1>6, <1>7, <1>8, <1>9 DEF Next, Host

(* _drain_response returns only once --wait has elapsed since the write    *)
(* and 0.2 s since the last chunk it read, however the device's output,   *)
(* reboots and the poll timeouts fall.                                      *)
THEOREM AckWaitSound == Spec => []AckWaitNotCutShort
<1>1. Spec => [](Inv /\ AckInv)
  BY InitInv, NextInv, InitAck, NextAck, PTL DEF Spec
<1>2. QED
  BY <1>1, PTL DEF AckInv

-----------------------------------------------------------------------------
(* The input buffer.  Only the open and the settle path clear it, and the  *)
(* ready wait reads it away; all three come before the first write, when   *)
(* no payload was applied and so (NoAckBeforeApply) no ack is buffered.    *)
BeforeWrite == pc \in {"open", "ready", "ready_wait", "settle"} => attempts = 0

LEMMA InitBeforeWrite == Init => BeforeWrite
BY DEF Init, BeforeWrite

LEMMA NextBeforeWrite == Inv /\ BeforeWrite /\ [Next]_vars => BeforeWrite'
<1> SUFFICES ASSUME Inv, BeforeWrite, [Next]_vars PROVE BeforeWrite'
  OBVIOUS
<1> USE DEF BeforeWrite
<1>1. CASE Open \/ Settle \/ ReadyPoll \/ ReadyWake \/ ReadyBlock \/ ReadyIdle
  BY <1>1 DEF Open, Settle, ReadyPoll, ReadyWake, ReadyChunk, ReadyBlock,
              ReadyIdle
<1>2. CASE Send \/ AckPoll \/ AckWake \/ AckBlock \/ AckIdle
  BY <1>2 DEF Send, AckPoll, AckWake, AckChunk, AckBlock, AckIdle
<1>3. CASE Decide \/ Prompt \/ TransportFault
  BY <1>3 DEF Decide, Prompt, TransportFault
<1>4. CASE Device
  BY <1>4 DEF Device, DevBoot, DevReboot, DevAck, DevNoise, hostVars
<1>5. CASE UNCHANGED vars
  BY <1>5 DEF vars, hostVars
<1>6. QED
  BY <1>1, <1>2, <1>3, <1>4, <1>5 DEF Next, Host

(* Before the first write the buffer holds no ack.                         *)
LEMMA NoAckBeforeWrite ==
    Inv /\ BeforeWrite /\ pc \in {"open", "ready", "ready_wait", "settle"}
        => "ack" \notin rx
BY DEF Inv, BeforeWrite, RetryBound, NoAckBeforeApply, TypeOK, CountTypeOK

LEMMA StepKeepsAck ==
    Inv /\ BeforeWrite /\ [Next]_vars
        => (("ack" \in rx /\ pc' # "done") => ("ack" \in rx' \/ ackSeen'))
<1> SUFFICES ASSUME Inv, BeforeWrite, [Next]_vars, "ack" \in rx, pc' # "done"
             PROVE  "ack" \in rx' \/ ackSeen'
  OBVIOUS
<1>1. CASE Open \/ Settle \/ ReadyPoll \/ ReadyWake
  <2>1. pc \in {"open", "ready", "ready_wait", "settle"}
    BY <1>1 DEF Open, Settle, ReadyPoll, ReadyWake
  <2>2. QED
    BY <2>1, NoAckBeforeWrite
<1>2. CASE ReadyBlock \/ ReadyIdle \/ AckBlock \/ AckIdle
  BY <1>2 DEF ReadyBlock, ReadyIdle, AckBlock, AckIdle
<1>3. CASE AckPoll \/ AckWake
  BY <1>3 DEF AckPoll, AckWake, AckChunk, ACK_MARKERS
<1>4. CASE Send \/ Decide \/ Prompt \/ TransportFault
  BY <1>4 DEF Send, Decide, Prompt, TransportFault
<1>5. CASE Device
  BY <1>5 DEF Device, DevBoot, DevReboot, DevAck, DevNoise, Emit
<1>6. CASE UNCHANGED vars
  BY <1>6 DEF vars
<1>7. QED
  BY <1>1, <1>2, <1>3, <1>4, <1>5, <1>6 DEF Next, Host

(* No step of _send_curve_command discards an acknowledgement the device   *)
(* printed while the session still runs: whatever the interleaving of      *)
(* reboots, late acks, retries and the operator's answers, the ack stays   *)
(* buffered until a drain reads it.                                        *)
THEOREM AckNotDiscarded == Spec => AckNeverDiscarded
<1>1. Spec => [](Inv /\ BeforeWrite)
  BY InitInv, NextInv, InitBeforeWrite, NextBeforeWrite, PTL DEF Spec
<1>2. QED
  BY <1>1, StepKeepsAck, PTL DEF Spec, AckNeverDiscarded
=============================================================================
