-------------------------- MODULE PdoMotion_proofs --------------------------
(***************************************************************************)
(* That the atomics, the cyclic task and the goroutines of an axis keep    *)
(* their types, that position control is on only in a move, and that a     *)
(* move which ends well leaves the drive at its goal, for every number of  *)
(* cycles, positions, faults, attempts and events.                         *)
(***************************************************************************)
EXTENDS PdoMotion, TLAPS

\* A move that waits before a retry has an attempt left.
RetryOK == mover.pc = "retry" => mover.attempt < MaxAttempts

IInv == TypeOK /\ PosOnlyInMove /\ RetryOK

----------------------------------------------------------------------------
\* The atomics.  No helper but EnablePosPDO(TRUE) turns position control on.

LEMMA PutFlag ==
  ASSUME NEW d \in Device, NEW b \in BOOLEAN
  PROVE  /\ [d EXCEPT !.pending = b] \in Device
         /\ [d EXCEPT !.pending = b].pos = d.pos
         /\ [d EXCEPT !.moving = b] \in Device
         /\ [d EXCEPT !.moving = b].pos = d.pos
         /\ [d EXCEPT !.aborted = b] \in Device
         /\ [d EXCEPT !.aborted = b].pos = d.pos
         /\ [d EXCEPT !.settle = b] \in Device
         /\ [d EXCEPT !.settle = b].pos = d.pos
         /\ [d EXCEPT !.shutdown = b] \in Device
         /\ [d EXCEPT !.shutdown = b].pos = d.pos
         /\ [d EXCEPT !.faultReset = b] \in Device
         /\ [d EXCEPT !.faultReset = b].pos = d.pos
         /\ [d EXCEPT !.mask = b] \in Device
         /\ [d EXCEPT !.mask = b].pos = d.pos
         /\ [d EXCEPT !.val = b] \in Device
         /\ [d EXCEPT !.val = b].pos = d.pos
BY DEF Device

LEMMA EnableJogTyped ==
  ASSUME NEW d \in Device, NEW b \in BOOLEAN
  PROVE  EnableJogPDO(b, d) \in Device /\ (EnableJogPDO(b, d).pos => d.pos)
BY DEF Device, EnableJogPDO

LEMMA EnablePosTyped ==
  ASSUME NEW d \in Device, NEW b \in BOOLEAN
  PROVE  EnablePosPDO(b, d) \in Device /\ EnablePosPDO(b, d).pos = b
BY DEF Device, EnablePosPDO

LEMMA SetTargetTyped ==
  ASSUME NEW d \in Device, NEW p \in Int
  PROVE  /\ SetTargetPositionPDO(p, d) \in Device
         /\ SetTargetPositionPDO(p, d).pos = d.pos
BY DEF Device, SetTargetPositionPDO

LEMMA StopTyped ==
  ASSUME NEW d \in Device
  PROVE  pdoStopMotion(d) \in Device /\ pdoStopMotion(d).pos = FALSE
<1> DEFINE e == EnableJogPDO(FALSE, d)
           p == EnablePosPDO(FALSE, e)
<1>1. e \in Device
  BY EnableJogTyped
<1>2. p \in Device /\ p.pos = FALSE
  BY <1>1, EnablePosTyped
<1>3. [p EXCEPT !.moving = FALSE] \in Device
      /\ [p EXCEPT !.moving = FALSE].pos = p.pos
  <2> HIDE DEF p
  <2> QED
    BY <1>2, PutFlag
<1> QED
  BY <1>2, <1>3 DEF pdoStopMotion

LEMMA PowerTyped ==
  ASSUME NEW d \in Device
  PROVE  /\ FastPowerOff(d) \in Device /\ FastPowerOff(d).pos = FALSE
         /\ FastPowerOn(d) \in Device /\ FastPowerOn(d).pos = FALSE
BY StopTyped, PutFlag DEF FastPowerOff, FastPowerOn

LEMMA BrakeTyped ==
  ASSUME NEW d \in Device
  PROVE  /\ breakOn(d) \in Device /\ breakOn(d).pos = d.pos
         /\ breakOff(d) \in Device /\ breakOff(d).pos = d.pos
BY PutFlag DEF breakOn, breakOff

LEMMA ClampTyped ==
  ASSUME NEW d \in Device, NEW on \in BOOLEAN
  PROVE  HasClamped(on, d) \in Device /\ (HasClamped(on, d).pos => d.pos)
BY BrakeTyped, PowerTyped DEF HasClamped

----------------------------------------------------------------------------
\* The cyclic task.

LEMMA ReceiveKeeps ==
  ASSUME CyclicTypeOK, Receive
  PROVE  CyclicTypeOK' /\ dev' = dev
<1>1. fb' \in Status
  BY DEF Receive, CyclicTypeOK, Feedback, Drive, Status
<1>2. frame' \in Frame
  <2>1. cia402NextControlword(drive.pds, dev.faultReset) \in ControlWords
    BY DEF cia402NextControlword, ControlWords
  <2>2. dev.target \in Int /\ drive.pos \in Int
    BY DEF CyclicTypeOK, Device, Drive
  <2> QED
    BY <2>1, <2>2 DEF Receive, Frame, ControlWords
<1> QED
  BY <1>1, <1>2 DEF Receive, CyclicTypeOK

LEMMA PulseKeeps ==
  ASSUME CyclicTypeOK, Pulse
  PROVE  CyclicTypeOK' /\ dev'.pos = dev.pos
<1>1. dev' \in Device /\ dev'.pos = dev.pos
  BY PutFlag DEF Pulse, CyclicTypeOK
<1>2. latch' \in 0 .. AckLimit
  BY CyclesAssumption DEF Pulse, CyclicTypeOK
<1>3. frame' \in Frame
  BY DEF Pulse, CyclicTypeOK, Frame, ControlWords
<1> QED
  BY <1>1, <1>2, <1>3 DEF Pulse, CyclicTypeOK

LEMMA ClearKeeps ==
  ASSUME CyclicTypeOK, Clear
  PROVE  CyclicTypeOK' /\ dev'.pos = dev.pos
<1>1. 0 \in 0 .. AckLimit
  BY CyclesAssumption
<1> QED
  BY <1>1, PutFlag DEF Clear, CyclicTypeOK

LEMMA AnswersTyped ==
  ASSUME CyclicTypeOK
  PROVE  Answers \subseteq Drive
<1>1. \A p, t \in Int : Toward(p, t) \in Int
  BY DEF Toward
<1>2. drive \in Drive /\ frame.target \in Int
  BY DEF CyclicTypeOK, Frame
<1>3. Powerless \in Drive
  BY <1>2 DEF Powerless, Drive
<1>4. \A p \in Int : [drive EXCEPT !.pos = p, !.target = p, !.ack = FALSE,
                                   !.reached = TRUE] \in Drive
  BY <1>2 DEF Drive
<1>5. Velocity \subseteq Drive
  <2> DEFINE Near == IF frame.moving
                     THEN {drive.pos} \cup
                            ({drive.pos - 1, drive.pos + 1} \cap 0 .. MaxPos)
                     ELSE {drive.pos, Toward(drive.pos, drive.target)}
  <2>1. drive.pos \in Int /\ drive.target \in Int
    BY <1>2 DEF Drive
  <2>2. Near \subseteq Int
    <3>1. Toward(drive.pos, drive.target) \in Int
      BY <1>1, <2>1, Zenon
    <3>2. 0 .. MaxPos \subseteq Int
      BY BoundsAssumption
    <3> QED
      BY <2>1, <3>1, <3>2, Zenon
  <2>3. Velocity = {[drive EXCEPT !.pos = p, !.target = p, !.ack = FALSE,
                                  !.reached = TRUE] : p \in Near}
    BY Zenon DEF Velocity
  <2> HIDE DEF Near
  <2> QED
    BY <1>4, <2>2, <2>3
<1>6. \A d \in Drive : \A p \in {d.pos, Toward(d.pos, d.target)} :
        [d EXCEPT !.pos = p, !.reached = (p = d.target)] \in Drive
  BY <1>1 DEF Drive
<1>7. /\ [drive EXCEPT !.ack = FALSE] \in Drive
      /\ [drive EXCEPT !.ack = TRUE] \in Drive
      /\ [drive EXCEPT !.ack = TRUE, !.target = frame.target,
                       !.reached = (drive.pos = frame.target)] \in Drive
  BY <1>2 DEF Drive
<1>8. Position \subseteq Drive
  <2> DEFINE Moved(d) == {[d EXCEPT !.pos = p, !.reached = (p = d.target)]
                            : p \in {d.pos, Toward(d.pos, d.target)}}
  <2>1. \A d \in Drive : Moved(d) \subseteq Drive
    BY <1>6
  <2>2. Moved([drive EXCEPT !.ack = FALSE]) \subseteq Drive
        /\ Moved(drive) \subseteq Drive
    BY <1>2, <1>7, <2>1
  <2>3. Position \in
          {Moved([drive EXCEPT !.ack = FALSE]), Moved(drive),
           {[drive EXCEPT !.ack = TRUE, !.target = frame.target,
                          !.reached = (drive.pos = frame.target)], drive,
            [drive EXCEPT !.ack = TRUE]}}
    BY Zenon DEF Position
  <2> HIDE DEF Moved
  <2> QED
    BY <1>2, <1>7, <2>2, <2>3
<1> QED
  BY <1>3, <1>5, <1>8 DEF Answers

LEMMA SendKeeps ==
  ASSUME CyclicTypeOK, Send
  PROVE  CyclicTypeOK' /\ dev' = dev
<1>1. PICK d \in Answers, s \in Obey(drive.pds, frame.cw) :
        \/ drive' = [d EXCEPT !.pds = s] /\ UNCHANGED faults
        \/ /\ faults < MaxFaults /\ drive.pds = "enabled"
           /\ drive' = [d EXCEPT !.pds = "fault"]
           /\ faults' = faults + 1
  BY DEF Send
<1>2. d \in Drive
  BY <1>1, AnswersTyped
<1>3. s \in States
  BY <1>1 DEF Obey, States, CyclicTypeOK, Drive
<1>4. drive' \in Drive
  BY <1>1, <1>2, <1>3 DEF Drive, States
<1>5. faults' \in 0 .. MaxFaults
  BY <1>1, BoundsAssumption DEF CyclicTypeOK
<1>6. frame' \in Frame
  BY DEF Send, Sent, Frame, ControlWords
<1> QED
  BY <1>4, <1>5, <1>6 DEF Send, CyclicTypeOK

LEMMA CyclicTaskKeeps ==
  ASSUME IInv, CyclicTask
  PROVE  IInv'
<1>1. CyclicTypeOK
  BY DEF IInv, TypeOK
<1>2. CyclicTypeOK' /\ (dev'.pos => dev.pos)
  BY <1>1, ReceiveKeeps, PulseKeeps, ClearKeeps, SendKeeps
  DEF CyclicTask, Cycle
<1>3. lag' \in 0 .. MaxLag
  BY MotionAssumption DEF CyclicTask, Cycle, IInv, TypeOK, motionVars
<1>4. UNCHANGED <<mover, listener, resetter, faultReset, clamp, events>>
  BY DEF CyclicTask, Cycle, motionVars
<1> QED
  BY <1>2, <1>3, <1>4 DEF IInv, TypeOK, PosOnlyInMove, RetryOK, Awake

----------------------------------------------------------------------------
\* The two ways a goroutine steps: the move, and the others around it.

\* Where position control may be on.
Holding == {"target", "phase1", "phase15", "phase2", "stable", "settle",
            "failed"}

LEMMA MoverKeeps ==
  ASSUME IInv, NEW pc \in Stages, NEW m \in Mover, Moves(pc, m),
         dev' \in Device, events' \in 0 .. MaxEvents,
         dev'.pos => pc \in Holding,
         pc = "retry" => m.attempt < MaxAttempts
  PROVE  IInv'
<1>1. mover' \in Mover /\ mover'.pc = pc /\ mover'.attempt = m.attempt
  BY DEF Moves, Mover
<1>2. lag' \in 0 .. MaxLag
  BY MotionAssumption DEF Moves
<1>3. CyclicTypeOK'
  BY DEF IInv, TypeOK, CyclicTypeOK, Moves, cyclicVars
<1>4. TypeOK'
  BY <1>1, <1>2, <1>3 DEF IInv, TypeOK, Moves
<1> QED
  BY <1>1, <1>4 DEF IInv, PosOnlyInMove, RetryOK, Awake, Holding

LEMMA OthersKeep ==
  ASSUME IInv, UNCHANGED <<cyclicVars, lag>>,
         mover' \in Mover, mover'.pc = mover.pc,
         mover'.attempt = mover.attempt,
         dev' \in Device, dev'.pos => dev.pos,
         listener' \in {"recv", "jogramp", "abort", "clear", "clearing",
                        "poweroff", "jog", "stopjog"},
         resetter' \in {"recv", "aborting", "clear", "clearing"},
         faultReset' \in [by : {"none", "listener", "resetter"},
                          stage : {"wait", "settle"}, brake : BOOLEAN],
         clamp' \in BOOLEAN, events' \in 0 .. MaxEvents
  PROVE  IInv'
<1>1. CyclicTypeOK'
  BY DEF IInv, TypeOK, CyclicTypeOK, cyclicVars
<1> QED
  BY <1>1 DEF IInv, TypeOK, PosOnlyInMove, RetryOK, Awake

LEMMA OccursTyped ==
  ASSUME NEW e, TypeOK, Occurs(e)
  PROVE  events' \in 0 .. MaxEvents
BY MotionAssumption DEF TypeOK, Occurs

----------------------------------------------------------------------------
\* The move.

LEMMA PutInMove ==
  ASSUME NEW m \in Mover, NEW i \in Int
  PROVE  /\ [m EXCEPT !.want = i] \in Mover
         /\ [m EXCEPT !.delta = i] \in Mover
         /\ [m EXCEPT !.goal = i] \in Mover
         /\ \A n \in 1 .. MaxAttempts : [m EXCEPT !.attempt = n] \in Mover
BY DEF Mover

\* The move knows its goal as soon as position control is on.
LEMMA GoalTyped ==
  ASSUME NEW m \in Mover, NEW g \in Int
  PROVE  [m EXCEPT !.goal = g, !.delta = 0] \in Mover
<1> DEFINE n == [m EXCEPT !.goal = g]
<1>1. n \in Mover
  BY PutInMove
<1>2. [n EXCEPT !.delta = 0] \in Mover
  <2> HIDE DEF n
  <2> QED
    BY <1>1 DEF Mover
<1> QED
  BY <1>2

LEMMA MoveBegins ==
  ASSUME IInv, MoveMotorToDegree
  PROVE  IInv'
<1>1. PICK p \in 0 .. MaxPos :
        Moves("declamp", [NoMove EXCEPT !.want = p, !.delta = p - fb.pos])
  BY DEF MoveMotorToDegree
<1>2. [NoMove EXCEPT !.want = p, !.delta = p - fb.pos] \in Mover
  <2>1. NoMove \in Mover
    BY MotionAssumption DEF NoMove, Mover, Stages
  <2>2. p \in Int /\ p - fb.pos \in Int
    BY BoundsAssumption DEF IInv, TypeOK, CyclicTypeOK, Status
  <2> QED
    BY <2>1, <2>2, PutInMove
<1>3. ~ dev.pos /\ dev' = dev /\ dev \in Device
  BY DEF MoveMotorToDegree, IInv, TypeOK, CyclicTypeOK, PosOnlyInMove, Awake
<1>4. events' \in 0 .. MaxEvents
  BY OccursTyped DEF MoveMotorToDegree, IInv
<1> QED
  BY <1>1, <1>2, <1>3, <1>4, MoverKeeps DEF Stages

LEMMA MoveKeeps ==
  ASSUME IInv, Move
  PROVE  IInv'
<1>1. /\ dev \in Device /\ mover \in Mover /\ clamp \in BOOLEAN
      /\ events \in 0 .. MaxEvents /\ fb \in Status
  BY DEF IInv, TypeOK, CyclicTypeOK
<1>2. /\ dev.pos \in BOOLEAN /\ dev.target \in Int
      /\ mover.want \in Int /\ mover.goal \in Int /\ mover.delta \in Int
      /\ mover.attempt \in 1 .. MaxAttempts /\ mover.again \in BOOLEAN
      /\ mover.clamp \in BOOLEAN /\ fb.pos \in Int
  BY <1>1 DEF Device, Mover, Status
<1>3. dev.pos => mover.pc \in Holding
  BY DEF IInv, PosOnlyInMove, Awake, Holding
<1>4. NoMove \in Mover
  BY MotionAssumption DEF NoMove, Mover, Stages
<1>5. \A b \in BOOLEAN : [mover EXCEPT !.again = b] \in Mover
  BY <1>1 DEF Mover
<1>6. \A b \in BOOLEAN : Fails(b) /\ dev' \in Device
        /\ (dev'.pos => dev.pos) /\ UNCHANGED events => IInv'
  BY <1>1, <1>5, MoverKeeps DEF Fails, Stages, Holding
<1>7. CASE HasDeclamped
  <2>1. [mover EXCEPT !.clamp = clamp] \in Mover
    BY <1>1 DEF Mover
  <2>2. dev' \in Device /\ dev'.pos = dev.pos
    BY <1>1, <1>7, BrakeTyped DEF HasDeclamped
  <2> QED
    BY <1>1, <1>3, <1>7, <2>1, <2>2, MoverKeeps DEF HasDeclamped, Stages, Holding
<1>8. CASE DeclampFails
  BY <1>1, <1>3, <1>4, <1>8, MoverKeeps DEF DeclampFails, Stages, Holding
<1>9. CASE EnablePos
  <2>1. [mover EXCEPT !.goal = fb.pos + mover.delta, !.delta = 0] \in Mover
    <3>1. fb.pos + mover.delta \in Int
      BY <1>2
    <3> QED
      BY <1>1, <3>1, GoalTyped
  <2> QED
    BY <1>1, <1>9, <2>1, EnablePosTyped, MoverKeeps
    DEF EnablePos, Stages, Holding
<1>10. CASE SetTarget
  BY <1>1, <1>2, <1>10, SetTargetTyped, MoverKeeps
  DEF SetTarget, Stages, Holding
<1>11. CASE Faulted
  BY <1>1, <1>6, <1>11 DEF Faulted
<1>12. CASE Phase1
  BY <1>1, <1>12, MoverKeeps DEF Phase1, Stages, Holding
<1>13. CASE Phase15
  BY <1>1, <1>13, MoverKeeps DEF Phase15, Stages, Holding
<1>14. CASE Phase2
  <2>1. CASE dev.aborted
    BY <1>1, <1>6, <1>14, <2>1, PutFlag DEF Phase2
  <2>2. CASE ~ dev.aborted
    <3>1. \/ \E pc \in {"phase2", "stable", "settle"} : Moves(pc, mover)
          \/ Fails(TRUE)
      BY <1>14, <2>2 DEF Phase2
    <3>2. dev' = dev /\ events' = events
      BY <1>14, <2>2 DEF Phase2
    <3>3. ASSUME NEW pc \in {"phase2", "stable", "settle"}, Moves(pc, mover)
          PROVE  IInv'
      BY <1>1, <3>2, <3>3, MoverKeeps DEF Stages, Holding
    <3> QED
      BY <1>1, <1>6, <3>1, <3>2, <3>3
  <2> QED
    BY <2>1, <2>2
<1>15. CASE Timeout
  BY <1>1, <1>6, <1>15 DEF Timeout
<1>16. CASE Failed
  BY <1>1, <1>4, <1>16, EnablePosTyped, MoverKeeps
  DEF Failed, Stages, Holding
<1>17. CASE Retry
  <2>1. mover.attempt + 1 \in 1 .. MaxAttempts
    BY <1>2, <1>17, MotionAssumption DEF Retry, IInv, RetryOK
  <2>2. [mover EXCEPT !.attempt = @ + 1, !.delta = mover.want - fb.pos]
          \in Mover
    <3>1. mover.want - fb.pos \in Int
      BY <1>2
    <3> QED
      BY <1>1, <2>1, <3>1, PutInMove
  <2> QED
    BY <1>1, <1>3, <1>17, <2>2, PutFlag, MoverKeeps DEF Retry, Stages, Holding
<1>18. CASE DisablePos
  BY <1>1, <1>18, EnablePosTyped, MoverKeeps DEF DisablePos, Stages, Holding
<1>19. CASE ClampAfter
  BY <1>1, <1>2, <1>3, <1>19, ClampTyped, MoverKeeps
  DEF ClampAfter, Stages, Holding
<1>20. CASE Finish
  <2>1. /\ [dev EXCEPT !.mask = TRUE, !.val = FALSE] \in Device
        /\ [dev EXCEPT !.mask = TRUE, !.val = FALSE].pos = dev.pos
    BY <1>1, PutFlag
  <2> QED
    BY <1>1, <1>3, <1>4, <1>20, <2>1, MoverKeeps DEF Finish, Stages, Holding
<1> QED
  BY <1>7, <1>8, <1>9, <1>10, <1>11, <1>12, <1>13, <1>14, <1>15, <1>16,
     <1>17, <1>18, <1>19, <1>20 DEF Move

----------------------------------------------------------------------------
\* The others.

LEMMA FaultResetKeeps ==
  ASSUME IInv, FaultReset
  PROVE  IInv'
<1>1. /\ dev \in Device /\ mover \in Mover /\ clamp \in BOOLEAN
      /\ events \in 0 .. MaxEvents /\ dev.val \in BOOLEAN
      /\ faultReset.brake \in BOOLEAN
  BY DEF IInv, TypeOK, CyclicTypeOK, Device
<1>2. CASE FaultResetClears
  <2>1. dev' \in Device /\ dev'.pos = dev.pos
    BY <1>1, <1>2, PutFlag DEF FaultResetClears
  <2>2. faultReset' \in [by : {"none", "listener", "resetter"},
                         stage : {"wait", "settle"}, brake : BOOLEAN]
    BY <1>1, <1>2 DEF FaultResetClears, IInv, TypeOK
  <2> QED
    BY <1>1, <1>2, <2>1, <2>2, OthersKeep DEF FaultResetClears, IInv, TypeOK
<1>3. CASE FaultResetEnds
  <2> DEFINE d1 == [dev EXCEPT !.mask = TRUE]
             d2 == [d1 EXCEPT !.val = faultReset.brake]
  <2>1. d1 \in Device /\ d1.pos = dev.pos
    BY <1>1, PutFlag
  <2>2. d2 \in Device /\ d2.pos = dev.pos
    <3> HIDE DEF d1
    <3> QED
      BY <1>1, <2>1, PutFlag
  <2>3. dev' = [d2 EXCEPT !.faultReset = FALSE]
    BY <1>3 DEF FaultResetEnds
  <2>4. dev' \in Device /\ dev'.pos = dev.pos
    <3> HIDE DEF d1, d2
    <3> QED
      BY <2>2, <2>3, PutFlag
  <2> QED
    BY <1>1, <1>3, <2>4, OthersKeep DEF FaultResetEnds, IInv, TypeOK
<1> QED
  BY <1>2, <1>3 DEF FaultReset

LEMMA BeginsTyped ==
  ASSUME IInv, NEW by \in {"listener", "resetter"}, FaultResetBegins(by)
  PROVE  /\ dev' \in Device /\ (dev'.pos => dev.pos)
         /\ faultReset' \in [by : {"none", "listener", "resetter"},
                             stage : {"wait", "settle"}, brake : BOOLEAN]
<1>1. dev \in Device /\ fb.pos \in Int
  BY DEF IInv, TypeOK, CyclicTypeOK, Status
<1>2. pdoStopMotion(dev) \in Device /\ pdoStopMotion(dev).pos = FALSE
  BY <1>1, StopTyped
<1>3. /\ SetTargetPositionPDO(fb.pos, pdoStopMotion(dev)) \in Device
      /\ SetTargetPositionPDO(fb.pos, pdoStopMotion(dev)).pos = FALSE
  BY <1>1, <1>2, SetTargetTyped
<1>4. dev' \in Device /\ dev'.pos = FALSE
  BY <1>3, PutFlag DEF FaultResetBegins
<1> QED
  BY <1>4 DEF FaultResetBegins

LEMMA ListenerKeeps ==
  ASSUME IInv, Listener
  PROVE  IInv'
<1>1. /\ dev \in Device /\ mover \in Mover /\ clamp \in BOOLEAN
      /\ events \in 0 .. MaxEvents /\ TypeOK
  BY DEF IInv, TypeOK, CyclicTypeOK
<1>2. CASE EmergencyRampStop
  <2>1. dev' \in Device /\ dev'.pos = dev.pos
    BY <1>1, <1>2, PutFlag DEF EmergencyRampStop
  <2> QED
    BY <1>1, <1>2, <2>1, OccursTyped, OthersKeep
    DEF EmergencyRampStop, Listens, TypeOK
<1>3. CASE EmergencyStopsJog
  <2>1. dev' \in Device /\ (dev'.pos => dev.pos)
    BY <1>1, <1>3, EnableJogTyped DEF EmergencyStopsJog
  <2> QED
    BY <1>1, <1>3, <2>1, OthersKeep DEF EmergencyStopsJog, Listens, TypeOK
<1>4. CASE EmergencyAborts
  <2>1. [[dev EXCEPT !.moving = FALSE] EXCEPT !.aborted = TRUE] \in Device
    BY <1>1, PutFlag
  <2>2. dev' \in Device /\ (dev'.pos => dev.pos)
    BY <1>1, <1>4, <2>1, EnablePosTyped DEF EmergencyAborts
  <2> QED
    BY <1>1, <1>4, <2>2, OthersKeep DEF EmergencyAborts, Listens, TypeOK
<1>5. CASE EmergencyResetsFault
  <2>1. /\ dev' \in Device /\ (dev'.pos => dev.pos)
        /\ faultReset' \in [by : {"none", "listener", "resetter"},
                            stage : {"wait", "settle"}, brake : BOOLEAN]
    BY <1>1, <1>5, BeginsTyped DEF EmergencyResetsFault, NoFaultReset, TypeOK
  <2> QED
    BY <1>1, <1>5, <2>1, OthersKeep DEF EmergencyResetsFault, Listens, TypeOK
<1>6. CASE PowerOffAll
  <2>1. dev' \in Device /\ dev'.pos = FALSE
    BY <1>1, <1>6, StopTyped DEF PowerOffAll
  <2>2. mover' \in Mover /\ mover'.pc = mover.pc /\ mover'.attempt = mover.attempt
    BY <1>1, <1>6 DEF PowerOffAll, Mover
  <2> QED
    BY <1>1, <1>6, <2>1, <2>2, OthersKeep DEF PowerOffAll, Listens, TypeOK
<1>7. CASE ManualJog
  <2>1. dev' \in Device /\ dev'.pos = dev.pos
    BY <1>1, <1>7, BrakeTyped DEF ManualJog
  <2> QED
    BY <1>1, <1>7, <2>1, OccursTyped, OthersKeep DEF ManualJog, Listens, TypeOK
<1>8. CASE JogStarts
  <2>1. /\ [dev EXCEPT !.moving = TRUE] \in Device
        /\ [dev EXCEPT !.moving = TRUE].pos = dev.pos
    BY <1>1, PutFlag
  <2>2. dev' \in Device /\ (dev'.pos => dev.pos)
    BY <1>1, <1>8, <2>1, EnableJogTyped DEF JogStarts
  <2> QED
    BY <1>1, <1>8, <2>2, OthersKeep DEF JogStarts, Listens, TypeOK
<1>9. CASE StopJog
  <2>1. dev' \in Device /\ dev'.pos = dev.pos
    BY <1>1, <1>9, PutFlag DEF StopJog
  <2>2. events' \in 0 .. MaxEvents
    BY <1>1, <1>9, OccursTyped DEF StopJog
  <2> QED
    BY <1>1, <1>9, <2>1, <2>2, OthersKeep DEF StopJog, Listens, TypeOK
<1>10. CASE StopJogEnds
  <2>1. /\ EnableJogPDO(FALSE, dev) \in Device
        /\ (EnableJogPDO(FALSE, dev).pos => dev.pos)
    BY <1>1, EnableJogTyped
  <2>2. dev' \in Device /\ (dev'.pos => dev.pos)
    BY <1>1, <1>10, <2>1, ClampTyped DEF StopJogEnds
  <2> QED
    BY <1>1, <1>10, <2>2, OthersKeep DEF StopJogEnds, Listens, TypeOK
<1>11. CASE ApplyClampIfSettingsChanged
  <2>1. dev' \in Device /\ (dev'.pos => dev.pos)
    BY <1>1, <1>11, PowerTyped DEF ApplyClampIfSettingsChanged
  <2>2. events' \in 0 .. MaxEvents /\ clamp' \in BOOLEAN
    BY <1>1, <1>11, OccursTyped DEF ApplyClampIfSettingsChanged
  <2> QED
    BY <1>1, <1>11, <2>1, <2>2, OthersKeep
    DEF ApplyClampIfSettingsChanged, Listens, TypeOK
<1> QED
  BY <1>2, <1>3, <1>4, <1>5, <1>6, <1>7, <1>8, <1>9, <1>10, <1>11 DEF Listener

LEMMA ResetWorkerKeeps ==
  ASSUME IInv, ResetWorker
  PROVE  IInv'
<1>1. /\ dev \in Device /\ mover \in Mover /\ clamp \in BOOLEAN
      /\ events \in 0 .. MaxEvents /\ TypeOK
  BY DEF IInv, TypeOK, CyclicTypeOK
<1>2. CASE ResetAborts
  <2>1. dev' \in Device /\ dev'.pos = dev.pos
    BY <1>1, <1>2, PutFlag DEF ResetAborts
  <2> QED
    BY <1>1, <1>2, <2>1, OccursTyped, OthersKeep DEF ResetAborts, Resets, TypeOK
<1>3. CASE ResetClearsAbort
  <2>1. dev' \in Device /\ dev'.pos = dev.pos
    BY <1>1, <1>3, PutFlag DEF ResetClearsAbort
  <2> QED
    BY <1>1, <1>3, <2>1, OthersKeep DEF ResetClearsAbort, Resets, TypeOK
<1>4. CASE ResetClearsFault
  <2>1. /\ dev' \in Device /\ (dev'.pos => dev.pos)
        /\ faultReset' \in [by : {"none", "listener", "resetter"},
                            stage : {"wait", "settle"}, brake : BOOLEAN]
    BY <1>1, <1>4, BeginsTyped DEF ResetClearsFault, NoFaultReset, TypeOK
  <2> QED
    BY <1>1, <1>4, <2>1, OthersKeep DEF ResetClearsFault, Resets, TypeOK
<1> QED
  BY <1>2, <1>3, <1>4 DEF ResetWorker

----------------------------------------------------------------------------

LEMMA Initially == Init => IInv
<1> SUFFICES ASSUME Init PROVE IInv
  OBVIOUS
<1>1. CyclicTypeOK
  <2>1. dev \in Device /\ drive \in Drive
    BY DEF Init, CyclicInit, Device, Drive, States
  <2>2. fb \in Status /\ frame \in Frame
    BY <2>1 DEF Init, CyclicInit, Feedback, Status, Drive, Sent, Frame,
                ControlWords
  <2> QED
    BY <2>1, <2>2, CyclesAssumption, BoundsAssumption
    DEF Init, CyclicInit, CyclicTypeOK
<1>2. mover \in Mover /\ mover.pc = "idle"
  BY MotionAssumption DEF Init, NoMove, Mover, Stages
<1>3. TypeOK
  BY <1>1, <1>2, MotionAssumption, CyclesAssumption DEF Init, TypeOK
<1>4. dev.pos = FALSE
  BY DEF Init, CyclicInit
<1> QED
  BY <1>2, <1>3, <1>4 DEF IInv, PosOnlyInMove, RetryOK

LEMMA Inductive == IInv /\ [Next]_vars => IInv'
<1> SUFFICES ASSUME IInv, [Next]_vars PROVE IInv'
  OBVIOUS
<1>1. CASE UNCHANGED vars
  <2>1. /\ dev' = dev /\ UNCHANGED cyclicVars /\ UNCHANGED motionVars
    BY <1>1 DEF vars
  <2>2. CyclicTypeOK'
    BY <2>1 DEF IInv, TypeOK, CyclicTypeOK, cyclicVars
  <2> QED
    BY <2>1, <2>2 DEF IInv, TypeOK, PosOnlyInMove, RetryOK, Awake, motionVars
<1> QED
  BY <1>1, CyclicTaskKeeps, MoveBegins, MoveKeeps, ListenerKeeps,
     FaultResetKeeps, ResetWorkerKeeps DEF Next

\* TypeOK of PdoMotion: the set-point counter stays within AckLimit and the
\* attempts within their number, for every number of cycles and attempts.
THEOREM TypeCorrect == Spec => []TypeOK
<1>1. IInv => TypeOK
  BY DEF IInv
<1> QED
  BY <1>1, Initially, Inductive, PTL DEF Spec

\* PosOnlyInMove: outside a move position control is off, whichever way the
\* last move ended and whatever the other goroutines did meanwhile.
THEOREM PosOnlyInMoveHolds == Spec => []PosOnlyInMove
<1>1. IInv => PosOnlyInMove
  BY DEF IInv
<1> QED
  BY <1>1, Initially, Inductive, PTL DEF Spec

----------------------------------------------------------------------------
(* Why a move that was found to have arrived has arrived.  The drive says   *)
(* reached only where its position is its own target; bit 10 was seen low   *)
(* in Phase 1.5, so the status with bit 10 high that Phase 2 believes was   *)
(* received after the goal was stored, and whatever frame went out since    *)
(* carries this goal.  Whoever takes position control away does it for the  *)
(* rest of the move, so all of this is about dev.pos being TRUE.            *)

\* The frame of the cycle that is under way carries the goal of the move.
Fresh == tick # "idle" => frame.mode = "position" /\ frame.target = mover.goal

AtGoal == drive.pos = mover.goal /\ drive.target = mover.goal

\* The drive's own bit 10, and the status that is a copy of the drive.
ReachedIsThere == drive.reached => drive.pos = drive.target
StatusIsDrive == tick # "idle" => fb = Feedback(drive)

OneMode == ~ (dev.pos /\ dev.jog)

Targeted == mover.pc \in {"phase1", "phase15", "phase2", "stable", "settle"}

GoalStored == dev.pos /\ Targeted => dev.target = mover.goal

ArrivalIsFresh ==
  dev.pos /\ mover.pc \in {"phase2", "stable"} /\ fb.reached =>
    Fresh /\ (fb.pos = mover.goal => AtGoal)

RestIsFresh == dev.pos /\ mover.pc = "settle" => Fresh /\ AtGoal

GoalInv ==
  ReachedIsThere /\ StatusIsDrive /\ OneMode /\ GoalStored /\ ArrivalIsFresh
    /\ RestIsFresh

\* What every store but EnablePosPDO(TRUE) and the goal of a move does.
Loosens(d, e) == e.pos => d.pos /\ (e.jog => d.jog) /\ e.target = d.target

LEMMA FlagLoosens ==
  ASSUME NEW d \in Device, NEW b \in BOOLEAN
  PROVE  /\ Loosens(d, [d EXCEPT !.pending = b])
         /\ Loosens(d, [d EXCEPT !.moving = b])
         /\ Loosens(d, [d EXCEPT !.aborted = b])
         /\ Loosens(d, [d EXCEPT !.settle = b])
         /\ Loosens(d, [d EXCEPT !.mask = b])
         /\ Loosens(d, [d EXCEPT !.val = b])
         /\ Loosens(d, EnablePosPDO(FALSE, d))
         /\ Loosens(d, EnableJogPDO(b, d))
BY DEF Device, Loosens, EnablePosPDO, EnableJogPDO

LEMMA OffLoosens ==
  ASSUME NEW d, NEW e, e.pos = FALSE
  PROVE  Loosens(d, e)
BY DEF Loosens

LEMMA LoosensTwice ==
  ASSUME NEW d, NEW e, NEW f, Loosens(d, e), Loosens(e, f)
  PROVE  Loosens(d, f)
BY DEF Loosens

LEMMA BrakeLoosens ==
  ASSUME NEW d \in Device, NEW on \in BOOLEAN
  PROVE  /\ Loosens(d, breakOn(d)) /\ Loosens(d, breakOff(d))
         /\ Loosens(d, HasClamped(on, d))
<1>1. Loosens(d, breakOn(d)) /\ Loosens(d, breakOff(d)) /\ Loosens(d, d)
  BY DEF Device, Loosens, breakOn, breakOff
<1>2. FastPowerOff(breakOn(d)).pos = FALSE
  BY BrakeTyped, PowerTyped
<1> QED
  BY <1>1, <1>2, OffLoosens DEF HasClamped

----------------------------------------------------------------------------
\* The cyclic task keeps it.

LEMMA ReceiveKeepsGoal ==
  ASSUME IInv, GoalInv, Receive, UNCHANGED mover
  PROVE  GoalInv'
<1>1. /\ UNCHANGED <<dev, latch, drive, faults>> /\ fb' = Feedback(drive)
      /\ fb'.reached = drive.reached /\ fb'.pos = drive.pos
  BY DEF Receive, Feedback
<1>2. dev.pos => frame'.mode = "position" /\ frame'.target = dev.target
  BY DEF Receive, GoalInv, OneMode
<1>3. (ReachedIsThere /\ StatusIsDrive /\ OneMode /\ GoalStored)'
  BY <1>1 DEF GoalInv, ReachedIsThere, StatusIsDrive, OneMode, GoalStored,
              Targeted, Feedback
<1>4. dev.pos /\ Targeted => Fresh'
  BY <1>2 DEF GoalInv, GoalStored, Fresh
<1>5. drive.reached /\ drive.pos = mover.goal => AtGoal'
  BY <1>1 DEF GoalInv, ReachedIsThere, AtGoal
<1>6. ArrivalIsFresh' /\ RestIsFresh'
  BY <1>1, <1>4, <1>5 DEF GoalInv, ArrivalIsFresh, RestIsFresh, AtGoal, Targeted
<1> QED
  BY <1>3, <1>6 DEF GoalInv

LEMMA PulseClearKeepGoal ==
  ASSUME IInv, GoalInv, Pulse \/ Clear, UNCHANGED mover
  PROVE  GoalInv'
<1>1. dev \in Device /\ frame \in Frame
  BY DEF IInv, TypeOK, CyclicTypeOK
<1>2. /\ dev'.pos = dev.pos /\ dev'.jog = dev.jog
      /\ dev'.target = dev.target
  BY <1>1 DEF Pulse, Clear, Device
<1>3. UNCHANGED <<drive, fb>> /\ tick # "idle"
  BY DEF Pulse, Clear
<1>4. frame'.mode = frame.mode /\ frame'.target = frame.target
  BY <1>1 DEF Pulse, Clear, Frame
<1> QED
  BY <1>2, <1>3, <1>4 DEF GoalInv, ReachedIsThere, StatusIsDrive, OneMode,
     GoalStored, Targeted, ArrivalIsFresh, RestIsFresh, Fresh, AtGoal, Feedback

\* The drive's own promise: bit 10 is high only where the target is.
LEMMA AnswersReached ==
  ASSUME CyclicTypeOK, ReachedIsThere, NEW d \in Answers
  PROVE  d.reached => d.pos = d.target
<1>1. drive \in Drive
  BY DEF CyclicTypeOK
<1>2. CASE drive.pds # "enabled"
  BY <1>1, <1>2 DEF Answers, Powerless, Drive
<1>3. CASE drive.pds = "enabled" /\ frame.mode # "position"
  BY <1>1, <1>3 DEF Answers, Velocity, Drive
<1>4. CASE drive.pds = "enabled" /\ frame.mode = "position"
  <2> DEFINE Moved(e) == {[e EXCEPT !.pos = p, !.reached = (p = e.target)]
                            : p \in {e.pos, Toward(e.pos, e.target)}}
  <2>1. ASSUME NEW e \in Drive, NEW x \in Moved(e)
        PROVE  x.reached => x.pos = x.target
    BY <2>1 DEF Drive
  <2>2. [drive EXCEPT !.ack = FALSE] \in Drive
    BY <1>1 DEF Drive
  <2>3. \/ d \in Moved([drive EXCEPT !.ack = FALSE]) \/ d \in Moved(drive)
        \/ d \in {[drive EXCEPT !.ack = TRUE, !.target = frame.target,
                                 !.reached = (drive.pos = frame.target)],
                   drive, [drive EXCEPT !.ack = TRUE]}
    BY <1>4, Zenon DEF Answers, Position
  <2>4. CASE d \in {[drive EXCEPT !.ack = TRUE, !.target = frame.target,
                                  !.reached = (drive.pos = frame.target)],
                    drive, [drive EXCEPT !.ack = TRUE]}
    BY <1>1, <2>4 DEF Drive, ReachedIsThere
  <2> HIDE DEF Moved
  <2> QED
    BY <1>1, <2>1, <2>2, <2>3, <2>4
<1> QED
  BY <1>2, <1>3, <1>4

\* At the goal, with a frame that carries it, it stays there.
LEMMA AnswersStay ==
  ASSUME CyclicTypeOK, AtGoal, NEW d \in Answers,
         frame.mode = "position", frame.target = mover.goal
  PROVE  d.pos = mover.goal /\ d.target = mover.goal
<1>1. drive \in Drive /\ drive.pos \in Int
  BY DEF CyclicTypeOK, Drive
<1>2. CASE drive.pds # "enabled"
  BY <1>1, <1>2 DEF Answers, Powerless, Drive, AtGoal
<1>3. CASE drive.pds = "enabled"
  <2> DEFINE Moved(e) == {[e EXCEPT !.pos = p, !.reached = (p = e.target)]
                            : p \in {e.pos, Toward(e.pos, e.target)}}
  <2>1. Toward(mover.goal, mover.goal) = mover.goal
    BY <1>1 DEF Toward, AtGoal
  <2>2. ASSUME NEW e \in Drive, e.pos = mover.goal, e.target = mover.goal,
               NEW x \in Moved(e)
        PROVE  x.pos = mover.goal /\ x.target = mover.goal
    <3>1. PICK p \in {e.pos, Toward(e.pos, e.target)} :
            x = [e EXCEPT !.pos = p, !.reached = (p = e.target)]
      BY <2>2
    <3>2. p = mover.goal
      BY <2>1, <2>2, <3>1
    <3> QED
      BY <2>2, <3>1, <3>2 DEF Drive
  <2>3. /\ [drive EXCEPT !.ack = FALSE] \in Drive
        /\ [drive EXCEPT !.ack = FALSE].pos = mover.goal
        /\ [drive EXCEPT !.ack = FALSE].target = mover.goal
    BY <1>1 DEF Drive, AtGoal
  <2>4. \/ d \in Moved([drive EXCEPT !.ack = FALSE]) \/ d \in Moved(drive)
        \/ d \in {[drive EXCEPT !.ack = TRUE, !.target = frame.target,
                                 !.reached = (drive.pos = frame.target)],
                   drive, [drive EXCEPT !.ack = TRUE]}
    BY <1>3, Zenon DEF Answers, Position
  <2>5. CASE d \in {[drive EXCEPT !.ack = TRUE, !.target = frame.target,
                                  !.reached = (drive.pos = frame.target)],
                    drive, [drive EXCEPT !.ack = TRUE]}
    BY <1>1, <2>5 DEF Drive, AtGoal
  <2> HIDE DEF Moved
  <2> QED
    BY <1>1, <2>2, <2>3, <2>4, <2>5 DEF AtGoal
<1> QED
  BY <1>2, <1>3

LEMMA SendKeepsGoal ==
  ASSUME IInv, GoalInv, Send, UNCHANGED mover
  PROVE  GoalInv'
<1>1. PICK d \in Answers, s \in Obey(drive.pds, frame.cw) :
        \/ drive' = [d EXCEPT !.pds = s]
        \/ drive' = [d EXCEPT !.pds = "fault"]
  BY DEF Send
<1>2. CyclicTypeOK /\ d \in Drive
  BY AnswersTyped DEF IInv, TypeOK
<1>3. /\ drive'.pos = d.pos /\ drive'.target = d.target
      /\ drive'.reached = d.reached
  BY <1>1, <1>2 DEF Drive
<1>4. UNCHANGED <<dev, latch, fb>> /\ tick = "send" /\ tick' = "idle"
  BY DEF Send
<1>5. ReachedIsThere' /\ StatusIsDrive' /\ OneMode' /\ GoalStored'
  BY <1>2, <1>3, <1>4, AnswersReached
  DEF GoalInv, ReachedIsThere, StatusIsDrive, OneMode, GoalStored, Targeted
<1>6. Fresh /\ AtGoal => Fresh' /\ AtGoal'
  BY <1>2, <1>3, <1>4, AnswersStay DEF Fresh, AtGoal
<1>7. Fresh'
  BY <1>4 DEF Fresh
<1>8. ArrivalIsFresh' /\ RestIsFresh'
  BY <1>4, <1>6, <1>7 DEF GoalInv, ArrivalIsFresh, RestIsFresh
<1> QED
  BY <1>5, <1>8 DEF GoalInv

----------------------------------------------------------------------------
\* The goroutines keep it.

LEMMA OthersKeepGoal ==
  ASSUME GoalInv, UNCHANGED <<cyclicVars, mover.pc, mover.goal>>,
         Loosens(dev, dev')
  PROVE  GoalInv'
BY DEF GoalInv, ReachedIsThere, StatusIsDrive, OneMode, GoalStored, Targeted,
       ArrivalIsFresh, RestIsFresh, Fresh, AtGoal, Feedback, Loosens, cyclicVars

\* A move that leaves the stages in which it watches the drive.
LEMMA LeavingKeepsGoal ==
  ASSUME GoalInv, NEW pc \in Stages, NEW m \in Mover, Moves(pc, m),
         ~ (dev'.pos /\ dev'.jog),
         dev'.pos /\ pc \in {"phase1", "phase15", "phase2", "stable", "settle"}
           => FALSE
  PROVE  GoalInv'
<1>1. mover'.pc = pc
  BY DEF Moves, Mover
<1> QED
  BY <1>1 DEF GoalInv, ReachedIsThere, StatusIsDrive, OneMode, GoalStored,
     Targeted, ArrivalIsFresh, RestIsFresh, Feedback, Moves, cyclicVars

LEMMA MoveKeepsGoal ==
  ASSUME IInv, GoalInv, Move
  PROVE  GoalInv'
<1>1. dev \in Device /\ mover \in Mover /\ clamp \in BOOLEAN
      /\ mover.clamp \in BOOLEAN
  BY DEF IInv, TypeOK, CyclicTypeOK, Mover
<1>2. OneMode /\ (dev.pos => mover.pc \in Holding)
  BY DEF GoalInv, IInv, PosOnlyInMove, Awake, Holding
<1>3. NoMove \in Mover
  BY MotionAssumption DEF NoMove, Mover, Stages
<1>4. \A b \in BOOLEAN : Fails(b) /\ Loosens(dev, dev') => GoalInv'
  <2>1. \A b \in BOOLEAN : [mover EXCEPT !.again = b] \in Mover
    BY <1>1 DEF Mover
  <2> QED
    BY <1>2, <2>1, LeavingKeepsGoal DEF Fails, Stages, Loosens, OneMode
<1>5. Loosens(dev, dev)
  BY DEF Loosens
<1>6. CASE HasDeclamped
  <2>1. [mover EXCEPT !.clamp = clamp] \in Mover
    BY <1>1 DEF Mover
  <2>2. Loosens(dev, dev')
    BY <1>1, <1>5, <1>6, BrakeLoosens DEF HasDeclamped
  <2> QED
    BY <1>2, <1>6, <2>1, <2>2, LeavingKeepsGoal
    DEF HasDeclamped, Stages, Loosens, OneMode
<1>7. CASE DeclampFails
  BY <1>2, <1>3, <1>7, LeavingKeepsGoal DEF DeclampFails, Stages, OneMode
<1>8. CASE EnablePos
  <2>1. [mover EXCEPT !.goal = fb.pos + mover.delta, !.delta = 0] \in Mover
    <3>1. fb.pos + mover.delta \in Int
      BY DEF IInv, TypeOK, CyclicTypeOK, Status, Mover
    <3> QED
      BY <1>1, <3>1, GoalTyped
  <2>2. dev'.jog = FALSE
    BY <1>1, <1>8 DEF EnablePos, EnablePosPDO, Device
  <2> QED
    BY <1>8, <2>1, <2>2, LeavingKeepsGoal DEF EnablePos, Stages
<1>9. CASE SetTarget
  <2>1. /\ mover'.pc = "phase1" /\ mover'.goal = mover.goal
        /\ dev'.target = mover.goal /\ dev'.pos = dev.pos
        /\ dev'.jog = dev.jog /\ UNCHANGED cyclicVars
    BY <1>1, <1>9 DEF SetTarget, SetTargetPositionPDO, Moves, Device, Mover
  <2> QED
    BY <2>1 DEF GoalInv, ReachedIsThere, StatusIsDrive, OneMode, GoalStored,
       Targeted, ArrivalIsFresh, RestIsFresh, Feedback, cyclicVars
<1>10. CASE Faulted
  BY <1>4, <1>5, <1>10 DEF Faulted
<1>11. CASE Phase1
  <2>1. /\ mover'.pc \in {"phase1", "phase15"} /\ mover'.goal = mover.goal
        /\ mover.pc = "phase1" /\ dev' = dev /\ UNCHANGED cyclicVars
    BY <1>1, <1>11 DEF Phase1, Moves, Mover
  <2> QED
    BY <2>1 DEF GoalInv, ReachedIsThere, StatusIsDrive, OneMode, GoalStored,
       Targeted, ArrivalIsFresh, RestIsFresh, Feedback, cyclicVars
<1>12. CASE Phase15
  <2>1. /\ mover'.pc \in {"phase15", "phase2"} /\ mover'.goal = mover.goal
        /\ fb.reached => mover'.pc = "phase15"
        /\ mover.pc = "phase15" /\ dev' = dev /\ UNCHANGED cyclicVars
    BY <1>1, <1>12 DEF Phase15, Moves, Mover
  <2> QED
    BY <2>1 DEF GoalInv, ReachedIsThere, StatusIsDrive, OneMode, GoalStored,
       Targeted, ArrivalIsFresh, RestIsFresh, Feedback, cyclicVars
<1>13. CASE Phase2
  <2>1. CASE dev.aborted
    BY <1>1, <1>4, <1>13, <2>1, FlagLoosens DEF Phase2
  <2>2. CASE ~ dev.aborted
    <3>1. \/ \E pc \in {"phase2", "stable"} : Moves(pc, mover)
          \/ fb.pos = dev.target /\ fb.reached /\ Moves("settle", mover)
          \/ Fails(TRUE)
      BY <1>13, <2>2 DEF Phase2, IsTargetReached
    <3>2. dev' = dev /\ mover.pc \in {"phase2", "stable"}
      BY <1>13, <2>2 DEF Phase2
    <3>3. ASSUME NEW pc \in {"phase2", "stable", "settle"}, Moves(pc, mover)
          PROVE  mover'.pc = pc /\ mover'.goal = mover.goal
                 /\ UNCHANGED cyclicVars
      BY <1>1, <3>3 DEF Moves, Mover
    <3>4. ASSUME NEW pc \in {"phase2", "stable"}, Moves(pc, mover)
          PROVE  GoalInv'
      BY <3>2, <3>3, <3>4
      DEF GoalInv, ReachedIsThere, StatusIsDrive, OneMode, GoalStored, Targeted,
          ArrivalIsFresh, RestIsFresh, Fresh, AtGoal, Feedback, cyclicVars
    <3>5. CASE fb.pos = dev.target /\ fb.reached /\ Moves("settle", mover)
      BY <3>2, <3>3, <3>5
      DEF GoalInv, ReachedIsThere, StatusIsDrive, OneMode, GoalStored, Targeted,
          ArrivalIsFresh, RestIsFresh, Fresh, AtGoal, Feedback, cyclicVars
    <3> QED
      BY <1>4, <1>5, <3>1, <3>2, <3>4, <3>5
  <2> QED
    BY <2>1, <2>2
<1>14. CASE Timeout
  BY <1>4, <1>5, <1>14 DEF Timeout
<1>15. CASE Failed
  <2>1. dev'.pos = FALSE
    BY <1>1, <1>15, EnablePosTyped DEF Failed
  <2> QED
    BY <1>1, <1>3, <1>15, <2>1, LeavingKeepsGoal DEF Failed, Stages
<1>16. CASE Retry
  <2>1. dev'.pos = dev.pos
    BY <1>1, <1>16, PutFlag DEF Retry
  <2>2. [mover EXCEPT !.attempt = @ + 1, !.delta = mover.want - fb.pos]
          \in Mover
    <3>1. mover.want - fb.pos \in Int /\ mover.attempt + 1 \in 1 .. MaxAttempts
      BY <1>1, <1>16, MotionAssumption
      DEF Retry, IInv, RetryOK, TypeOK, CyclicTypeOK, Status, Mover
    <3> QED
      BY <1>1, <3>1, PutInMove
  <2> QED
    BY <1>2, <1>16, <2>1, <2>2, LeavingKeepsGoal DEF Retry, Stages, Holding
<1>17. CASE DisablePos
  BY <1>1, <1>17, EnablePosTyped, LeavingKeepsGoal DEF DisablePos, Stages
<1>18. CASE ClampAfter
  BY <1>1, <1>2, <1>18, ClampTyped, LeavingKeepsGoal
  DEF ClampAfter, Stages, Holding
<1>19. CASE Finish
  <2>1. [dev EXCEPT !.mask = TRUE, !.val = FALSE].pos = dev.pos
    BY <1>1, PutFlag
  <2> QED
    BY <1>2, <1>3, <1>19, <2>1, LeavingKeepsGoal DEF Finish, Stages, Holding
<1> QED
  BY <1>6, <1>7, <1>8, <1>9, <1>10, <1>11, <1>12, <1>13, <1>14, <1>15, <1>16,
     <1>17, <1>18, <1>19 DEF Move

LEMMA BeginsLoosens ==
  ASSUME dev \in Device, fb.pos \in Int, NEW by, FaultResetBegins(by)
  PROVE  Loosens(dev, dev')
<1>1. /\ SetTargetPositionPDO(fb.pos, pdoStopMotion(dev)) \in Device
      /\ SetTargetPositionPDO(fb.pos, pdoStopMotion(dev)).pos = FALSE
  BY StopTyped, SetTargetTyped
<1>2. dev'.pos = FALSE
  BY <1>1, PutFlag DEF FaultResetBegins
<1> QED
  BY <1>2 DEF Loosens

LEMMA ListenerLoosens ==
  ASSUME IInv, Listener
  PROVE  /\ UNCHANGED <<cyclicVars, mover.pc, mover.goal>>
         /\ Loosens(dev, dev')
<1>1. dev \in Device /\ mover \in Mover /\ clamp \in BOOLEAN /\ fb.pos \in Int
  BY DEF IInv, TypeOK, CyclicTypeOK, Status
<1>2. UNCHANGED <<cyclicVars, mover.pc, mover.goal>>
  BY <1>1 DEF Listener, EmergencyRampStop, EmergencyStopsJog, EmergencyAborts,
     EmergencyResetsFault, PowerOffAll, ManualJog, JogStarts, StopJog,
     StopJogEnds, ApplyClampIfSettingsChanged, Listens, Mover
<1> SUFFICES Loosens(dev, dev')
  BY <1>2
<1>3. Loosens(dev, dev)
  BY DEF Loosens
<1>4. CASE EmergencyRampStop \/ EmergencyStopsJog \/ ManualJog \/ StopJog
  BY <1>1, <1>3, <1>4, FlagLoosens, BrakeLoosens
  DEF EmergencyRampStop, EmergencyStopsJog, ManualJog, StopJog
<1>5. CASE EmergencyAborts
  <2>1. [[dev EXCEPT !.moving = FALSE] EXCEPT !.aborted = TRUE] \in Device
    BY <1>1, PutFlag
  <2> QED
    BY <1>3, <1>5, <2>1, EnablePosTyped, OffLoosens DEF EmergencyAborts
<1>6. CASE EmergencyResetsFault
  BY <1>1, <1>3, <1>6, BeginsLoosens DEF EmergencyResetsFault, NoFaultReset
<1>7. CASE PowerOffAll
  BY <1>1, <1>7, StopTyped, OffLoosens DEF PowerOffAll
<1>8. CASE JogStarts
  <2>1. /\ [dev EXCEPT !.moving = TRUE] \in Device
        /\ Loosens(dev, [dev EXCEPT !.moving = TRUE])
    BY <1>1, PutFlag, FlagLoosens
  <2>2. Loosens(dev, EnableJogPDO(TRUE, [dev EXCEPT !.moving = TRUE]))
    BY <2>1, FlagLoosens, LoosensTwice
  <2> QED
    BY <1>3, <1>8, <2>2 DEF JogStarts
<1>9. CASE StopJogEnds
  <2>1. /\ EnableJogPDO(FALSE, dev) \in Device
        /\ Loosens(dev, EnableJogPDO(FALSE, dev))
    BY <1>1, EnableJogTyped, FlagLoosens
  <2>2. Loosens(dev, HasClamped(clamp, EnableJogPDO(FALSE, dev)))
    BY <1>1, <2>1, BrakeLoosens, LoosensTwice
  <2> QED
    BY <1>9, <2>2 DEF StopJogEnds
<1>10. CASE ApplyClampIfSettingsChanged
  BY <1>1, <1>3, <1>10, PowerTyped, OffLoosens DEF ApplyClampIfSettingsChanged
<1> QED
  BY <1>4, <1>5, <1>6, <1>7, <1>8, <1>9, <1>10 DEF Listener

LEMMA ResetsLoosen ==
  ASSUME IInv, FaultReset \/ ResetWorker
  PROVE  /\ UNCHANGED <<cyclicVars, mover.pc, mover.goal>>
         /\ Loosens(dev, dev')
<1>1. dev \in Device /\ fb.pos \in Int
  BY DEF IInv, TypeOK, CyclicTypeOK, Status
<1>2. UNCHANGED <<cyclicVars, mover>>
  BY DEF FaultReset, FaultResetClears, FaultResetEnds, ResetWorker, ResetAborts,
     ResetClearsAbort, ResetClearsFault, Resets
<1> SUFFICES Loosens(dev, dev')
  BY <1>2
<1>3. CASE FaultReset
  BY <1>1, <1>3
  DEF FaultReset, FaultResetClears, FaultResetEnds, Loosens, Device
<1>4. CASE ResetAborts \/ ResetClearsAbort
  BY <1>1, <1>4, FlagLoosens DEF ResetAborts, ResetClearsAbort
<1>5. CASE ResetClearsFault
  <2>1. Loosens(dev, dev)
    BY DEF Loosens
  <2> QED
    BY <1>1, <1>5, <2>1, BeginsLoosens DEF ResetClearsFault, NoFaultReset
<1> QED
  BY <1>3, <1>4, <1>5 DEF ResetWorker

LEMMA GoalInitially == Init => GoalInv
BY DEF Init, CyclicInit, NoMove, GoalInv, ReachedIsThere, StatusIsDrive,
       OneMode, GoalStored, Targeted, ArrivalIsFresh, RestIsFresh

LEMMA GoalInductive == IInv /\ GoalInv /\ [Next]_vars => GoalInv'
<1> SUFFICES ASSUME IInv, GoalInv, [Next]_vars PROVE GoalInv'
  OBVIOUS
<1>1. CASE UNCHANGED vars
  <2>1. UNCHANGED <<cyclicVars, mover.pc, mover.goal>> /\ Loosens(dev, dev')
    BY <1>1 DEF vars, motionVars, Loosens
  <2> QED
    BY <2>1, OthersKeepGoal
<1>2. CASE CyclicTask
  BY <1>2, ReceiveKeepsGoal, PulseClearKeepGoal, SendKeepsGoal
  DEF CyclicTask, Cycle, motionVars
<1>3. CASE MoveMotorToDegree
  <2>1. PICK p \in 0 .. MaxPos :
          Moves("declamp", [NoMove EXCEPT !.want = p, !.delta = p - fb.pos])
    BY <1>3 DEF MoveMotorToDegree
  <2>2. [NoMove EXCEPT !.want = p, !.delta = p - fb.pos] \in Mover
    <3>1. NoMove \in Mover
      BY MotionAssumption DEF NoMove, Mover, Stages
    <3>2. p \in Int /\ p - fb.pos \in Int
      BY BoundsAssumption DEF IInv, TypeOK, CyclicTypeOK, Status
    <3> QED
      BY <3>1, <3>2, PutInMove
  <2> QED
    BY <1>3, <2>1, <2>2, LeavingKeepsGoal
    DEF MoveMotorToDegree, Stages, GoalInv, OneMode
<1> QED
  BY <1>1, <1>2, <1>3, MoveKeepsGoal, ListenerLoosens, ResetsLoosen,
     OthersKeepGoal DEF Next

\* RestsAtGoal: a move that goes on to clamp is where this attempt wanted it,
\* for every number of cycles with bit 4 low, every bound on waiting for the
\* acknowledgement, and every drive that misses or delays set-points.
THEOREM RestsAtGoalHolds == Spec => []RestsAtGoal
<1>1. IInv /\ GoalInv => RestsAtGoal
  BY DEF GoalInv, GoalStored, Targeted, RestIsFresh, AtGoal, RestsAtGoal
<1> QED
  BY <1>1, Initially, Inductive, GoalInitially, GoalInductive, PTL DEF Spec
=============================================================================
