----------------------------- MODULE PdoMotion ------------------------------
(***************************************************************************)
(* What uses an axis: a position move (doRotate and hasTargetReached with  *)
(* the retries of moveMotorToDegree, one at a time under motionMu), the    *)
(* driver action listener with emergency, jog and changed settings, and    *)
(* the reset worker.  Sleeps are places where the others run; a timeout    *)
(* may come at any poll.  The ECS handshake around a move is in            *)
(* MotorActions.                                                           *)
(***************************************************************************)
EXTENDS PdoCyclic

CONSTANTS
  MaxAttempts,  \* maxRotateRetries
  MaxLag,       \* cycles by which a goroutine that does not sleep may lag
  Events,       \* what the operator does
  MaxEvents     \* how often

ASSUME MotionAssumption ==
  /\ MaxAttempts \in Nat \ {0} /\ MaxEvents \in Nat
  /\ MaxLag \in 1 .. Settle - 1
  /\ Events \subseteq {"move", "emergency", "jog", "settings", "reset"}

VARIABLES
  mover,        \* the goroutine that holds motionMu
  lag,          \* cycles since its last step
  listener,     \* listenDriverAction
  resetter,     \* resetSystemWorker
  faultReset,   \* resetOneFaultedDevice, under FaultResetMu
  clamp,        \* the setting ClampDeclamp
  events        \* events so far

motionVars == <<mover, lag, listener, resetter, faultReset, clamp, events>>
vars == <<dev, cyclicVars, motionVars>>

\* hit: an emergency was carried out while the move was in progress.
Stages == {"idle", "declamp", "enable", "target", "phase1", "phase15",
           "phase2", "stable", "settle", "clamp", "check", "failed", "retry"}
Mover == [pc : Stages, want : Int, delta : Int, goal : Int, clamp : BOOLEAN,
          attempt : 1 .. MaxAttempts, again : BOOLEAN, hit : BOOLEAN]

NoMove == [pc |-> "idle", want |-> 0, delta |-> 0, goal |-> 0, clamp |-> FALSE,
           attempt |-> 1, again |-> FALSE, hit |-> FALSE]

\* TypeOK: latchCounters stays within its bound, a move within its number of
\* attempts, and the atomics and the goroutines in states the code has.
TypeOK ==
  /\ CyclicTypeOK
  /\ mover \in Mover
  /\ lag \in 0 .. MaxLag
  /\ listener \in {"recv", "jogramp", "abort", "clear", "clearing", "poweroff",
                   "jog", "stopjog"}
  /\ resetter \in {"recv", "aborting", "clear", "clearing"}
  /\ faultReset \in [by : {"none", "listener", "resetter"},
                     stage : {"wait", "settle"}, brake : BOOLEAN]
  /\ clamp \in BOOLEAN
  /\ events \in 0 .. MaxEvents

Occurs(e) == e \in Events /\ events < MaxEvents /\ events' = events + 1

----------------------------------------------------------------------------
\* A position move.

\* A goroutine between two sleeps of a millisecond keeps up with the cycle.
Awake == mover.pc \in {"target", "phase1", "phase15", "phase2", "stable"}

Moves(pc, m) ==
  /\ mover' = [m EXCEPT !.pc = pc]
  /\ lag' = 0
  /\ UNCHANGED <<cyclicVars, listener, resetter, faultReset, clamp>>

\* MOVE_TO_POSITION, as far as absoluteGoalDeg: where to go is fixed here.
MoveMotorToDegree ==
  /\ Occurs("move") /\ listener = "recv" /\ mover.pc = "idle"
  /\ \E p \in 0 .. MaxPos :
       /\ p # fb.pos
       /\ Moves("declamp", [NoMove EXCEPT !.want = p, !.delta = p - fb.pos])
  /\ UNCHANGED dev

\* doRotate: release the clamp and wait for the signal, which may not come.
HasDeclamped ==
  /\ mover.pc = "declamp"
  /\ dev' = IF clamp THEN breakOff(dev) ELSE dev
  /\ Moves("enable", [mover EXCEPT !.clamp = clamp])
  /\ UNCHANGED events

DeclampFails ==
  /\ mover.pc = "enable" /\ mover.clamp
  /\ Moves("idle", NoMove)
  /\ UNCHANGED <<dev, events>>

EnablePos ==
  /\ mover.pc = "enable"
  /\ dev' = EnablePosPDO(TRUE, dev)
  /\ Moves("target", [mover EXCEPT !.goal = fb.pos + mover.delta,
                                  !.delta = 0])
  /\ UNCHANGED events

SetTarget ==
  /\ mover.pc = "target"
  /\ dev' = SetTargetPositionPDO(mover.goal, dev)
  /\ Moves("phase1", mover)
  /\ UNCHANGED events

\* hasTargetReached returns an error, after which the move may try again.
Fails(again) == Moves("failed", [mover EXCEPT !.again = again])

Faulted ==
  /\ mover.pc \in {"phase1", "phase15", "phase2", "stable"}
  /\ fb.pds = "fault"
  /\ ~ (mover.pc = "phase1" /\ ~ dev.pending)
  /\ Fails(FALSE)
  /\ UNCHANGED <<dev, events>>

\* Phase 1: until the set-point is no longer pending.
Phase1 ==
  /\ mover.pc = "phase1"
  /\ IF dev.pending THEN fb.pds # "fault" /\ Moves("phase1", mover)
     ELSE Moves("phase15", mover)
  /\ UNCHANGED <<dev, events>>

\* Phase 1.5: until bit 10 is low, or else the motor did not start.
Phase15 ==
  /\ mover.pc = "phase15" /\ fb.pds # "fault"
  /\ Moves(IF fb.reached THEN "phase15" ELSE "phase2", mover)
  /\ UNCHANGED <<dev, events>>

IsTargetReached == fb.reached /\ ~ fb.ack

\* Mutant: bit 10 is trusted, the position not compared.
Phase2Trusts ==
  /\ mover.pc \in {"phase2", "stable"} /\ fb.pds # "fault"
  /\ IF dev.aborted
     THEN dev' = [dev EXCEPT !.aborted = FALSE] /\ Fails(FALSE)
     ELSE /\ UNCHANGED dev
          /\ IF ~ IsTargetReached THEN Moves("phase2", mover)
             ELSE Moves(IF mover.pc = "phase2" THEN "stable" ELSE "settle", mover)
  /\ UNCHANGED events

\* Phase 2: until bit 10 is high and stays so, unless the move is aborted.
\* The goal is the one in the MasterDevice.
Phase2 ==
  /\ mover.pc \in {"phase2", "stable"} /\ fb.pds # "fault"
  /\ IF dev.aborted
     THEN dev' = [dev EXCEPT !.aborted = FALSE] /\ Fails(FALSE)
     ELSE /\ UNCHANGED dev
          /\ IF ~ IsTargetReached THEN Moves("phase2", mover)
             ELSE IF mover.pc = "phase2" THEN Moves("stable", mover)
             ELSE \/ Moves("stable", mover)
                  \/ IF fb.pos = dev.target THEN Moves("settle", mover)
                     ELSE Fails(TRUE)
  /\ UNCHANGED events

\* Mutant: the handshake is waited for without a deadline.
TimeoutNotInPhase1 ==
  /\ mover.pc \in {"phase15", "phase2", "stable"}
  /\ Fails(mover.pc = "phase15")
  /\ UNCHANGED <<dev, events>>

Timeout ==
  /\ mover.pc \in {"phase1", "phase15", "phase2", "stable"}
  /\ Fails(mover.pc = "phase15")
  /\ UNCHANGED <<dev, events>>

\* Mutant: the error exit leaves position control on.
FailedKeeps ==
  /\ mover.pc = "failed"
  /\ IF mover.again /\ mover.attempt < MaxAttempts THEN Moves("retry", mover)
     ELSE Moves("idle", NoMove)
  /\ UNCHANGED <<dev, events>>

\* Back in doRotate: standby takes over, and moveMotorToDegree tries again
\* or gives up with an alarm.
Failed ==
  /\ mover.pc = "failed"
  /\ dev' = EnablePosPDO(FALSE, dev)
  /\ IF mover.again /\ mover.attempt < MaxAttempts THEN Moves("retry", mover)
     ELSE Moves("idle", NoMove)
  /\ UNCHANGED events

\* The set-point is armed again and the rest of the way computed anew.
Retry ==
  /\ mover.pc = "retry"
  /\ dev' = [dev EXCEPT !.pending = TRUE]
  /\ Moves("declamp", [mover EXCEPT !.attempt = @ + 1,
                                    !.delta = mover.want - fb.pos])
  /\ UNCHANGED events

DisablePos ==
  /\ mover.pc = "settle"
  /\ dev' = EnablePosPDO(FALSE, dev)
  /\ Moves("clamp", mover)
  /\ UNCHANGED events

\* hasClamped, whose result doRotate ignores: brake, power off.
HasClamped(on, d) == IF on THEN FastPowerOff(breakOn(d)) ELSE d
ClampAfter ==
  /\ mover.pc = "clamp"
  /\ dev' = HasClamped(mover.clamp, dev)
  /\ Moves("check", mover)
  /\ UNCHANGED events

\* The final tolerance, then the finish signal if it is set up: it drives
\* all outputs, and of them sets one that is not the brake.
Finish ==
  /\ mover.pc = "check"
  /\ \/ fb.pos = mover.want /\ dev' = [dev EXCEPT !.mask = TRUE, !.val = FALSE]
     \/ UNCHANGED dev
  /\ Moves("idle", NoMove)
  /\ UNCHANGED events

Move ==
  \/ HasDeclamped \/ DeclampFails \/ EnablePos \/ SetTarget \/ Faulted
  \/ Phase1 \/ Phase15 \/ Phase2 \/ Timeout \/ Failed \/ Retry \/ DisablePos
  \/ ClampAfter \/ Finish

----------------------------------------------------------------------------
\* PDOFaultReset, for the listener and for the reset worker.

FaultResetBegins(by) ==
  /\ fb.pds = "fault" /\ faultReset.by = "none"
  /\ dev' = [SetTargetPositionPDO(fb.pos, pdoStopMotion(dev))
               EXCEPT !.faultReset = TRUE]
  /\ faultReset' = [by |-> by, stage |-> "wait", brake |-> FALSE]

\* The fault is gone or does not go; the outputs but the brake are cleared.
FaultResetClears ==
  /\ faultReset.by # "none" /\ faultReset.stage = "wait"
  /\ dev' = [dev EXCEPT !.mask = TRUE]
  /\ faultReset' = [faultReset EXCEPT !.stage = "settle", !.brake = dev.val]
  /\ UNCHANGED <<cyclicVars, mover, lag, listener, resetter, clamp, events>>

\* Half a second later.
FaultResetEnds ==
  /\ faultReset.by # "none" /\ faultReset.stage = "settle"
  /\ dev' = [dev EXCEPT !.mask = TRUE, !.val = faultReset.brake,
                        !.faultReset = FALSE]
  /\ faultReset' = [by |-> "none", stage |-> "wait", brake |-> FALSE]
  /\ listener' = IF faultReset.by = "listener" THEN "poweroff" ELSE listener
  /\ resetter' = IF faultReset.by = "resetter" THEN "recv" ELSE resetter
  /\ UNCHANGED <<cyclicVars, mover, lag, clamp, events>>

\* Nothing to reset, or somebody else is at it.
NoFaultReset ==
  /\ fb.pds # "fault" \/ faultReset.by # "none"
  /\ UNCHANGED <<dev, faultReset>>

----------------------------------------------------------------------------
\* The driver action listener.

Listens(pc) ==
  /\ listener' = pc
  /\ UNCHANGED <<cyclicVars, lag, resetter>>

\* EMERGENCY: a jog is ramped down, then switched off; ...
EmergencyRampStop ==
  /\ listener = "recv" /\ Occurs("emergency")
  /\ dev' = IF dev.jog THEN [dev EXCEPT !.moving = FALSE] ELSE dev
  /\ Listens(IF dev.jog THEN "jogramp" ELSE "abort")
  /\ UNCHANGED <<mover, faultReset, clamp>>

EmergencyStopsJog ==
  /\ listener = "jogramp"
  /\ dev' = EnableJogPDO(FALSE, dev)
  /\ Listens("abort")
  /\ UNCHANGED <<mover, faultReset, clamp, events>>

\* ... a position move is aborted, if position control is on; ...
EmergencyAborts ==
  /\ listener = "abort"
  /\ dev' = IF dev.pos
            THEN EnablePosPDO(FALSE, [dev EXCEPT !.moving = FALSE,
                                                 !.aborted = TRUE])
            ELSE dev
  /\ Listens("clear")
  /\ UNCHANGED <<mover, faultReset, clamp, events>>

EmergencyResetsFault ==
  /\ listener = "clear"
  /\ \/ FaultResetBegins("listener") /\ Listens("clearing")
     \/ NoFaultReset /\ Listens("poweroff")
  /\ UNCHANGED <<mover, clamp, events>>

\* ... and PowerOffAll stops what is on now.
PowerOffAll ==
  /\ listener = "poweroff"
  /\ dev' = pdoStopMotion(dev)
  /\ mover' = [mover EXCEPT !.hit = (mover.pc # "idle")]
  /\ Listens("recv")
  /\ UNCHANGED <<faultReset, clamp, events>>

\* A jog, too, waits for the clamp to be released, which may fail.
ManualJog ==
  /\ listener = "recv" /\ Occurs("jog")
  /\ dev' = IF clamp THEN breakOff(dev) ELSE dev
  /\ Listens("jog")
  /\ UNCHANGED <<mover, faultReset, clamp>>

JogStarts ==
  /\ listener = "jog"
  /\ \/ dev' = EnableJogPDO(TRUE, [dev EXCEPT !.moving = TRUE])
     \/ clamp /\ UNCHANGED dev
  /\ Listens("recv")
  /\ UNCHANGED <<mover, faultReset, clamp, events>>

\* STOP_JOG, also without a jog: velocity zero, a quarter of a second, jog
\* off, clamp.
StopJog ==
  /\ listener = "recv"
  /\ \/ dev.jog /\ UNCHANGED events
     \/ ~ dev.jog /\ Occurs("jog")
  /\ dev' = [dev EXCEPT !.moving = FALSE]
  /\ Listens("stopjog")
  /\ UNCHANGED <<mover, faultReset, clamp>>

StopJogEnds ==
  /\ listener = "stopjog"
  /\ dev' = HasClamped(clamp, EnableJogPDO(FALSE, dev))
  /\ Listens("recv")
  /\ UNCHANGED <<mover, faultReset, clamp, events>>

\* SETTINGS_CHANGED: the status keeper, which lags, tells whether the motor
\* is running; if it is, nothing is applied.
ApplyClampIfSettingsChanged ==
  /\ listener = "recv" /\ Occurs("settings")
  /\ clamp' = ~ clamp
  /\ \/ (mover.pc # "idle" \/ dev.jog) /\ UNCHANGED dev
     \/ ~ Awake /\ ~ dev.jog
        /\ dev' = IF clamp' THEN FastPowerOff(dev) ELSE FastPowerOn(dev)
  /\ Listens("recv")
  /\ UNCHANGED <<mover, faultReset>>

Listener ==
  \/ EmergencyRampStop \/ EmergencyStopsJog \/ EmergencyAborts
  \/ EmergencyResetsFault \/ PowerOffAll \/ ManualJog \/ JogStarts
  \/ StopJog \/ StopJogEnds \/ ApplyClampIfSettingsChanged

----------------------------------------------------------------------------
\* The reset worker.  performSysReset lets it through when the motor does
\* not run, which it learns late.

Resets(pc) ==
  /\ resetter' = pc
  /\ UNCHANGED <<cyclicVars, mover, lag, listener, clamp>>

ResetAborts ==
  /\ resetter = "recv" /\ listener = "recv" /\ Occurs("reset")
  /\ dev' = [dev EXCEPT !.aborted = TRUE]
  /\ Resets("aborting")
  /\ UNCHANGED faultReset

\* Twenty milliseconds later: a move that polls the flag has seen it.
ResetClearsAbort ==
  /\ resetter = "aborting"
  /\ mover.pc \notin {"phase2", "stable"}
  /\ dev' = [dev EXCEPT !.aborted = FALSE]
  /\ Resets("clear")
  /\ UNCHANGED <<faultReset, events>>

ResetClearsFault ==
  /\ resetter = "clear"
  /\ \/ FaultResetBegins("resetter") /\ Resets("clearing")
     \/ NoFaultReset /\ Resets("recv")
  /\ UNCHANGED events

ResetWorker == ResetAborts \/ ResetClearsAbort \/ ResetClearsFault

----------------------------------------------------------------------------

Cycle ==
  /\ Receive
  /\ Awake => lag < MaxLag
  /\ lag' = IF Awake THEN lag + 1 ELSE 0
  /\ UNCHANGED <<mover, listener, resetter, faultReset, clamp, events>>

CyclicTask ==
  \/ Cycle
  \/ (Pulse \/ Clear \/ Send) /\ UNCHANGED motionVars

FaultReset == FaultResetClears \/ FaultResetEnds

Init ==
  /\ CyclicInit
  /\ mover = NoMove
  /\ lag = 0 /\ listener = "recv" /\ resetter = "recv" /\ events = 0
  /\ faultReset = [by |-> "none", stage |-> "wait", brake |-> FALSE]
  /\ clamp \in BOOLEAN

Next == \/ CyclicTask \/ MoveMotorToDegree \/ Move \/ Listener \/ FaultReset
        \/ ResetWorker

Spec == Init /\ [][Next]_vars

(* The ticker and the goroutines run, and deadlines pass.  Nothing is       *)
(* assumed of the drive or of the operator.                                 *)
Fairness == WF_vars(CyclicTask) /\ WF_vars(Move) /\ WF_vars(Timeout)
            /\ WF_vars(FaultReset)
FairSpec == Spec /\ Fairness

----------------------------------------------------------------------------

(* RestsAtGoal: when hasTargetReached has found the target reached, and as  *)
(* long as nobody takes position control away, the drive is where this      *)
(* attempt wanted it, stale bits, missed and late set-points               *)
(* notwithstanding: bit 10 may be "stale from the previous at-rest state",  *)
(* drive_rotation.go:314.                                                   *)
RestsAtGoal ==
  mover.pc = "settle" /\ dev.pos =>
    drive.pos = mover.goal /\ dev.target = mover.goal

(* PosOnlyInMove: position control is on only between EnablePosPDO(true)    *)
(* and the EnablePosPDO(false) that each way out of doRotate has to do.     *)
PosOnlyInMove == dev.pos => Awake \/ mover.pc \in {"settle", "failed"}

(* MoveEnds: a move comes to its end and gives motionMu back, whatever the  *)
(* drive, the operator and the reset worker do.                             *)
MoveEnds == mover.pc # "idle" ~> mover.pc = "idle"

(* EmergencyStops: "emergency triggers an emergency stop",                  *)
(* drive_power.go:223: when it is done, the move it met does not take       *)
(* position control any more.                                               *)
EmergencyStops == mover.hit => ~ dev.pos

(* ResetKeepsBrake: a fault reset does not touch the brake, "if it was ON   *)
(* before the fault, it stays ON through the reset", and it is released or  *)
(* set by breakOn and breakOff only, pdo_cyclic_task.go:243.                *)
ResetKeepsBrake ==
  [][FaultReset => BrakeOn(dev') = BrakeOn(dev)]_vars
=============================================================================
