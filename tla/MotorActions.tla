---------------------------- MODULE MotorActions ----------------------------
(***************************************************************************)
(* The motor side of a running program: the driver action listener, the    *)
(* driver status listener, the moveMotorToDegree goroutines with the ECS   *)
(* handshake, and the reset worker of package motordriver.  What the motor *)
(* itself does in doRotate is a choice: the move succeeds or fails.        *)
(***************************************************************************)
EXTENDS Channels

CONSTANTS ECSEnabled,   \* the ECS setting of the drive
          MaxFaults,    \* bound: the number of moves that fail
          MaxMoves      \* bound: the number of moves that wait for motionMu

VARIABLES
  listeners,    \* listenDriverAction goroutines on the current channel
  handing,      \* those that hand a RESET to the reset worker
  statusQ,      \* mode and path events the status listener has not handled
  moves,        \* moveMotorToDegree goroutines waiting for motionMu
  motion,       \* where the one that holds motionMu is
  ecsChecking,  \* isECSCheckInProgress
  ecsStop,      \* stopECSCheckChan holds a message
  resetting,    \* where the reset worker is
  faults        \* moves that failed so far

listenVars == <<listeners, handing>>
motorVars == <<listenVars, statusQ, moves, motion, ecsChecking, ecsStop,
               resetting, faults>>

MotionStages == {"off", "asking", "ecs", "gotecs", "rotate",
                 "askingzero", "ecszero", "gotzero", "ending"}

MotorTypeOK ==
  /\ listeners \in Nat
  /\ handing \in Nat
  /\ statusQ \in Nat
  /\ moves \in Nat
  /\ motion \in MotionStages
  /\ ecsChecking \in BOOLEAN
  /\ ecsStop \in BOOLEAN
  /\ resetting \in {"idle", "begin", "exit", "input", "restart"}
  /\ faults \in Nat

MotorInit ==
  /\ listeners = 1
  /\ handing = 0
  /\ statusQ = 0
  /\ moves = 0
  /\ motion = "off"
  /\ ecsChecking = FALSE
  /\ ecsStop = FALSE
  /\ resetting = "idle"
  /\ faults = 0

\* statusnotifier.Alarm: cached, and on its way to the clients.
Alarm == alarm' = TRUE /\ alarms' = alarms + 1

stopECSCheck ==
  /\ ecsStop' = (ecsStop \/ ecsChecking)
  /\ ecsChecking' = FALSE

----------------------------------------------------------------------------
\* listenDriverAction, one message at a time.

Take(a) ==
  /\ listeners > 0
  /\ notifying["action"] = "no"
  /\ actions # << >> /\ Head(actions) = a
  /\ actions' = Tail(actions)

\* setRpm calls doneDriverAction before it returns.
SetRPM ==
  /\ Take("SET_RPM")
  /\ CallNotify("action")
  /\ UNCHANGED <<open, token, singleOpen, inputs, alarm, alarms, motorVars>>

\* POSITION_MODE and SHORTEST_PATH_ENABLED are left to the status listener.
PositionMode ==
  /\ Take("POSITION_MODE")
  /\ statusQ' = statusQ + 1
  /\ UNCHANGED <<completionVars, singleOpen, inputs, alarm, alarms,
                 listenVars, moves, motion, ecsChecking, ecsStop, resetting,
                 faults>>

MoveToPosition ==
  /\ Take("MOVE_TO_POSITION")
  /\ moves < MaxMoves
  /\ moves' = moves + 1
  /\ UNCHANGED <<completionVars, singleOpen, inputs, alarm, alarms,
                 listenVars, statusQ, motion, ecsChecking, ecsStop,
                 resetting, faults>>

StopProgramExecution ==
  /\ Take("STOP_PROGRAM_EXECUTION")
  /\ stopECSCheck
  /\ UNCHANGED <<completionVars, singleOpen, inputs, alarm, alarms,
                 listenVars, statusQ, moves, motion, resetting, faults>>

\* performSysReset: refused while the motor runs, which is known some time
\* after it began, else one message for the reset worker, on a channel without
\* a buffer: until the worker is back from an earlier reset the listener waits.
PerformSysReset ==
  /\ Take("RESET")
  /\ \/ /\ motion = "rotate"
        /\ Alarm /\ UNCHANGED listenVars
     \/ /\ listeners' = listeners - 1
        /\ handing' = handing + 1
        /\ UNCHANGED <<alarm, alarms>>
  /\ UNCHANGED <<completionVars, singleOpen, inputs, statusQ, moves, motion,
                 ecsChecking, ecsStop, resetting, faults>>

ExitDriveListener ==
  /\ Take("EXIT_DRIVE_LISTENER")
  /\ listeners' = listeners - 1
  /\ UNCHANGED <<completionVars, singleOpen, inputs, alarm, alarms, handing,
                 statusQ, moves, motion, ecsChecking, ecsStop, resetting,
                 faults>>

\* SET_WORK_OFFSET, START_EXECUTION and PROGRAM_EXEC_COMPLETED only change
\* what the status keeper knows of the drive.
OtherAction ==
  /\ \E a \in {"SET_WORK_OFFSET", "START_EXECUTION", "PROGRAM_EXEC_COMPLETED"} :
        Take(a)
  /\ UNCHANGED <<completionVars, singleOpen, inputs, alarm, alarms,
                 motorVars>>

ActionListener ==
  \/ SetRPM \/ PositionMode \/ MoveToPosition \/ StopProgramExecution
  \/ PerformSysReset \/ ExitDriveListener \/ OtherAction

\* listenDriverStatus on a mode or path event.
StatusListener ==
  /\ statusQ > 0
  /\ Silent("status")
  /\ statusQ' = statusQ - 1
  /\ CallNotify("status")
  /\ UNCHANGED <<open, token, singleOpen, inputs, actions, alarm, alarms,
                 listenVars, moves, motion, ecsChecking, ecsStop, resetting,
                 faults>>

----------------------------------------------------------------------------
\* moveMotorToDegree, under motionMu.

\* Outside POT and NOT nothing is reported to the executor.
PotNotExceeded ==
  /\ motion = "off" /\ moves > 0
  /\ faults < MaxFaults
  /\ moves' = moves - 1
  /\ faults' = faults + 1
  /\ UNCHANGED <<channelVars, listenVars, statusQ, motion, ecsChecking,
                 ecsStop, resetting>>

\* doECSCheck does not wait when ECS is disabled.
LockMotion ==
  /\ motion = "off" /\ moves > 0
  /\ moves' = moves - 1
  /\ WriteCommandExecInput("waiting_for_ecs")
  /\ motion' = IF ECSEnabled THEN "asking" ELSE "gotecs"
  /\ UNCHANGED <<completionVars, singleOpen, actions, alarm, alarms,
                 listenVars, statusQ, ecsChecking, ecsStop, resetting,
                 faults>>

\* doRotate reached the target, or it was reached already.
Rotated ==
  /\ motion = "rotate"
  /\ WriteCommandExecInput("waiting_for_ecs")
  /\ motion' = IF ECSEnabled THEN "askingzero" ELSE "gotzero"
  /\ UNCHANGED <<completionVars, singleOpen, actions, alarm, alarms,
                 listenVars, statusQ, moves, ecsChecking, ecsStop, resetting,
                 faults>>

BeginECSCheck ==
  /\ motion \in {"asking", "askingzero"}
  /\ ecsChecking' = TRUE
  /\ motion' = IF motion = "asking" THEN "ecs" ELSE "ecszero"
  /\ UNCHANGED <<channelVars, listenVars, statusQ, moves, ecsStop, resetting,
                 faults>>

\* A poll of the ECS input finds what it waits for.
ReceivedECS ==
  /\ motion \in {"ecs", "ecszero"}
  /\ ~ ecsStop
  /\ motion' = IF motion = "ecs" THEN "gotecs" ELSE "gotzero"
  /\ UNCHANGED <<channelVars, listenVars, statusQ, moves, ecsChecking,
                 ecsStop, resetting, faults>>

\* The check is called off: the goroutine returns without doneDriverAction.
ECSStopped ==
  /\ motion \in {"ecs", "ecszero"}
  /\ ecsStop
  /\ ecsStop' = FALSE
  /\ ecsChecking' = FALSE
  /\ motion' = "off"
  /\ UNCHANGED <<channelVars, listenVars, statusQ, moves, resetting, faults>>

GotECS ==
  /\ motion = "gotecs"
  /\ WriteCommandExecInput("ecs_done")
  /\ ecsChecking' = FALSE
  /\ motion' = "rotate"
  /\ UNCHANGED <<completionVars, singleOpen, actions, alarm, alarms,
                 listenVars, statusQ, moves, ecsStop, resetting, faults>>

\* A move to where the last one ended: no fin, but the executor goes on.
Duplicate ==
  /\ motion = "rotate"
  /\ CallNotify("motion")
  /\ motion' = "ending"
  /\ UNCHANGED <<open, token, singleOpen, inputs, actions, alarm, alarms,
                 listenVars, statusQ, moves, ecsChecking, ecsStop, resetting,
                 faults>>

\* doRotate gave up, the final position is outside of the tolerance, or a
\* beginning reset holds posMoveAborted for a moment.
RotateFailed ==
  /\ motion = "rotate"
  /\ \/ faults < MaxFaults /\ faults' = faults + 1
     \/ resetting = "begin" /\ UNCHANGED faults
  /\ Alarm
  /\ CallNotify("motion")
  /\ motion' = "ending"
  /\ UNCHANGED <<open, token, singleOpen, inputs, actions, listenVars,
                 statusQ, moves, ecsChecking, ecsStop, resetting>>

GotZero ==
  /\ motion = "gotzero"
  /\ WriteCommandExecInput("ecs_done")
  /\ CallNotify("motion")
  /\ ecsChecking' = FALSE
  /\ motion' = "ending"
  /\ UNCHANGED <<open, token, singleOpen, actions, alarm, alarms, listenVars,
                 statusQ, moves, ecsStop, resetting, faults>>

UnlockMotion ==
  /\ motion = "ending" /\ Silent("motion")
  /\ motion' = "off"
  /\ UNCHANGED <<channelVars, listenVars, statusQ, moves, ecsChecking,
                 ecsStop, resetting, faults>>

MotionStep ==
  \/ LockMotion \/ PotNotExceeded \/ BeginECSCheck
  \/ ReceivedECS \/ ECSStopped \/ GotECS \/ Rotated \/ Duplicate
  \/ RotateFailed \/ GotZero \/ UnlockMotion

----------------------------------------------------------------------------
\* resetSystemWorker, one message.

ResetReceives ==
  /\ resetting = "idle" /\ handing > 0
  /\ resetting' = "begin"
  /\ handing' = handing - 1
  /\ listeners' = listeners + 1
  /\ UNCHANGED <<channelVars, statusQ, moves, motion, ecsChecking, ecsStop,
                 faults>>

ResetBegins ==
  /\ resetting = "begin"
  /\ stopECSCheck
  /\ resetting' = "exit"
  /\ UNCHANGED <<channelVars, listenVars, statusQ, moves, motion, faults>>

\* stopDriverActionListener, then doneDriverAction.
ResetStopsListener ==
  /\ resetting = "exit"
  /\ NotifyMotorDriver("EXIT_DRIVE_LISTENER")
  /\ CallNotify("reset")
  /\ resetting' = "input"
  /\ UNCHANGED <<open, token, singleOpen, inputs, alarm, alarms, listenVars,
                 statusQ, moves, motion, ecsChecking, ecsStop, faults>>

ResetTellsExecutor ==
  /\ resetting = "input" /\ Silent("reset")
  /\ WriteCommandExecInput("reset")
  /\ CallNotify("reset")
  /\ resetting' = "restart"
  /\ UNCHANGED <<open, token, singleOpen, actions, alarm, alarms, listenVars,
                 statusQ, moves, motion, ecsChecking, ecsStop, faults>>

(* The listeners are started again on new channels: whatever the old ones   *)
(* held is lost, and so is a listener that waits at the old one.  By then,  *)
(* PDOFaultReset took half a second or more, a free listener has read up to *)
(* EXIT_DRIVE_LISTENER; one that is inside setRpm, or hands over a RESET,   *)
(* goes on with the new channel.  The fault is cleared or it is not.        *)
ResetRestarts ==
  /\ resetting = "restart" /\ Silent("reset")
  /\ \/ listeners = 0
     \/ ~ Silent("action")
     \/ \A i \in DOMAIN actions : actions[i] # "EXIT_DRIVE_LISTENER"
  /\ listeners' = IF Silent("action") THEN 1 ELSE 2
  /\ actions' = << >>
  /\ statusQ' = 0
  /\ \/ alarm' = FALSE /\ UNCHANGED alarms
     \/ Alarm
  /\ resetting' = "idle"
  /\ UNCHANGED <<completionVars, singleOpen, inputs, handing, moves, motion,
                 ecsChecking, ecsStop, faults>>

ResetWorker ==
  \/ ResetReceives \/ ResetBegins \/ ResetStopsListener
  \/ ResetTellsExecutor \/ ResetRestarts
=============================================================================
