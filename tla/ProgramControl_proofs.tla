----------------------- MODULE ProgramControl_proofs ------------------------
(***************************************************************************)
(* Theorems about ProgramControl for every set of programs, every number   *)
(* of RunCodeFile calls, every channel capacity and every operator.        *)
(***************************************************************************)
EXTENDS ProgramControl, Executor_proofs

(* The inductive invariant.  LateMoves alone is not inductive: a call may   *)
(* have the move still to send (CanSend), and whether it has depends on     *)
(* where it is on its line (FrameOK).                                       *)
StackOK == \A r \in Runs : FrameOK(run[r])
LateOK == ctx.stop => \A r \in Runs : LateFrame(run[r])
IInv == TypeOK /\ StackOK /\ LateOK

ExecTypeOK ==
  ctx \in Context /\ lastLine \in Int /\ userLine \in Nat /\ run \in Frames

----------------------------------------------------------------------------
\* The motor side.

\* The driver action listener keeps the type of the channel it reads.
LEMMA TakeTyped ==
  ASSUME ChannelsTypeOK, NEW a \in ActionTypes, Take(a)
  PROVE  actions' \in Seq(ActionTypes) /\ Len(actions') <= ActionCap
  BY CapAssumption DEF ChannelsTypeOK, Take

\* Every step of the action listener, the status listener, the motion
\* goroutine and the reset worker keeps the types of the channels and of the
\* motor's own state.
LEMMA MotorTyped ==
  ASSUME ChannelsTypeOK, MotorTypeOK,
         ActionListener \/ StatusListener \/ MotionStep \/ ResetWorker
  PROVE  ChannelsTypeOK' /\ MotorTypeOK'
<1>1. CASE SetRPM
  BY <1>1, TakeTyped, CallTyped
  DEF SetRPM, ChannelsTypeOK, MotorTypeOK, ActionTypes, InputTypes, Notifiers,
      MotionStages, channelVars, completionVars, listenVars, motorVars
<1>2. CASE PositionMode
  BY <1>2, TakeTyped
  DEF PositionMode, ChannelsTypeOK, MotorTypeOK, ActionTypes, InputTypes,
      Notifiers, MotionStages, channelVars, completionVars, listenVars,
      motorVars
<1>3. CASE MoveToPosition
  BY <1>3, TakeTyped
  DEF MoveToPosition, ChannelsTypeOK, MotorTypeOK, ActionTypes, InputTypes,
      Notifiers, MotionStages, channelVars, completionVars, listenVars,
      motorVars
<1>4. CASE StopProgramExecution
  BY <1>4, TakeTyped
  DEF StopProgramExecution, stopECSCheck, ChannelsTypeOK, MotorTypeOK,
      ActionTypes, InputTypes, Notifiers, MotionStages, channelVars,
      completionVars, listenVars, motorVars
<1>5. CASE PerformSysReset
  <2>1. actions' \in Seq(ActionTypes) /\ Len(actions') <= ActionCap
    BY <1>5, TakeTyped DEF PerformSysReset, ActionTypes
  <2>2. alarm' \in BOOLEAN
    BY <1>5 DEF PerformSysReset, Alarm, ChannelsTypeOK
  <2>3. alarms' \in Nat
    BY <1>5 DEF PerformSysReset, Alarm, ChannelsTypeOK
  <2>4. listeners' \in Nat /\ handing' \in Nat
    <3>1. listeners > 0
      BY <1>5 DEF PerformSysReset, Take
    <3> QED
      BY <1>5, <3>1 DEF PerformSysReset, MotorTypeOK, listenVars
  <2> QED
    BY <1>5, <2>1, <2>2, <2>3, <2>4
    DEF PerformSysReset, ChannelsTypeOK, MotorTypeOK, ActionTypes, InputTypes,
        Notifiers, MotionStages, completionVars, listenVars
<1>6. CASE ExitDriveListener
  BY <1>6, TakeTyped
  DEF ExitDriveListener, Take, ChannelsTypeOK, MotorTypeOK, ActionTypes,
      InputTypes, Notifiers, MotionStages, channelVars, completionVars,
      listenVars, motorVars
<1>7. CASE OtherAction
  BY <1>7, TakeTyped
  DEF OtherAction, ChannelsTypeOK, MotorTypeOK, ActionTypes, InputTypes,
      Notifiers, MotionStages, channelVars, completionVars, listenVars,
      motorVars
<1>8. CASE StatusListener
  BY <1>8, CallTyped
  DEF StatusListener, ChannelsTypeOK, MotorTypeOK, ActionTypes, InputTypes,
      Notifiers, MotionStages, channelVars, completionVars, listenVars,
      motorVars
<1>9. CASE LockMotion
  BY <1>9, WriteTyped
  DEF LockMotion, ChannelsTypeOK, MotorTypeOK, ActionTypes, InputTypes,
      Notifiers, MotionStages, channelVars, completionVars, listenVars,
      motorVars
<1>10. CASE PotNotExceeded
  BY <1>10
  DEF PotNotExceeded, ChannelsTypeOK, MotorTypeOK, ActionTypes, InputTypes,
      Notifiers, MotionStages, channelVars, completionVars, listenVars,
      motorVars
<1>11. CASE BeginECSCheck
  BY <1>11
  DEF BeginECSCheck, ChannelsTypeOK, MotorTypeOK, ActionTypes, InputTypes,
      Notifiers, MotionStages, channelVars, completionVars, listenVars,
      motorVars
<1>12. CASE ReceivedECS
  BY <1>12
  DEF ReceivedECS, ChannelsTypeOK, MotorTypeOK, ActionTypes, InputTypes,
      Notifiers, MotionStages, channelVars, completionVars, listenVars,
      motorVars
<1>13. CASE ECSStopped
  BY <1>13
  DEF ECSStopped, ChannelsTypeOK, MotorTypeOK, ActionTypes, InputTypes,
      Notifiers, MotionStages, channelVars, completionVars, listenVars,
      motorVars
<1>14. CASE GotECS
  BY <1>14, WriteTyped
  DEF GotECS, ChannelsTypeOK, MotorTypeOK, ActionTypes, InputTypes, Notifiers,
      MotionStages, channelVars, completionVars, listenVars, motorVars
<1>15. CASE Rotated
  BY <1>15, WriteTyped
  DEF Rotated, ChannelsTypeOK, MotorTypeOK, ActionTypes, InputTypes,
      Notifiers, MotionStages, channelVars, completionVars, listenVars,
      motorVars
<1>16. CASE Duplicate
  BY <1>16, CallTyped
  DEF Duplicate, ChannelsTypeOK, MotorTypeOK, ActionTypes, InputTypes,
      Notifiers, MotionStages, channelVars, completionVars, listenVars,
      motorVars
<1>17. CASE RotateFailed
  BY <1>17, CallTyped
  DEF RotateFailed, Alarm, ChannelsTypeOK, MotorTypeOK, ActionTypes,
      InputTypes, Notifiers, MotionStages, channelVars, completionVars,
      listenVars, motorVars
<1>18. CASE GotZero
  BY <1>18, WriteTyped, CallTyped
  DEF GotZero, ChannelsTypeOK, MotorTypeOK, ActionTypes, InputTypes,
      Notifiers, MotionStages, channelVars, completionVars, listenVars,
      motorVars
<1>19. CASE UnlockMotion
  BY <1>19
  DEF UnlockMotion, ChannelsTypeOK, MotorTypeOK, ActionTypes, InputTypes,
      Notifiers, MotionStages, channelVars, completionVars, listenVars,
      motorVars
<1>20. CASE ResetReceives
  BY <1>20
  DEF ResetReceives, ChannelsTypeOK, MotorTypeOK, ActionTypes, InputTypes,
      Notifiers, MotionStages, channelVars, completionVars, listenVars,
      motorVars
<1>21. CASE ResetBegins
  BY <1>21
  DEF ResetBegins, stopECSCheck, ChannelsTypeOK, MotorTypeOK, ActionTypes,
      InputTypes, Notifiers, MotionStages, channelVars, completionVars,
      listenVars, motorVars
<1>22. CASE ResetStopsListener
  BY <1>22, DriverTyped, CallTyped
  DEF ResetStopsListener, ChannelsTypeOK, MotorTypeOK, ActionTypes,
      InputTypes, Notifiers, MotionStages, channelVars, completionVars,
      listenVars, motorVars
<1>23. CASE ResetTellsExecutor
  BY <1>23, WriteTyped, CallTyped
  DEF ResetTellsExecutor, ChannelsTypeOK, MotorTypeOK, ActionTypes,
      InputTypes, Notifiers, MotionStages, channelVars, completionVars,
      listenVars, motorVars
<1>24. CASE ResetRestarts
  <2>1. actions' \in Seq(ActionTypes) /\ Len(actions') <= ActionCap
    BY <1>24, CapAssumption DEF ResetRestarts
  <2>2. listeners' \in Nat /\ statusQ' \in Nat
    BY <1>24 DEF ResetRestarts
  <2>3. alarm' \in BOOLEAN
    BY <1>24 DEF ResetRestarts, Alarm
  <2>4. alarms' \in Nat
    BY <1>24 DEF ResetRestarts, Alarm, ChannelsTypeOK
  <2> QED
    BY <1>24, <2>1, <2>2, <2>3, <2>4
    DEF ResetRestarts, ChannelsTypeOK, MotorTypeOK, ActionTypes, InputTypes,
        Notifiers, MotionStages, completionVars, listenVars
<1> QED
  BY <1>1, <1>2, <1>3, <1>4, <1>5, <1>6, <1>7, <1>8, <1>9, <1>10, <1>11,
     <1>12, <1>13, <1>14, <1>15, <1>16, <1>17, <1>18, <1>19, <1>20, <1>21,
     <1>22, <1>23, <1>24
  DEF ActionListener, MotionStep, ResetWorker

\* Nothing else changes the motor's state.
LEMMA MotorUnchanged ==
  ASSUME MotorTypeOK, UNCHANGED motorVars
  PROVE  MotorTypeOK'
  BY DEF MotorTypeOK, motorVars, listenVars

----------------------------------------------------------------------------
\* The steps of the others.

\* The input listener keeps the type of the channel it reads.
LEMMA HeardTyped ==
  ASSUME ChannelsTypeOK, NEW m \in InputTypes, Heard(m)
  PROVE  inputs' \in Seq(InputTypes) /\ Len(inputs') <= InputCap
  BY CapAssumption DEF ChannelsTypeOK, Heard

\* The single block rendezvous keeps a call in order.
LEMMA RendezvousKeeps ==
  ASSUME NEW r \in Runs, Before(r), SingleRendezvous(r)
  PROVE  Kept(r)
<1>1. ChannelsTypeOK'
  BY DEF SingleRendezvous, Before, ChannelsTypeOK, channelVars
<1>2. /\ ctx' \in Context /\ lastLine' \in Int /\ userLine' \in Nat
      /\ ctx'.stop => ctx.stop
  BY DEF SingleRendezvous, Before
<1>3. /\ run' \in Frames
      /\ \A s \in Runs : s # r => run'[s] = run[s]
      /\ run'[r] = [run[r] EXCEPT !.pc = "singleshut"]
  BY GotoKeeps DEF SingleRendezvous, Before, Stages
<1>4. FrameOK(run'[r])
  BY <1>3 DEF SingleRendezvous, FrameOK, At, OnLine, Sending, Before, Frames,
     RunRecords, InlineOf, LineOf
<1>5. LateFrame(run[r]) => LateFrame(run'[r])
  BY <1>3 DEF LateFrame, CanSend, Frames, RunRecords, Before
<1> QED
  BY <1>1, <1>2, <1>3, <1>4, <1>5 DEF Kept

\* What a step of one call keeps is kept for all of them: the others are as
\* they were.
LEMMA KeptForAll ==
  ASSUME IInv, NEW r \in Runs, Kept(r)
  PROVE  /\ ChannelsTypeOK'
         /\ ExecTypeOK'
         /\ StackOK'
         /\ LateOK'
<1>1. \A s \in Runs : FrameOK(run'[s])
  BY DEF IInv, StackOK, Kept
<1>2. StackOK'
  BY <1>1 DEF StackOK, FrameOK, InlineOf, LineOf
<1>3. ctx'.stop => \A s \in Runs : LateFrame(run'[s])
  BY DEF IInv, LateOK, Kept
<1>4. LateOK'
  BY <1>3 DEF LateOK, LateFrame, CanSend, InlineOf, LineOf
<1> QED
  BY <1>2, <1>4 DEF Kept, ExecTypeOK

\* When a stop is heard, every call in progress has sent no move since.
LEMMA MarkLateKeeps ==
  ASSUME IInv, NEW k \in {"stop", "reset"}, MarkLate(k)
  PROVE  /\ run' \in Frames
         /\ StackOK'
         /\ k = "stop" => \A r \in Runs : LateFrame(run'[r])
<1>1. run \in Frames /\ StackOK
  BY DEF IInv, TypeOK, Frames
<1>2. ASSUME NEW r \in Runs
      PROVE  /\ run'[r] \in RunRecords
             /\ FrameOK(run'[r])
             /\ k = "stop" => LateFrame(run'[r])
  <2> DEFINE l == [run[r].late EXCEPT ![k] = 0]
             x == [run[r] EXCEPT !.late = l]
  <2>1. run'[r] = IF run[r].pc = "idle" THEN run[r] ELSE x
    BY DEF MarkLate
  <2>2. run[r] \in RunRecords /\ FrameOK(run[r])
    BY <1>1 DEF Frames, StackOK
  <2>3. l \in [{"stop", "reset"} -> -1 .. 2] /\ (k = "stop" => l["stop"] = 0)
    BY <2>2 DEF RunRecords
  <2> HIDE DEF l
  <2>4. /\ x \in RunRecords /\ x.late = l /\ x.pc = run[r].pc
        /\ x.file = run[r].file /\ x.line = run[r].line
        /\ x.back = run[r].back /\ x.todo = run[r].todo
        /\ x.child = run[r].child
    BY <2>2, <2>3 DEF RunRecords
  <2> HIDE DEF x
  <2>5. run[r].pc # "idle" => FrameOK(x)
    BY <2>2, <2>4 DEF FrameOK, InlineOf, LineOf
  <2>6. k = "stop" => LateFrame(x)
    BY <2>3, <2>4 DEF LateFrame
  <2>7. CASE run[r].pc = "idle"
    BY <2>1, <2>2, <2>7 DEF FrameOK, LateFrame, CanSend
  <2>8. CASE run[r].pc # "idle"
    BY <2>1, <2>4, <2>5, <2>6, <2>8
  <2> QED
    BY <2>7, <2>8
<1>3. run' \in Frames
  BY <1>2 DEF MarkLate, Frames
<1>4. StackOK'
  BY <1>2 DEF StackOK, FrameOK, InlineOf, LineOf
<1> QED
  BY <1>2, <1>3, <1>4

\* Steps that leave the calls alone and set no stop flag keep the invariant.
LEMMA OtherStepKeeps ==
  ASSUME IInv, ChannelsTypeOK', MotorTypeOK', ctx' \in Context,
         ctx'.stop => ctx.stop, run' = run,
         lastLine' \in Int, userLine' \in Nat,
         listener' \in {"recv", "single", "pushstop"},
         stopping' \in Nat, presses' \in Nat
  PROVE  IInv'
<1>1. TypeOK'
  BY DEF IInv, TypeOK
<1>2. StackOK'
  BY DEF IInv, StackOK, FrameOK, InlineOf, LineOf
<1>3. LateOK'
  BY DEF IInv, LateOK, LateFrame, CanSend, InlineOf, LineOf
<1> QED
  BY <1>1, <1>2, <1>3 DEF IInv

\* Every message of the input listener keeps the invariant; the stop message
\* sets the flag and begins the count.
LEMMA ListenerKeeps ==
  ASSUME IInv, Listener
  PROVE  IInv'
<1>0. /\ ChannelsTypeOK /\ MotorTypeOK
      /\ ctx \in Context /\ lastLine \in Int /\ userLine \in Nat
      /\ run \in Frames
      /\ listener \in {"recv", "single", "pushstop"} /\ stopping \in Nat
      /\ presses \in Nat
  BY DEF IInv, TypeOK, Frames
<1>1. CASE HearMode
  <2>1. PICK m \in {"single", "continuous"} :
          Heard(m) /\ ctx' = [ctx EXCEPT !.single = (m = "single")]
    BY <1>1 DEF HearMode
  <2>2. inputs' \in Seq(InputTypes) /\ Len(inputs') <= InputCap
    BY <1>0, <2>1, HeardTyped DEF InputTypes
  <2>3. ChannelsTypeOK'
    BY <1>0, <1>1, <2>2 DEF HearMode, ChannelsTypeOK, completionVars
  <2>4. ctx' \in Context
    BY <1>0, <2>1, PutContext
  <2>5. ctx'.stop => ctx.stop
    BY <1>0, <2>1 DEF Context
  <2>6. MotorTypeOK' /\ run' = run /\ lastLine' \in Int /\ userLine' \in Nat
    BY <1>0, <1>1, MotorUnchanged DEF HearMode
  <2>7. /\ listener' \in {"recv", "single", "pushstop"}
        /\ stopping' \in Nat /\ presses' \in Nat
    BY <1>0, <1>1 DEF HearMode, controlVars
  <2> QED
    BY <2>3, <2>4, <2>5, <2>6, <2>7, OtherStepKeeps
<1>2. CASE HearNextLine
  <2>1. inputs' \in Seq(InputTypes) /\ Len(inputs') <= InputCap
    BY <1>0, <1>2, HeardTyped DEF HearNextLine, InputTypes
  <2>2. ChannelsTypeOK'
    BY <1>0, <1>2, <2>1 DEF HearNextLine, ChannelsTypeOK, completionVars
  <2>3. /\ MotorTypeOK' /\ run' = run /\ ctx' = ctx
        /\ lastLine' \in Int /\ userLine' \in Nat
    BY <1>0, <1>2, MotorUnchanged DEF HearNextLine, execVars
  <2>4. /\ listener' \in {"recv", "single", "pushstop"}
        /\ stopping' \in Nat /\ presses' \in Nat
    BY <1>0, <1>2 DEF HearNextLine
  <2> QED
    BY <1>0, <2>2, <2>3, <2>4, OtherStepKeeps
<1>3. CASE HearStop
  <2>1. inputs' \in Seq(InputTypes) /\ Len(inputs') <= InputCap
    BY <1>0, <1>3, HeardTyped DEF HearStop, InputTypes
  <2>2. notifying' \in [Notifiers -> {"no", "check", "send", "clear"}]
    BY <1>0, <1>3, CallTyped DEF HearStop, Notifiers
  <2>3. ChannelsTypeOK'
    BY <1>0, <1>3, <2>1, <2>2 DEF HearStop, ChannelsTypeOK
  <2>4. ctx' \in Context
    BY <1>0, <1>3, PutContext DEF HearStop
  <2>5. MarkLate("stop")
    BY <1>3 DEF HearStop
  <2>6. /\ run' \in Frames /\ StackOK'
        /\ \A r \in Runs : LateFrame(run'[r])
    BY <2>5, MarkLateKeeps
  <2>7. LateOK'
    BY <2>6 DEF LateOK, LateFrame, CanSend, InlineOf, LineOf
  <2>8. MotorTypeOK' /\ lastLine' \in Int /\ userLine' \in Nat
    BY <1>0, <1>3, MotorUnchanged DEF HearStop
  <2>9. /\ listener' \in {"recv", "single", "pushstop"}
        /\ stopping' \in Nat /\ presses' \in Nat
    BY <1>0, <1>3 DEF HearStop
  <2> QED
    BY <2>3, <2>4, <2>6, <2>7, <2>8, <2>9 DEF IInv, TypeOK, Frames
<1>4. CASE PushStop
  <2>1. actions' \in Seq(ActionTypes) /\ Len(actions') <= ActionCap
    BY <1>0, <1>4, DriverTyped DEF PushStop, ActionTypes
  <2>2. ChannelsTypeOK'
    BY <1>0, <1>4, <2>1 DEF PushStop, ChannelsTypeOK, completionVars
  <2>3. /\ MotorTypeOK' /\ run' = run /\ ctx' = ctx
        /\ lastLine' \in Int /\ userLine' \in Nat
    BY <1>0, <1>4, MotorUnchanged DEF PushStop, execVars
  <2>4. /\ listener' \in {"recv", "single", "pushstop"}
        /\ stopping' \in Nat /\ presses' \in Nat
    BY <1>0, <1>4 DEF PushStop
  <2> QED
    BY <1>0, <2>2, <2>3, <2>4, OtherStepKeeps
<1>5. CASE HearReset
  <2>1. inputs' \in Seq(InputTypes) /\ Len(inputs') <= InputCap
    BY <1>0, <1>5, HeardTyped DEF HearReset, InputTypes
  <2>2. notifying' \in [Notifiers -> {"no", "check", "send", "clear"}]
    BY <1>0, <1>5, CallTyped DEF HearReset, Notifiers
  <2>3. ChannelsTypeOK'
    BY <1>0, <1>5, <2>1, <2>2 DEF HearReset, ChannelsTypeOK
  <2> DEFINE d == [ctx EXCEPT !.hasReset = TRUE]
  <2>4. d \in Context /\ ctx' = Reset(d)
    BY <1>0, <1>5, PutContext DEF HearReset
  <2> HIDE DEF d
  <2>5. ctx' \in Context /\ ctx'.stop = FALSE
    BY <2>4, ResetTyped
  <2>6. MarkLate("reset")
    BY <1>5 DEF HearReset
  <2>7. run' \in Frames /\ StackOK'
    BY <2>6, MarkLateKeeps
  <2>8. LateOK'
    BY <2>5 DEF LateOK
  <2>9. MotorTypeOK' /\ lastLine' \in Int /\ userLine' \in Nat
    BY <1>0, <1>5, MotorUnchanged DEF HearReset
  <2>10. /\ listener' \in {"recv", "single", "pushstop"}
         /\ stopping' \in Nat /\ presses' \in Nat
    BY <1>0, <1>5 DEF HearReset, controlVars
  <2> QED
    BY <2>3, <2>5, <2>7, <2>8, <2>9, <2>10 DEF IInv, TypeOK, Frames
<1>6. CASE HearECS
  <2>1. PICK m \in {"waiting_for_ecs", "ecs_done"} :
          Heard(m) /\ ctx' = [ctx EXCEPT !.waiting = (m = "waiting_for_ecs")]
    BY <1>6 DEF HearECS
  <2>2. inputs' \in Seq(InputTypes) /\ Len(inputs') <= InputCap
    BY <1>0, <2>1, HeardTyped DEF InputTypes
  <2>3. ChannelsTypeOK'
    BY <1>0, <1>6, <2>2 DEF HearECS, ChannelsTypeOK, completionVars
  <2>4. ctx' \in Context
    BY <1>0, <2>1, PutContext
  <2>5. ctx'.stop => ctx.stop
    BY <1>0, <2>1 DEF Context
  <2>6. MotorTypeOK' /\ run' = run /\ lastLine' \in Int /\ userLine' \in Nat
    BY <1>0, <1>6, MotorUnchanged DEF HearECS
  <2>7. /\ listener' \in {"recv", "single", "pushstop"}
        /\ stopping' \in Nat /\ presses' \in Nat
    BY <1>0, <1>6 DEF HearECS, controlVars
  <2> QED
    BY <2>3, <2>4, <2>5, <2>6, <2>7, OtherStepKeeps
<1>7. ASSUME NEW r \in Runs, SingleRendezvous(r)
      PROVE  IInv'
  <2>1. Before(r)
    BY <1>0 DEF Before, IInv, StackOK
  <2>2. ChannelsTypeOK' /\ ExecTypeOK' /\ StackOK' /\ LateOK'
    BY <1>7, <2>1, RendezvousKeeps, KeptForAll
  <2>3. MotorTypeOK'
    BY <1>0, <1>7, MotorUnchanged DEF SingleRendezvous
  <2>4. /\ listener' \in {"recv", "single", "pushstop"}
        /\ stopping' \in Nat /\ presses' \in Nat
    BY <1>0, <1>7 DEF SingleRendezvous
  <2> QED
    BY <2>2, <2>3, <2>4 DEF IInv, TypeOK, ExecTypeOK, Frames
<1> QED
  BY <1>1, <1>2, <1>3, <1>4, <1>5, <1>6, <1>7 DEF Listener

\* Every socket event keeps the invariant.
LEMMA OperatorKeeps ==
  ASSUME IInv, SendAlarm \/ StopMovesNextLine \/ Operator
  PROVE  IInv'
<1>0. /\ ChannelsTypeOK /\ MotorTypeOK
      /\ ctx \in Context /\ lastLine \in Int /\ userLine \in Nat
      /\ run \in Frames
      /\ listener \in {"recv", "single", "pushstop"} /\ stopping \in Nat
      /\ presses \in Nat
  BY DEF IInv, TypeOK, Frames
<1>1. CASE SendAlarm
  <2>1. inputs' \in Seq(InputTypes) /\ Len(inputs') <= InputCap
    BY <1>0, <1>1, WriteTyped DEF SendAlarm, InputTypes
  <2>2. ChannelsTypeOK'
    BY <1>0, <1>1, <2>1 DEF SendAlarm, ChannelsTypeOK, completionVars
  <2>3. /\ MotorTypeOK' /\ run' = run /\ ctx' = ctx
        /\ lastLine' \in Int /\ userLine' \in Nat
    BY <1>0, <1>1, MotorUnchanged DEF SendAlarm, execVars
  <2>4. /\ listener' \in {"recv", "single", "pushstop"}
        /\ stopping' \in Nat /\ presses' \in Nat
    BY <1>0, <1>1 DEF SendAlarm, controlVars
  <2> QED
    BY <1>0, <2>2, <2>3, <2>4, OtherStepKeeps
<1>2. CASE StopMovesNextLine
  <2>1. inputs' \in Seq(InputTypes) /\ Len(inputs') <= InputCap
    BY <1>0, <1>2, WriteTyped DEF StopMovesNextLine, InputTypes
  <2>2. ChannelsTypeOK'
    BY <1>0, <1>2, <2>1 DEF StopMovesNextLine, ChannelsTypeOK, completionVars
  <2>3. /\ MotorTypeOK' /\ run' = run /\ ctx' = ctx
        /\ lastLine' \in Int /\ userLine' \in Nat
    BY <1>0, <1>2, MotorUnchanged DEF StopMovesNextLine, execVars
  <2>4. /\ listener' \in {"recv", "single", "pushstop"}
        /\ stopping' \in Nat /\ presses' \in Nat
    BY <1>0, <1>2 DEF StopMovesNextLine
  <2> QED
    BY <1>0, <2>2, <2>3, <2>4, OtherStepKeeps
<1>3. CASE PressExecute
  <2>1. MotorTypeOK'
    BY <1>0, <1>3, MotorUnchanged DEF PressExecute
  <2>2. /\ listener' \in {"recv", "single", "pushstop"}
        /\ stopping' \in Nat /\ presses' \in Nat
    BY <1>0, <1>3 DEF PressExecute, Press
  <2>3. CASE Refuse
    <3>1. ChannelsTypeOK'
      BY <1>0, <2>3 DEF Refuse, ChannelsTypeOK
    <3>2. /\ run' = run /\ ctx' = ctx
          /\ lastLine' \in Int /\ userLine' \in Nat
      BY <1>0, <2>3 DEF Refuse, execVars
    <3> QED
      BY <1>0, <2>1, <2>2, <3>1, <3>2, OtherStepKeeps
  <2>4. ASSUME NEW r \in Runs, NEW f \in Files, Start(r, f)
        PROVE  IInv'
    <3>1. Before(r)
      BY <1>0 DEF Before, IInv, StackOK
    <3>2. ChannelsTypeOK' /\ ExecTypeOK' /\ StackOK' /\ LateOK'
      BY <2>4, <3>1, StartKeeps, KeptForAll
    <3> QED
      BY <2>1, <2>2, <3>2 DEF IInv, TypeOK, ExecTypeOK, Frames
  <2> QED
    BY <1>3, <2>3, <2>4 DEF PressExecute
<1>4. CASE PressStop
  <2>1. inputs' \in Seq(InputTypes) /\ Len(inputs') <= InputCap
    BY <1>0, <1>4, WriteTyped DEF PressStop, InputTypes
  <2>2. ChannelsTypeOK'
    BY <1>0, <1>4, <2>1 DEF PressStop, ChannelsTypeOK, completionVars
  <2>3. /\ MotorTypeOK' /\ run' = run /\ ctx' = ctx
        /\ lastLine' \in Int /\ userLine' \in Nat
    BY <1>0, <1>4, MotorUnchanged DEF PressStop, execVars
  <2>4. /\ listener' \in {"recv", "single", "pushstop"}
        /\ stopping' \in Nat /\ presses' \in Nat
    BY <1>0, <1>4 DEF PressStop, Press
  <2> QED
    BY <1>0, <2>2, <2>3, <2>4, OtherStepKeeps
<1>5. CASE PressInput
  <2>1. \E m \in InputTypes : WriteCommandExecInput(m)
    BY <1>5 DEF PressInput, InputTypes
  <2>2. inputs' \in Seq(InputTypes) /\ Len(inputs') <= InputCap
    BY <1>0, <2>1, WriteTyped
  <2>3. ChannelsTypeOK'
    BY <1>0, <1>5, <2>2 DEF PressInput, ChannelsTypeOK, completionVars
  <2>4. /\ MotorTypeOK' /\ run' = run /\ ctx' = ctx
        /\ lastLine' \in Int /\ userLine' \in Nat
    BY <1>0, <1>5, MotorUnchanged DEF PressInput, execVars
  <2>5. /\ listener' \in {"recv", "single", "pushstop"}
        /\ stopping' \in Nat /\ presses' \in Nat
    BY <1>0, <1>5 DEF PressInput, Press
  <2> QED
    BY <1>0, <2>3, <2>4, <2>5, OtherStepKeeps
<1>6. CASE PressReset
  <2>1. actions' \in Seq(ActionTypes) /\ Len(actions') <= ActionCap
    BY <1>0, <1>6, DriverTyped DEF PressReset, ActionTypes
  <2>2. ChannelsTypeOK'
    BY <1>0, <1>6, <2>1 DEF PressReset, ChannelsTypeOK, completionVars
  <2>3. /\ MotorTypeOK' /\ run' = run /\ ctx' = ctx
        /\ lastLine' \in Int /\ userLine' \in Nat
    BY <1>0, <1>6, MotorUnchanged DEF PressReset, execVars
  <2>4. /\ listener' \in {"recv", "single", "pushstop"}
        /\ stopping' \in Nat /\ presses' \in Nat
    BY <1>0, <1>6 DEF PressReset, Press
  <2> QED
    BY <1>0, <2>2, <2>3, <2>4, OtherStepKeeps
<1>7. CASE PressSaveLine
  <2>1. PICK l \in 1 .. MaxLine :
          /\ userLine' = l /\ lastLine' = l
          /\ ctx' = [ctx EXCEPT !.resume = l]
    BY <1>7 DEF PressSaveLine
  <2>2. l \in Int /\ userLine' \in Nat /\ lastLine' \in Int
    BY <2>1, MaxLineAssumption
  <2>3. ctx' \in Context
    BY <1>0, <2>1, <2>2, PutContext
  <2>4. ctx'.stop => ctx.stop
    BY <1>0, <2>1 DEF Context
  <2>5. ChannelsTypeOK'
    BY <1>0, <1>7 DEF PressSaveLine, ChannelsTypeOK, channelVars
  <2>6. MotorTypeOK' /\ run' = run
    BY <1>0, <1>7, MotorUnchanged DEF PressSaveLine
  <2>7. /\ listener' \in {"recv", "single", "pushstop"}
        /\ stopping' \in Nat /\ presses' \in Nat
    BY <1>0, <1>7 DEF PressSaveLine, Press
  <2> QED
    BY <2>2, <2>3, <2>4, <2>5, <2>6, <2>7, OtherStepKeeps
<1> QED
  BY <1>1, <1>2, <1>3, <1>4, <1>5, <1>6, <1>7 DEF Operator

----------------------------------------------------------------------------
\* The invariant and what follows from it.

\* The program control starts in the invariant.
LEMMA InitHolds == Init => IInv
<1> SUFFICES ASSUME Init PROVE IInv
  OBVIOUS
<1>1. ChannelsTypeOK
  <2>1. /\ << >> \in Seq(InputTypes) /\ Len(<< >>) <= InputCap
        /\ << >> \in Seq(ActionTypes) /\ Len(<< >>) <= ActionCap
    BY CapAssumption
  <2>2. [n \in Notifiers |-> "no"] \in
          [Notifiers -> {"no", "check", "send", "clear"}]
    OBVIOUS
  <2>3. /\ notifying \in [Notifiers -> {"no", "check", "send", "clear"}]
        /\ inputs \in Seq(InputTypes) /\ Len(inputs) <= InputCap
        /\ actions \in Seq(ActionTypes) /\ Len(actions) <= ActionCap
    BY <2>1, <2>2 DEF Init, ChannelsInit
  <2>4. open \in BOOLEAN /\ singleOpen \in BOOLEAN /\ alarm \in BOOLEAN
    BY DEF Init, ChannelsInit
  <2>5. token \in 0 .. 1 /\ alarms \in Nat
    BY DEF Init, ChannelsInit
  <2> QED
    BY <2>3, <2>4, <2>5 DEF ChannelsTypeOK
<1>2. MotorTypeOK
  BY DEF Init, MotorInit, MotorTypeOK, MotionStages
<1>3. ctx \in Context /\ ctx.stop = FALSE
  BY FreshTyped DEF Init, ExecInit
<1>4. run \in Frames /\ StackOK
  BY IdleTyped DEF Init, ExecInit, Frames, StackOK
<1>5. LateOK
  BY <1>3 DEF LateOK
<1>6. TypeOK
  BY <1>1, <1>2, <1>3, <1>4 DEF Init, ExecInit, TypeOK, Frames
<1> QED
  BY <1>4, <1>5, <1>6 DEF IInv

\* Every step keeps the invariant.
LEMMA NextKeeps == IInv /\ [Next]_vars => IInv'
<1> SUFFICES ASSUME IInv, [Next]_vars PROVE IInv'
  OBVIOUS
<1>0. /\ ChannelsTypeOK /\ MotorTypeOK
      /\ ctx \in Context /\ lastLine \in Int /\ userLine \in Nat
      /\ run \in Frames
      /\ listener \in {"recv", "single", "pushstop"} /\ stopping \in Nat
      /\ presses \in Nat
  BY DEF IInv, TypeOK, Frames
<1>1. ASSUME NEW r \in Runs, Executing(r)
      PROVE  IInv'
  <2>1. Before(r)
    BY <1>0 DEF Before, IInv, StackOK
  <2>2. ChannelsTypeOK' /\ ExecTypeOK' /\ StackOK' /\ LateOK'
    BY <1>1, <2>1, ExecutorKeeps, KeptForAll DEF Executing
  <2>3. MotorTypeOK'
    BY <1>0, <1>1, MotorUnchanged DEF Executing
  <2>4. /\ listener' \in {"recv", "single", "pushstop"}
        /\ stopping' \in Nat /\ presses' \in Nat
    BY <1>0, <1>1 DEF Executing, controlVars
  <2> QED
    BY <2>2, <2>3, <2>4 DEF IInv, TypeOK, ExecTypeOK, Frames
<1>2. ASSUME NEW n \in Notifiers, Notifying(n)
      PROVE  IInv'
  <2>1. ChannelsTypeOK'
    BY <1>0, <1>2, NotifyTyped DEF Notifying
  <2>2. /\ MotorTypeOK' /\ run' = run /\ ctx' = ctx
        /\ lastLine' \in Int /\ userLine' \in Nat
    BY <1>0, <1>2, MotorUnchanged DEF Notifying, execVars
  <2>3. /\ listener' \in {"recv", "single", "pushstop"}
        /\ stopping' \in Nat /\ presses' \in Nat
    BY <1>0, <1>2 DEF Notifying, controlVars
  <2> QED
    BY <1>0, <2>1, <2>2, <2>3, OtherStepKeeps
<1>3. CASE Motor
  <2>1. ChannelsTypeOK' /\ MotorTypeOK'
    BY <1>0, <1>3, MotorTyped DEF Motor
  <2>2. run' = run /\ ctx' = ctx /\ lastLine' \in Int /\ userLine' \in Nat
    BY <1>0, <1>3 DEF Motor, execVars
  <2>3. /\ listener' \in {"recv", "single", "pushstop"}
        /\ stopping' \in Nat /\ presses' \in Nat
    BY <1>0, <1>3 DEF Motor, controlVars
  <2> QED
    BY <1>0, <2>1, <2>2, <2>3, OtherStepKeeps
<1>4. CASE UNCHANGED vars
  <2>1. ChannelsTypeOK'
    BY <1>0, <1>4 DEF vars, channelVars, ChannelsTypeOK
  <2>2. MotorTypeOK'
    BY <1>0, <1>4, MotorUnchanged DEF vars
  <2>3. run' = run /\ ctx' = ctx /\ lastLine' \in Int /\ userLine' \in Nat
    BY <1>0, <1>4 DEF vars, execVars
  <2>4. /\ listener' \in {"recv", "single", "pushstop"}
        /\ stopping' \in Nat /\ presses' \in Nat
    BY <1>0, <1>4 DEF vars, controlVars
  <2> QED
    BY <1>0, <2>1, <2>2, <2>3, <2>4, OtherStepKeeps
<1> QED
  BY <1>1, <1>2, <1>3, <1>4, ListenerKeeps, OperatorKeeps DEF Next

\* IInv is an invariant of ProgramControl.
THEOREM InvariantHolds == Spec => []IInv
  BY InitHolds, NextKeeps, PTL DEF Spec

\* Type correctness: no channel ever exceeds its capacity, and the context
\* and the calls of RunCodeFile keep their types, whatever the programs.
THEOREM TypeCorrect == Spec => []TypeOK
<1>1. IInv => TypeOK
  BY DEF IInv
<1> QED
  BY <1>1, InvariantHolds, PTL

\* LateMoves: once StopExecution is set no call of RunCodeFile sends more
\* than the move of the line, or of the segment, it is in, for every program
\* and every number of calls.
THEOREM LateMovesHolds == Spec => []LateMoves
<1>1. IInv => LateMoves
  BY DEF IInv, LateOK, LateFrame, LateMoves
<1> QED
  BY <1>1, InvariantHolds, PTL

----------------------------------------------------------------------------
\* The strengthening of TrialSilent, with a single call.
TrialOK == \A r \in Runs : TrialFrame(run[r], ctx.trial)

\* No trial run is in progress at first.
LEMMA TrialInit == Init => TrialOK
  BY DEF Init, ExecInit, Idle, TrialOK, TrialFrame

\* A stop or a reset that is heard does not end the trial mode.
LEMMA MarkLateTrial ==
  ASSUME IInv, TrialOK, NEW k \in {"stop", "reset"}, MarkLate(k),
         ctx'.trial = ctx.trial
  PROVE  TrialOK'
<1>1. ASSUME NEW r \in Runs
      PROVE  run'[r].frame = run[r].frame /\ run'[r].pc = run[r].pc
  <2>1. run[r] \in RunRecords
    BY DEF IInv, TypeOK
  <2>2. run'[r] = IF run[r].pc = "idle" THEN run[r]
                  ELSE [run[r] EXCEPT !.late = [run[r].late EXCEPT ![k] = 0]]
    BY DEF MarkLate
  <2> QED
    BY <2>1, <2>2 DEF RunRecords
<1> QED
  BY <1>1 DEF TrialOK, TrialFrame

\* With a single call of RunCodeFile, every step keeps TrialOK.
LEMMA TrialStep ==
  ASSUME NEW r0, Runs = {r0}, IInv, TrialOK, [Next]_vars
  PROVE  TrialOK'
<1>0. ctx \in Context /\ run \in Frames
  BY DEF IInv, TypeOK, Frames
<1>a. ASSUME run' = run, ctx'.trial = ctx.trial
      PROVE  TrialOK'
  BY <1>a DEF TrialOK, TrialFrame
<1>1. ASSUME NEW r \in Runs, Executing(r)
      PROVE  TrialOK'
  <2>1. Before(r)
    BY <1>0 DEF Before, IInv, TypeOK, StackOK
  <2>2. TrialFrame(run'[r], ctx'.trial)
    BY <1>1, <2>1, ExecutorTrial DEF TrialOK, Executing
  <2>3. r = r0
    OBVIOUS
  <2> QED
    BY <2>2, <2>3 DEF TrialOK, TrialFrame
<1>2. ASSUME NEW n \in Notifiers, Notifying(n)
      PROVE  TrialOK'
  BY <1>a, <1>2 DEF Notifying, execVars
<1>3. CASE Motor
  BY <1>a, <1>3 DEF Motor, execVars
<1>4. CASE Listener
  <2>1. CASE HearMode \/ HearECS
    <3>1. run' = run
      BY <2>1 DEF HearMode, HearECS
    <3>2. ctx'.trial = ctx.trial
      BY <1>0, <2>1 DEF HearMode, HearECS, Context
    <3> QED
      BY <1>a, <3>1, <3>2
  <2>2. CASE HearNextLine \/ PushStop
    BY <1>a, <2>2 DEF HearNextLine, PushStop, execVars
  <2>3. CASE HearStop
    <3>1. ctx'.trial = ctx.trial
      BY <1>0, <2>3 DEF HearStop, Context
    <3>2. MarkLate("stop")
      BY <2>3 DEF HearStop
    <3> QED
      BY <3>1, <3>2, MarkLateTrial
  <2>4. CASE HearReset
    <3> DEFINE d == [ctx EXCEPT !.hasReset = TRUE]
    <3>1. d \in Context /\ ctx' = Reset(d)
      BY <1>0, <2>4, PutContext DEF HearReset
    <3>2. d.trial = ctx.trial
      BY <1>0 DEF Context
    <3> HIDE DEF d
    <3>3. ctx'.trial = ctx.trial
      BY <3>1, <3>2, ResetTyped
    <3>4. MarkLate("reset")
      BY <2>4 DEF HearReset
    <3> QED
      BY <3>3, <3>4, MarkLateTrial
  <2>5. ASSUME NEW r \in Runs, SingleRendezvous(r)
        PROVE  TrialOK'
    <3>1. run[r].pc = "single" /\ ctx' = ctx
      BY <2>5 DEF SingleRendezvous, At
    <3>2. run[r].frame # "trial"
      BY <3>1 DEF TrialOK, TrialFrame, NotSending
    <3>3. run'[r].frame = run[r].frame
      BY <1>0, <2>5 DEF SingleRendezvous, Goto, Frames, RunRecords
    <3>4. r = r0
      OBVIOUS
    <3> QED
      BY <3>2, <3>3, <3>4 DEF TrialOK, TrialFrame
  <2> QED
    BY <1>4, <2>1, <2>2, <2>3, <2>4, <2>5 DEF Listener
<1>5. CASE SendAlarm \/ StopMovesNextLine
  BY <1>a, <1>5 DEF SendAlarm, StopMovesNextLine, execVars
<1>6. CASE Operator
  <2>1. CASE PressStop \/ PressInput \/ PressReset
    BY <1>a, <2>1 DEF PressStop, PressInput, PressReset, execVars
  <2>2. CASE PressSaveLine
    <3>1. run' = run
      BY <2>2 DEF PressSaveLine
    <3>2. ctx'.trial = ctx.trial
      BY <1>0, <2>2 DEF PressSaveLine, Context
    <3> QED
      BY <1>a, <3>1, <3>2
  <2>3. CASE Refuse
    BY <1>a, <2>3 DEF Refuse, execVars
  <2>4. ASSUME NEW r \in Runs, NEW f \in Files, Start(r, f)
        PROVE  TrialOK'
    <3>1. run'[r].frame = "none"
      BY <1>0, <2>4 DEF Start, Frames, Idle
    <3>2. r = r0
      OBVIOUS
    <3> QED
      BY <3>1, <3>2 DEF TrialOK, TrialFrame
  <2> QED
    BY <1>6, <2>1, <2>2, <2>3, <2>4 DEF Operator, PressExecute
<1>7. CASE UNCHANGED vars
  BY <1>a, <1>7 DEF vars, execVars
<1> QED
  BY <1>1, <1>2, <1>3, <1>4, <1>5, <1>6, <1>7 DEF Next

\* TrialSilent: while one call of RunCodeFile is all there is, no driver
\* action is sent in its trial run, for every program. With two of them it is
\* false: the end of one trial run clears the flag of the other.
THEOREM TrialSilentHolds ==
  ASSUME NEW r0, Runs = {r0}
  PROVE  Spec => []TrialSilent
<1>1. TrialOK /\ IInv => TrialSilent
  BY DEF TrialOK, IInv, StackOK, FrameOK, TrialFrame, NotSending, Sending,
     TrialSilent
<1>2. IInv /\ TrialOK /\ [Next]_vars => TrialOK'
  BY TrialStep
<1> QED
  BY <1>1, <1>2, TrialInit, InvariantHolds, PTL DEF Spec
=============================================================================
