--------------------------- MODULE ProgramControl ---------------------------
(***************************************************************************)
(* A program under the control of its operator: the executor, the motor    *)
(* side, the listener of executors/command_exec_input_listener.go between  *)
(* them, and the socket events of clientcommunication/socketserver.go.     *)
(***************************************************************************)
EXTENDS Executor, MotorActions

CONSTANTS Presses,      \* the socket events the operator may send
          MaxPresses    \* bound: the number of them, "execute" included

ASSUME PressesAssumption ==
  /\ Presses \subseteq {"stop", "next", "mode", "reset", "line"}
  /\ MaxPresses \in Nat

VARIABLES
  listener,     \* listenCommandExecInput: "recv", "single" or "pushstop"
  stopping,     \* stop_execution handlers between their two messages
  presses       \* socket events so far

controlVars == <<listener, stopping, presses>>
vars == <<channelVars, execVars, motorVars, controlVars>>

\* TypeOK: no channel holds more than its capacity, and the context, the calls
\* of RunCodeFile and the motor are in a state the program has.
TypeOK ==
  /\ ChannelsTypeOK
  /\ MotorTypeOK
  /\ ctx \in Context
  /\ run \in [Runs -> RunRecords]
  /\ lastLine \in Int
  /\ userLine \in Nat
  /\ listener \in {"recv", "single", "pushstop"}
  /\ stopping \in Nat
  /\ presses \in Nat

Init ==
  /\ ChannelsInit
  /\ MotorInit
  /\ ExecInit
  /\ listener = "recv"
  /\ stopping = 0
  /\ presses = 0

----------------------------------------------------------------------------
\* listenCommandExecInput: one message.

Heard(m) ==
  /\ listener = "recv" /\ Silent("input")
  /\ inputs # << >> /\ Head(inputs) = m
  /\ inputs' = Tail(inputs)

\* A call in progress counts its moves from here on.
MarkLate(k) ==
  run' = [r \in Runs |-> IF run[r].pc = "idle" THEN run[r]
                         ELSE [run[r] EXCEPT !.late[k] = 0]]

HearMode ==
  /\ \E m \in {"single", "continuous"} :
        Heard(m) /\ ctx' = [ctx EXCEPT !.single = (m = "single")]
  /\ UNCHANGED <<completionVars, singleOpen, actions, alarm, alarms, run,
                 lastLine, userLine, motorVars, controlVars>>

\* NotifySingleModeComplete blocks until the executor receives.
HearNextLine ==
  /\ Heard("move_next_line")
  /\ listener' = IF singleOpen THEN "single" ELSE "recv"
  /\ UNCHANGED <<completionVars, singleOpen, actions, alarm, alarms, execVars,
                 motorVars, stopping, presses>>

HearStop ==
  /\ Heard("stop_prog_exec")
  /\ ctx' = [ctx EXCEPT !.stop = TRUE]
  /\ MarkLate("stop")
  /\ CallNotifyLater("input")
  /\ listener' = "pushstop"
  /\ UNCHANGED <<open, token, singleOpen, actions, alarm, alarms, lastLine,
                 userLine, motorVars, stopping, presses>>

\* ... once NotifyCmdComplete returned.
PushStop ==
  /\ listener = "pushstop" /\ Silent("input")
  /\ NotifyMotorDriver("STOP_PROGRAM_EXECUTION")
  /\ listener' = "recv"
  /\ UNCHANGED <<completionVars, singleOpen, inputs, alarm, alarms, execVars,
                 motorVars, stopping, presses>>

HearReset ==
  /\ Heard("reset")
  /\ ctx' = Reset([ctx EXCEPT !.hasReset = TRUE])
  /\ MarkLate("reset")
  /\ CallNotifyLater("input")
  /\ UNCHANGED <<open, token, singleOpen, actions, alarm, alarms, lastLine,
                 userLine, motorVars, controlVars>>

HearECS ==
  /\ \E m \in {"waiting_for_ecs", "ecs_done"} :
        Heard(m) /\ ctx' = [ctx EXCEPT !.waiting = (m = "waiting_for_ecs")]
  /\ UNCHANGED <<completionVars, singleOpen, actions, alarm, alarms, run,
                 lastLine, userLine, motorVars, controlVars>>

\* SingleModeChannel is unbuffered: send and receive are one step.
SingleRendezvous(r) ==
  /\ listener = "single" /\ At(r, "single")
  /\ listener' = "recv"
  /\ Goto(r, "singleshut")
  /\ UNCHANGED <<channelVars, ctx, lastLine, userLine, motorVars, stopping,
                 presses>>

Listener ==
  \/ HearMode \/ HearNextLine \/ HearStop \/ PushStop \/ HearReset \/ HearECS
  \/ \E r \in Runs : SingleRendezvous(r)

----------------------------------------------------------------------------
\* socketserver.go: every event has a goroutine of its own.

\* sendAlarm: every alarm that goes to the clients stops the program.
SendAlarm ==
  /\ alarms > 0
  /\ WriteCommandExecInput("stop_prog_exec")
  /\ alarms' = alarms - 1
  /\ UNCHANGED <<completionVars, singleOpen, actions, alarm, execVars,
                 motorVars, controlVars>>

Press == presses < MaxPresses /\ presses' = presses + 1

PressExecute ==
  /\ Press
  /\ Refuse \/ \E r \in Runs, f \in Files : Start(r, f)
  /\ UNCHANGED <<motorVars, listener, stopping>>

\* stop_execution writes stop_prog_exec and then move_next_line.
PressStop ==
  /\ "stop" \in Presses /\ Press
  /\ WriteCommandExecInput("stop_prog_exec")
  /\ stopping' = stopping + 1
  /\ UNCHANGED <<completionVars, singleOpen, actions, alarm, alarms, execVars,
                 motorVars, listener>>

StopMovesNextLine ==
  /\ stopping > 0
  /\ WriteCommandExecInput("move_next_line")
  /\ stopping' = stopping - 1
  /\ UNCHANGED <<completionVars, singleOpen, actions, alarm, alarms, execVars,
                 motorVars, listener, presses>>

PressInput ==
  /\ Press
  /\ \/ "next" \in Presses /\ WriteCommandExecInput("move_next_line")
     \/ /\ "mode" \in Presses
        /\ \E m \in {"single", "continuous"} : WriteCommandExecInput(m)
  /\ UNCHANGED <<completionVars, singleOpen, actions, alarm, alarms, execVars,
                 motorVars, listener, stopping>>

PressReset ==
  /\ "reset" \in Presses /\ Press
  /\ NotifyMotorDriver("RESET")
  /\ UNCHANGED <<completionVars, singleOpen, inputs, alarm, alarms, execVars,
                 motorVars, listener, stopping>>

\* save_line_number: SaveLineNumber, then UpdateLastLineFromJSON.
PressSaveLine ==
  /\ "line" \in Presses /\ Press
  /\ \E l \in 1 .. MaxLine :
       /\ userLine' = l
       /\ lastLine' = l
       /\ ctx' = [ctx EXCEPT !.resume = l]
  /\ UNCHANGED <<channelVars, run, motorVars, listener, stopping>>

Operator ==
  \/ PressExecute \/ PressStop \/ PressInput \/ PressReset \/ PressSaveLine

----------------------------------------------------------------------------

Executing(r) ==
  ExecutorStep(r) /\ UNCHANGED <<motorVars, controlVars>>

Notifying(n) ==
  NotifyCmdComplete(n) /\ UNCHANGED <<execVars, motorVars, controlVars>>

Motor ==
  /\ ActionListener \/ StatusListener \/ MotionStep \/ ResetWorker
  /\ UNCHANGED <<execVars, controlVars>>

Next ==
  \/ \E r \in Runs : Executing(r)
  \/ \E n \in Notifiers : Notifying(n)
  \/ Motor
  \/ Listener
  \/ SendAlarm
  \/ StopMovesNextLine
  \/ Operator

Spec == Init /\ [][Next]_vars

(* Goroutines are scheduled: one that can go on does.  Nothing is assumed   *)
(* of the operator, of the machine behind the ECS input, or that a move     *)
(* fails; a rotation ends one way or another.                               *)
Unlocked == \/ LockMotion \/ Rotated \/ BeginECSCheck \/ ECSStopped
            \/ GotECS \/ Duplicate \/ RotateFailed \/ GotZero
            \/ UnlockMotion

Fairness ==
  /\ \A r \in Runs : WF_vars(Executing(r))
  /\ \A n \in Notifiers : WF_vars(Notifying(n))
  /\ WF_vars(ActionListener /\ UNCHANGED <<execVars, controlVars>>)
  /\ WF_vars(StatusListener /\ UNCHANGED <<execVars, controlVars>>)
  /\ WF_vars(Unlocked /\ UNCHANGED <<execVars, controlVars>>)
  /\ WF_vars(ResetWorker /\ UNCHANGED <<execVars, controlVars>>)
  /\ WF_vars(Listener)
  /\ WF_vars(SendAlarm)
  /\ WF_vars(StopMovesNextLine)

FairSpec == Spec /\ Fairness

----------------------------------------------------------------------------
(* What a program means: the Marked lines of a file in the order in which   *)
(* they are to be executed, the lines between R and G10 as often as R says. *)
(* Loops are not nested.  M30 and M99 end it, M99 to begin again.           *)

Mark(p, i) == IF Marked(p[i]) THEN <<i - 1>> ELSE << >>

\* From a line of a loop to its G10, once.
Within(p) ==
  LET within[i \in 1 .. Len(p) + 1] ==
        IF i > Len(p) THEN << >>
        ELSE IF p[i].op = "endloop" THEN Mark(p, i)
        ELSE Mark(p, i) \o within[i + 1]
  IN  within

Times(n, s) == [k \in 1 .. n * Len(s) |-> s[((k - 1) % Len(s)) + 1]]

\* The G10 that belongs to the R of line i.
Close(p, i) == CHOOSE j \in i .. Len(p) :
                 /\ p[j].op = "endloop"
                 /\ \A k \in i .. j - 1 : p[k].op # "endloop"

\* From a line outside of loops, or the R that begins one, to the end.
From(p) ==
  LET from[i \in 1 .. Len(p) + 1] ==
        IF i > Len(p) \/ p[i].op \in {"end", "restart"} THEN << >>
        ELSE IF p[i].op = "loop"
        THEN Times(p[i].n, Within(p)[i + 1]) \o from[Close(p, i) + 1]
        ELSE Mark(p, i) \o from[i + 1]
  IN  from

Lines(f) == From(Program[f])[1]

(* The programs this is the meaning of: a command stands behind another one *)
(* only on the lines of G01 and G53 to G58, and is none that decides on the *)
(* next line; R repeats at least once, and before its G10 come no other     *)
(* loop, no end and no G16 or G17, which count in the same LoopCount, but   *)
(* a line that moves.                                                       *)
Flow == {"loop", "endloop", "end", "restart"}
Structured(p) ==
  \A i \in DOMAIN p :
    /\ p[i].child # "none" => p[i].op \in {"offset", "linear"}
    /\ p[i].child \notin Flow
    /\ p[i].op = "loop" =>
         /\ p[i].n > 0
         /\ \E j \in i + 1 .. Len(p) :
              /\ p[j].op = "endloop"
              /\ \A k \in i + 1 .. j - 1 :
                   p[k].op \notin Flow /\ "divide" \notin {p[k].op, p[k].child}
              /\ \E k \in i + 1 .. j - 1 : Marked(p[k])

Prefix(s, t) == Len(s) <= Len(t) /\ \A i \in DOMAIN s : s[i] = t[i]

(* ProgramOrder: the lines that move the motor are executed in the order of *)
(* the program, none is left out and none comes twice.  A line may be       *)
(* executed again at once, before the next one: MoveNextLine does nothing   *)
(* while ecs_done is still on its way to the listener (exec_context.go:53), *)
(* the "rare timing bug" of move_to_degree.go:38.                           *)
ProgramOrder ==
  \A r \in Runs :
    run[r].frame = "real" => Prefix(run[r].trace, Lines(run[r].file))

(* CompletesWholeProgram: PROGRAM_EXEC_COMPLETED is announced, and M99      *)
(* begins again, only when every one of those lines was executed, or, the   *)
(* former, after a line has failed, of which the operator was told.         *)
Ending(r) ==
  \/ At(r, "complete")
  \/ At(r, "handle") /\ run[r].frame = "real" /\ CurrentOp(r) = "restart"
EndedByError(r) == At(r, "complete") /\ ctx.err

CompletesWholeProgram ==
  \A r \in Runs :
    Ending(r) => run[r].trace = Lines(run[r].file) \/ EndedByError(r)

(* NothingSkipped: what remains of this across stops and resumes, in single *)
(* block mode or not: a line may come again, but none is passed over, and   *)
(* a program that completes executed them all, but for one that failed.     *)
(* Without loops.                                                           *)
Executed(r) == {run[r].trace[i] : i \in DOMAIN run[r].trace}
NothingSkipped ==
  \A r \in Runs : LET t == run[r].trace
                      all == Lines(run[r].file)
                  IN
    /\ run[r].frame = "real" =>
         \A i \in DOMAIN t, j \in DOMAIN all :
           all[j] < t[i] => \E k \in 1 .. i : t[k] = all[j]
    /\ Ending(r) => \/ Executed(r) = {all[j] : j \in DOMAIN all}
                    \/ EndedByError(r)

(* DivideMovesN: G16 Pn and G17 Pn make n moves, "360/10 = 36 degrees       *)
(* commanded in 10 steps", divide360.go:36.                                 *)
DivideMovesN ==
  \A r \in Runs :
    /\ At(r, "handled") /\ run[r].frame = "real"
    /\ CurrentOp(r) = "divide" /\ ~ ctx.err /\ ~ ctx.stop
    => run[r].seg = Line(r).n

(* TrialSilent: "When trial mode active no commands will send to driver",   *)
(* exec_context.go:30.                                                      *)
TrialSilent == \A r \in Runs : run[r].frame = "trial" => run[r].todo = << >>

(* LateMoves: once the stop flag is set, the executor sends the move of the *)
(* line, or of the segment, it is in and no other.                          *)
LateMoves == ctx.stop => \A r \in Runs : run[r].late["stop"] <= 1

(* TrialEnds: a trial run comes to its end, also that of a program that     *)
(* repeats itself for ever with M99.                                        *)
TrialEnds ==
  \A r \in Runs : run[r].frame = "trial" ~> run[r].frame # "trial"

(* EndsWhenTold: "StopExecution stops the execution of the program",        *)
(* exec_context.go:35, and a reset "aborts any active command sequences",   *)
(* reset_driver_system.go:104: after either was heard no more than the move *)
(* in progress is sent, until the program is started again.                 *)
EndsWhenTold ==
  \A r \in Runs : \A why \in {"stop", "reset"} : run[r].late[why] <= 1

(* WaitsForMotor: WaitTillCmdComplete keeps a handler waiting "until the    *)
(* motor driver completes the desired action", command_exec_complete.go:41. *)
WaitsForMotor ==
  \A r \in Runs :
    At(r, "acted") /\ CurrentOp(r) = "move" /\ ~ ctx.stop
    => /\ moves = 0 /\ motion \in {"off", "ending"}
       /\ \A i \in DOMAIN actions : actions[i] # "MOVE_TO_POSITION"
=============================================================================
