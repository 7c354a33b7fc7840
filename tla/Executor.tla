------------------------------ MODULE Executor ------------------------------
(***************************************************************************)
(* The program executor of executors/command_executor.go: RunCodeFile, its *)
(* trial run, the recursion executeCommands and the command handlers it    *)
(* calls, one action for each stretch of code between two points where     *)
(* another goroutine can interfere.  Nothing prevents two RunCodeFile      *)
(* calls from running at the same time, hence the set Runs.                *)
(***************************************************************************)
EXTENDS ExecContext, Channels

CONSTANTS Runs,         \* the goroutines that call RunCodeFile
          Program,      \* the commands of each file
          MaxLine,      \* bound: the largest line an operator asks for
          Limits        \* a drive has a POT or a NOT limit

ASSUME ProgramAssumption ==
  /\ Program \in [Files -> Seq(Command)]
  /\ "none" \notin Files
ASSUME MaxLineAssumption == MaxLine \in Nat
ASSUME LimitsAssumption == Limits \in BOOLEAN

VARIABLES
  ctx,          \* execContext, shared with the input listener
  run,          \* the stack frame of each RunCodeFile call
  lastLine,     \* last_line.txt
  userLine      \* userline.json

execVars == <<ctx, run, lastLine, userLine>>

Stages == {"idle", "announce", "verify", "launch", "check", "handle",
           "segment", "push", "wait", "receive", "shut", "acted",
           "aftersegment", "handled", "executed", "single", "singleshut",
           "stopcheck", "return", "complete", "fail"}

(* pc: where the call is; frame: the caller of executeCommands; line: the   *)
(* argument nextCommandIndex; todo: the driver actions still to be sent;    *)
(* child: in executeInLineParamFunction; seg: the counter of G16 and G17;   *)
(* back: where WaitExecuteNextCommand returns to.  trace and late are       *)
(* history: the Marked lines executed outside the trial run, a line that is *)
(* executed again at once counted once, and the number of moves sent since  *)
(* a stop or a reset was heard, -1 when none was and at most 2.             *)
Idle ==
  [pc |-> "idle", frame |-> "none", line |-> 0, file |-> "none",
   todo |-> << >>, child |-> FALSE, seg |-> 0, back |-> "idle",
   trace |-> << >>, late |-> [k \in {"stop", "reset"} |-> -1]]

RunRecords ==
  [pc : Stages, frame : {"none", "trial", "real"}, line : Int,
   file : Files \cup {"none"}, todo : Seq(ActionTypes), child : BOOLEAN,
   seg : Nat, back : Stages, trace : Seq(Int),
   late : [{"stop", "reset"} -> -1 .. 2]]

ExecInit ==
  /\ ctx = Fresh
  /\ run = [r \in Runs |-> Idle]
  /\ lastLine = 0
  /\ userLine = 0

At(r, pc) == run[r].pc = pc
Goto(r, pc) == run' = [run EXCEPT ![r].pc = pc]
Line(r) == Program[run[r].file][run[r].line + 1]

\* The command a handler was called with: the line or what is behind it.
CurrentOp(r) == IF run[r].child THEN Line(r).child ELSE Line(r).op

\* executeCommands(commands, n), called by frame fr.
Execute(r, fr, n) ==
  run' = [run EXCEPT ![r].pc = "check", ![r].frame = fr, ![r].line = n]

\* The lines whose order matters: those that move the motor, and G10.
Marked(cmd) == {cmd.op, cmd.child} \cap {"move", "divide", "endloop"} # {}
Append1(s, l) == IF s # << >> /\ s[Len(s)] = l THEN s ELSE Append(s, l)
OneMore(late) ==
  [k \in DOMAIN late |-> IF late[k] \in {0, 1} THEN late[k] + 1 ELSE late[k]]

----------------------------------------------------------------------------
\* RunCodeFile, up to the first executeCommands.

\* The gate at the top: nothing runs while an alarm is shown.  The refusal is
\* sent to the clients twice, by RunCodeFile and by its caller.
Refuse ==
  /\ alarm
  /\ alarms' = alarms + 2
  /\ UNCHANGED <<execVars, open, token, notifying, singleOpen, inputs,
                 actions, alarm>>

Start(r, f) ==
  /\ At(r, "idle")
  /\ ~ alarm
  /\ LET c == PrepareExecutingFile(ctx, f)
     IN  /\ ctx' = c
         /\ run' = [run EXCEPT ![r] =
              [Idle EXCEPT !.pc = IF c.resume > 0 THEN "launch" ELSE "announce",
                           !.file = f,
                           !.trace = IF c.resume > 0 THEN run[r].trace
                                                     ELSE << >>]]
  /\ UNCHANGED <<channelVars, lastLine, userLine>>

Announce(r) ==
  /\ At(r, "announce")
  /\ NotifyMotorDriver("START_EXECUTION")
  /\ Goto(r, "verify")
  /\ UNCHANGED <<ctx, lastLine, userLine, completionVars, singleOpen, inputs,
                 alarm, alarms>>

\* ResetExecutingProgram, UpdateLastLineFromJSON and the beginning of
\* canExecuteGivenCommands; its Reset undoes what was read from the file.
Verify(r) ==
  /\ At(r, "verify")
  /\ ctx' = [Reset(ctx) EXCEPT !.trial = TRUE]
  /\ lastLine' = userLine
  /\ Execute(r, "trial", 0)
  /\ UNCHANGED <<channelVars, userLine>>

\* executeCommands(commands, NextLineWhenStopped): a second read of it.
Launch(r) ==
  /\ At(r, "launch")
  /\ Execute(r, "real", ctx.resume)
  /\ UNCHANGED <<ctx, lastLine, userLine, channelVars>>

----------------------------------------------------------------------------
\* executeCommands and executeCommand.

InRange(r) == run[r].line \in 0 .. Len(Program[run[r].file]) - 1

Leave(r) ==
  /\ At(r, "check")
  /\ ctx.stop \/ ~ InRange(r)
  /\ Goto(r, "return")
  /\ UNCHANGED <<ctx, lastLine, userLine, channelVars>>

Check(r) ==
  /\ At(r, "check")
  /\ ~ ctx.stop /\ InRange(r)
  /\ lastLine' = IF ctx.trial THEN lastLine ELSE run[r].line
  /\ ctx' = [ctx EXCEPT !.cur = run[r].line]
  /\ run' = [run EXCEPT ![r].pc = "handle", ![r].child = FALSE,
               ![r].trace = IF run[r].frame = "real" /\ Marked(Line(r))
                            THEN Append1(@, run[r].line) ELSE @]
  /\ UNCHANGED <<userLine, channelVars>>

\* A handler that sends nothing runs to its end.  M99 starts a new trace.
HandleSilent(r) ==
  /\ At(r, "handle")
  /\ ~ SendsActions(CurrentOp(r), ctx)
  /\ ctx' = HandleSilently(Line(r), CurrentOp(r), ctx)
  /\ run' = [run EXCEPT ![r].pc = "handled",
               ![r].trace = IF CurrentOp(r) = "restart" THEN << >> ELSE @]
  /\ UNCHANGED <<lastLine, userLine, channelVars>>

\* checkPotNotLimit refuses a move, in the trial run or in the real one, which
\* starts from elsewhere: whether it does is left open.
HandleRefused(r) ==
  /\ At(r, "handle")
  /\ Limits /\ CurrentOp(r) = "move"
  /\ ctx' = [ctx EXCEPT !.err = TRUE]
  /\ Goto(r, "handled")
  /\ UNCHANGED <<lastLine, userLine, channelVars>>

HandleDivide(r) ==
  /\ At(r, "handle")
  /\ CurrentOp(r) = "divide" /\ SendsActions("divide", ctx)
  /\ LET c == DivideBegins(Line(r), ctx)
     IN  /\ ctx' = c
         /\ run' = [run EXCEPT ![r].pc = "segment", ![r].seg = c.loopCtr]
  /\ UNCHANGED <<lastLine, userLine, channelVars>>

\* OpenWaitChannel, before the actions are sent.
HandleSending(r) ==
  /\ At(r, "handle")
  /\ CurrentOp(r) # "divide" /\ SendsActions(CurrentOp(r), ctx)
  /\ open' = TRUE
  /\ ctx' = SetRunMode(CurrentOp(r), ctx)
  /\ run' = [run EXCEPT ![r].pc = "push",
               ![r].todo = DriverActions(CurrentOp(r))]
  /\ UNCHANGED <<lastLine, userLine, token, notifying, singleOpen, inputs,
                 actions, alarm, alarms>>

\* The loop of G16 and G17: the next segment, or the end.
NextSegment(r) ==
  /\ At(r, "segment")
  /\ run[r].seg < ctx.loop
  /\ open' = TRUE
  /\ ctx' = [ctx EXCEPT !.loopCtr = run[r].seg + 1]
  /\ run' = [run EXCEPT ![r].pc = "push", ![r].seg = @ + 1,
               ![r].todo = DriverActions("divide")]
  /\ UNCHANGED <<lastLine, userLine, token, notifying, singleOpen, inputs,
                 actions, alarm, alarms>>

NoMoreSegments(r) ==
  /\ At(r, "segment")
  /\ run[r].seg >= ctx.loop
  /\ ctx' = DivideEnds(ctx)
  /\ Goto(r, "handled")
  /\ UNCHANGED <<lastLine, userLine, channelVars>>

\* channels.DriverActionChannel <- driverAction
PushAction(r) ==
  /\ At(r, "push")
  /\ LET a == Head(run[r].todo)
         rest == Tail(run[r].todo)
     IN  /\ NotifyMotorDriver(a)
         /\ run' = [run EXCEPT ![r].todo = rest,
                      ![r].pc = IF rest = << >> THEN "wait" ELSE "push",
                      ![r].late = IF a = "MOVE_TO_POSITION" THEN OneMore(@)
                                                            ELSE @]
  /\ UNCHANGED <<ctx, lastLine, userLine, completionVars, singleOpen, inputs,
                 alarm, alarms>>

\* WaitTillCmdComplete: the flag is tested, ...
WaitTest(r) ==
  /\ At(r, "wait")
  /\ Goto(r, IF open THEN "receive" ELSE "acted")
  /\ UNCHANGED <<ctx, lastLine, userLine, channelVars>>

\* ... a message is received, ...
WaitReceive(r) ==
  /\ At(r, "receive")
  /\ token = 1
  /\ token' = 0
  /\ Goto(r, "shut")
  /\ UNCHANGED <<ctx, lastLine, userLine, open, notifying, singleOpen, inputs,
                 actions, alarm, alarms>>

\* ... and the flag is cleared.
WaitShut(r) ==
  /\ At(r, "shut")
  /\ open' = FALSE
  /\ Goto(r, "acted")
  /\ UNCHANGED <<ctx, lastLine, userLine, token, notifying, singleOpen,
                 inputs, actions, alarm, alarms>>

----------------------------------------------------------------------------
\* After the driver actions.

\* WaitExecuteNextCommand, called before stage pc.
WaitExecuteNextCommand(r, pc) ==
  LET blocks == ~ ctx.trial /\ ctx.single
  IN  /\ singleOpen' = (singleOpen \/ blocks)
      /\ run' = [run EXCEPT ![r].pc = IF blocks THEN "single" ELSE pc,
                            ![r].back = pc]

ContinueAt(r, pc) == Goto(r, pc) /\ UNCHANGED singleOpen

\* The received message is for the listener's rendezvous, see ProgramControl.
SingleShut(r) ==
  /\ At(r, "singleshut")
  /\ singleOpen' = FALSE
  /\ Goto(r, run[r].back)
  /\ UNCHANGED <<ctx, lastLine, userLine, completionVars, inputs, actions,
                 alarm, alarms>>

\* F** does not move to the next line, the command before it did.
Finished(r) ==
  /\ At(r, "acted") /\ CurrentOp(r) # "divide"
  /\ ctx' = IF CurrentOp(r) = "feed" THEN ctx ELSE MoveNextLine(ctx)
  /\ Goto(r, "handled")
  /\ UNCHANGED <<lastLine, userLine, channelVars>>

SegmentFinished(r) ==
  /\ At(r, "acted") /\ CurrentOp(r) = "divide"
  /\ IF /\ run[r].seg < ctx.loop
        /\ run[r].child => ChildConsidersBlock(Line(r))
     THEN WaitExecuteNextCommand(r, "aftersegment")
     ELSE ContinueAt(r, "aftersegment")
  /\ UNCHANGED <<ctx, lastLine, userLine, completionVars, inputs, actions,
                 alarm, alarms>>

AfterSegment(r) ==
  /\ At(r, "aftersegment")
  /\ IF ctx.stop THEN /\ ctx' = DivideEnds(ctx)
                      /\ Goto(r, "handled")
                 ELSE /\ UNCHANGED ctx
                      /\ Goto(r, "segment")
  /\ UNCHANGED <<lastLine, userLine, channelVars>>

\* executeCommand after the handler; executeInLineParamFunction takes the
\* command behind G01 and G53 to G58.
Inline(r) ==
  /\ ~ run[r].child
  /\ Line(r).op \in {"offset", "linear"} /\ Line(r).child # "none"

HandlerFailed(r) ==
  /\ At(r, "handled") /\ ctx.err
  /\ Goto(r, "fail")
  /\ UNCHANGED <<ctx, lastLine, userLine, channelVars>>

ChildCommand(r) ==
  /\ At(r, "handled") /\ ~ ctx.err
  /\ \/ /\ Inline(r)
        /\ run' = [run EXCEPT ![r].pc = "handle", ![r].child = TRUE]
        /\ UNCHANGED singleOpen
     \/ /\ run[r].child /\ ChildConsidersBlock(Line(r))
        /\ WaitExecuteNextCommand(r, "executed")
     \/ /\ run[r].child /\ ~ ChildConsidersBlock(Line(r))
        /\ ContinueAt(r, "executed")
  /\ UNCHANGED <<ctx, lastLine, userLine, completionVars, inputs, actions,
                 alarm, alarms>>

\* The command block in executeCommands, without RS232.
BlockWait(r) ==
  /\ \/ At(r, "executed")
     \/ At(r, "handled") /\ ~ ctx.err /\ ~ run[r].child /\ ~ Inline(r)
  /\ IF ConsiderInBlockExecution(Line(r).op) /\ ~ ctx.trial
     THEN /\ ctx' = [ctx EXCEPT !.resume = run[r].line + 1]
          /\ WaitExecuteNextCommand(r, "stopcheck")
     ELSE /\ UNCHANGED ctx
          /\ ContinueAt(r, "stopcheck")
  /\ UNCHANGED <<lastLine, userLine, completionVars, inputs, actions, alarm,
                 alarms>>

\* Slip: NextLineWhenStopped is advanced a second time.
ResumeTwice(c, line) ==
  IF c.hasReset THEN 0 ELSE IF c.waiting THEN line ELSE c.resume + 1

ResumeLine(c, line) ==
  IF c.hasReset THEN 0 ELSE IF c.waiting THEN line ELSE line + 1

StopHere(r) ==
  /\ At(r, "stopcheck") /\ ctx.stop
  /\ LET l == ResumeLine(ctx, run[r].line)
     IN  /\ ctx' = [ctx EXCEPT !.resume = l]
         /\ lastLine' = IF ctx.trial THEN lastLine ELSE l
  /\ Goto(r, "return")
  /\ UNCHANGED <<userLine, channelVars>>

\* Slip: a loop in place of the recursion, without the two tests of the flag.
RecurseUnchecked(r) ==
  /\ At(r, "stopcheck")
  /\ run' = [run EXCEPT ![r].pc = IF ctx.next \in 0 .. Len(Program[run[r].file]) - 1
                                  THEN "handle" ELSE "return",
                        ![r].line = ctx.next, ![r].child = FALSE]
  /\ ctx' = [ctx EXCEPT !.cur = ctx.next]
  /\ UNCHANGED <<lastLine, userLine, channelVars>>

Recurse(r) ==
  /\ At(r, "stopcheck") /\ ~ ctx.stop
  /\ Execute(r, run[r].frame, ctx.next)
  /\ UNCHANGED <<ctx, lastLine, userLine, channelVars>>

----------------------------------------------------------------------------
\* Back in canExecuteGivenCommands and RunCodeFile.

\* The trial run is over; Reset drops the line that was read from the file.
TrialReturns(r) ==
  /\ At(r, "return") /\ run[r].frame = "trial"
  /\ ctx' = Reset([ctx EXCEPT !.trial = FALSE])
  /\ lastLine' = userLine
  /\ Goto(r, "launch")
  /\ UNCHANGED <<userLine, channelVars>>

\* errVerify: the trial mode stays on.  RunCodeFile and its caller both send
\* the error to the clients.
TrialFails(r) ==
  /\ At(r, "fail") /\ run[r].frame = "trial"
  /\ alarms' = alarms + 2
  /\ run' = [run EXCEPT ![r] = Idle]
  /\ UNCHANGED <<ctx, lastLine, userLine, completionVars, singleOpen, inputs,
                 actions, alarm>>

\* A program that was stopped keeps its context for the next RunCodeFile.
Stopped(r) ==
  /\ At(r, "return") \/ At(r, "fail")
  /\ run[r].frame = "real" /\ ctx.stop
  /\ alarms' = IF At(r, "fail") THEN alarms + 1 ELSE alarms
  /\ run' = [run EXCEPT ![r] = [Idle EXCEPT !.trace = run[r].trace]]
  /\ UNCHANGED <<ctx, lastLine, userLine, completionVars, singleOpen, inputs,
                 actions, alarm>>

Completes(r) ==
  /\ At(r, "return") \/ At(r, "fail")
  /\ run[r].frame = "real" /\ ~ ctx.stop
  /\ alarms' = IF At(r, "fail") THEN alarms + 1 ELSE alarms
  /\ Goto(r, "complete")
  /\ UNCHANGED <<ctx, lastLine, userLine, completionVars, singleOpen, inputs,
                 actions, alarm>>

\* PROGRAM_EXEC_COMPLETED and ResetExecutingProgram.
Complete(r) ==
  /\ At(r, "complete")
  /\ NotifyMotorDriver("PROGRAM_EXEC_COMPLETED")
  /\ ctx' = Reset(ctx)
  /\ lastLine' = 0
  /\ run' = [run EXCEPT ![r] = Idle]
  /\ UNCHANGED <<userLine, completionVars, singleOpen, inputs, alarm, alarms>>

(* The steps of a RunCodeFile call in progress, but for the rendezvous with *)
(* the input listener in stage "single".                                    *)
ExecutorStep(r) ==
  \/ Announce(r) \/ Verify(r) \/ Launch(r)
  \/ Leave(r) \/ Check(r)
  \/ HandleSilent(r) \/ HandleRefused(r) \/ HandleDivide(r)
  \/ HandleSending(r)
  \/ NextSegment(r) \/ NoMoreSegments(r)
  \/ PushAction(r) \/ WaitTest(r) \/ WaitReceive(r) \/ WaitShut(r)
  \/ Finished(r) \/ SegmentFinished(r) \/ AfterSegment(r)
  \/ HandlerFailed(r) \/ ChildCommand(r) \/ BlockWait(r) \/ SingleShut(r)
  \/ StopHere(r) \/ Recurse(r)
  \/ TrialReturns(r) \/ TrialFails(r)
  \/ Stopped(r) \/ Completes(r) \/ Complete(r)
=============================================================================
