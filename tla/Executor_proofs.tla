-------------------------- MODULE Executor_proofs ---------------------------
(***************************************************************************)
(* Lemmas about ExecContext and Executor: what one step of a RunCodeFile   *)
(* call keeps, whatever the programs and however many calls there are.     *)
(***************************************************************************)
EXTENDS Executor, Channels_proofs

----------------------------------------------------------------------------
\* The operators on the execution context.

\* The fields of execContext can be assigned one by one.
LEMMA PutContext ==
  ASSUME NEW c \in Context
  PROVE  /\ \A v \in BOOLEAN : [c EXCEPT !.stop = v] \in Context
         /\ \A v \in BOOLEAN : [c EXCEPT !.hasReset = v] \in Context
         /\ \A v \in BOOLEAN : [c EXCEPT !.trial = v] \in Context
         /\ \A v \in BOOLEAN : [c EXCEPT !.waiting = v] \in Context
         /\ \A v \in BOOLEAN : [c EXCEPT !.single = v] \in Context
         /\ \A v \in BOOLEAN : [c EXCEPT !.rel = v] \in Context
         /\ \A v \in BOOLEAN : [c EXCEPT !.err = v] \in Context
         /\ \A v \in Int : [c EXCEPT !.cur = v] \in Context
         /\ \A v \in Int : [c EXCEPT !.next = v] \in Context
         /\ \A v \in Int : [c EXCEPT !.resume = v] \in Context
         /\ \A v \in Int : [c EXCEPT !.loop = v] \in Context
         /\ \A v \in Int : [c EXCEPT !.loopAt = v] \in Context
         /\ \A v \in Nat : [c EXCEPT !.loopCtr = v] \in Context
<1>1. \A v \in BOOLEAN : [c EXCEPT !.stop = v] \in Context  BY DEF Context
<1>2. \A v \in BOOLEAN : [c EXCEPT !.hasReset = v] \in Context  BY DEF Context
<1>3. \A v \in BOOLEAN : [c EXCEPT !.trial = v] \in Context  BY DEF Context
<1>4. \A v \in BOOLEAN : [c EXCEPT !.waiting = v] \in Context  BY DEF Context
<1>5. \A v \in BOOLEAN : [c EXCEPT !.single = v] \in Context  BY DEF Context
<1>6. \A v \in BOOLEAN : [c EXCEPT !.rel = v] \in Context  BY DEF Context
<1>7. \A v \in BOOLEAN : [c EXCEPT !.err = v] \in Context  BY DEF Context
<1>8. \A v \in Int : [c EXCEPT !.cur = v] \in Context  BY DEF Context
<1>9. \A v \in Int : [c EXCEPT !.next = v] \in Context  BY DEF Context
<1>10. \A v \in Int : [c EXCEPT !.resume = v] \in Context  BY DEF Context
<1>11. \A v \in Int : [c EXCEPT !.loop = v] \in Context  BY DEF Context
<1>12. \A v \in Int : [c EXCEPT !.loopAt = v] \in Context  BY DEF Context
<1>13. \A v \in Nat : [c EXCEPT !.loopCtr = v] \in Context  BY DEF Context
<1> QED
  BY <1>1, <1>2, <1>3, <1>4, <1>5, <1>6, <1>7, <1>8, <1>9,
     <1>10, <1>11, <1>12, <1>13

\* The context a program starts with has the type and no stop flag.
LEMMA FreshTyped == Fresh \in Context /\ Fresh.stop = FALSE
  BY DEF Fresh, Context

\* Reset keeps the type and the trial flag, and clears the stop flag.
LEMMA ResetTyped ==
  ASSUME NEW c \in Context
  PROVE  /\ Reset(c) \in Context
         /\ Reset(c).stop = FALSE
         /\ Reset(c).trial = c.trial
<1> DEFINE d0 == [c EXCEPT !.cur = 0]
           d1 == [d0 EXCEPT !.next = 0]
           d2 == [d1 EXCEPT !.err = FALSE]
           d3 == [d2 EXCEPT !.stop = FALSE]
           d4 == [d3 EXCEPT !.loop = 0]
           d5 == [d4 EXCEPT !.loopCtr = 0]
           d6 == [d5 EXCEPT !.loopAt = 0]
           d7 == [d6 EXCEPT !.resume = 0]
           d8 == [d7 EXCEPT !.rel = FALSE]
           d9 == [d8 EXCEPT !.waiting = FALSE]
<1>1. Reset(c) \in Context
  <2>0. d0 \in Context BY PutContext
  <2> HIDE DEF d0
  <2>1. d1 \in Context BY <2>0, PutContext
  <2> HIDE DEF d1
  <2>2. d2 \in Context BY <2>1, PutContext
  <2> HIDE DEF d2
  <2>3. d3 \in Context BY <2>2, PutContext
  <2> HIDE DEF d3
  <2>4. d4 \in Context BY <2>3, PutContext
  <2> HIDE DEF d4
  <2>5. d5 \in Context BY <2>4, PutContext
  <2> HIDE DEF d5
  <2>6. d6 \in Context BY <2>5, PutContext
  <2> HIDE DEF d6
  <2>7. d7 \in Context BY <2>6, PutContext
  <2> HIDE DEF d7
  <2>8. d8 \in Context BY <2>7, PutContext
  <2> HIDE DEF d8
  <2>9. d9 \in Context BY <2>8, PutContext
  <2> HIDE DEF d9
  <2> QED
    BY <2>9 DEF Reset, d0, d1, d2, d3, d4, d5, d6, d7, d8, d9
<1>2. Reset(c).stop = FALSE /\ Reset(c).trial = c.trial
  BY DEF Reset, Context
<1> QED
  BY <1>1, <1>2

\* MoveNextLine keeps the type, the stop flag and the trial flag.
LEMMA MoveNextLineTyped ==
  ASSUME NEW c \in Context
  PROVE  /\ MoveNextLine(c) \in Context
         /\ MoveNextLine(c).stop = c.stop
         /\ MoveNextLine(c).trial = c.trial
<1>1. c.cur + 1 \in Int
  BY DEF Context
<1>2. [c EXCEPT !.next = c.cur + 1] \in Context
  BY <1>1, PutContext
<1>3. /\ [c EXCEPT !.next = c.cur + 1].stop = c.stop
      /\ [c EXCEPT !.next = c.cur + 1].trial = c.trial
  BY DEF Context
<1> QED
  BY <1>2, <1>3 DEF MoveNextLine

\* PrepareExecutingFile clears the stop flag.
LEMMA PrepareTyped ==
  ASSUME NEW c \in Context, NEW f \in Files
  PROVE  /\ PrepareExecutingFile(c, f) \in Context
         /\ PrepareExecutingFile(c, f).stop = FALSE
<1> DEFINE d == [c EXCEPT !.stop = FALSE, !.hasReset = FALSE]
<1>1. d \in Context
  BY PutContext
<1>2. d.stop = FALSE
  BY DEF Context
<1> HIDE DEF d
<1>3. [Reset(d) EXCEPT !.file = f] \in Context
  BY <1>1, ResetTyped DEF Context
<1>4. [Reset(d) EXCEPT !.file = f].stop = FALSE
  BY <1>1, ResetTyped DEF Context
<1> QED
  BY <1>1, <1>2, <1>3, <1>4 DEF PrepareExecutingFile, d

\* The beginning of G16 and G17 keeps the type and both flags.
LEMMA DivideBeginsTyped ==
  ASSUME NEW c \in Context, NEW cmd \in Command
  PROVE  /\ DivideBegins(cmd, c) \in Context
         /\ DivideBegins(cmd, c).stop = c.stop
         /\ DivideBegins(cmd, c).trial = c.trial
<1> DEFINE d == [c EXCEPT !.loop = cmd.n]
           e == [d EXCEPT !.loopCtr = 0]
<1>1. cmd.n \in Int
  BY DEF Command
<1>2. d \in Context /\ d.stop = c.stop /\ d.trial = c.trial
  <2>1. d \in Context
    BY <1>1, PutContext
  <2> QED
    BY <2>1 DEF Context
<1> HIDE DEF d
<1>3. e \in Context /\ e.stop = c.stop /\ e.trial = c.trial
  <2>1. e \in Context
    BY <1>2, PutContext
  <2> QED
    BY <1>2, <2>1 DEF Context
<1> HIDE DEF e
<1>4. DivideBegins(cmd, c) = IF c.loop <= 0 THEN e ELSE c
  BY DEF DivideBegins, d, e
<1> QED
  BY <1>3, <1>4

\* The end of G16 and G17 keeps the type and both flags.
LEMMA DivideEndsTyped ==
  ASSUME NEW c \in Context
  PROVE  /\ DivideEnds(c) \in Context
         /\ DivideEnds(c).stop = c.stop
         /\ DivideEnds(c).trial = c.trial
<1> DEFINE d == [c EXCEPT !.loop = 0]
           e == [d EXCEPT !.loopCtr = 0]
<1>1. d \in Context /\ d.stop = c.stop /\ d.trial = c.trial
  <2>1. d \in Context
    BY PutContext
  <2> QED
    BY <2>1 DEF Context
<1> HIDE DEF d
<1>2. e \in Context /\ e.stop = c.stop /\ e.trial = c.trial
  <2>1. e \in Context
    BY <1>1, PutContext
  <2> QED
    BY <1>1, <2>1 DEF Context
<1> HIDE DEF e
<1>3. DivideEnds(c) = MoveNextLine(IF c.stop THEN c ELSE e)
  BY DEF DivideEnds, d, e
<1> QED
  BY <1>2, <1>3, MoveNextLineTyped

\* G90 and G91 keep the type and both flags.
LEMMA SetRunModeTyped ==
  ASSUME NEW c \in Context, NEW op
  PROVE  /\ SetRunMode(op, c) \in Context
         /\ SetRunMode(op, c).stop = c.stop
         /\ SetRunMode(op, c).trial = c.trial
<1>1. [c EXCEPT !.rel = (op = "rel")] \in Context
  BY PutContext
<1>2. /\ [c EXCEPT !.rel = (op = "rel")].stop = c.stop
      /\ [c EXCEPT !.rel = (op = "rel")].trial = c.trial
  BY DEF Context
<1> QED
  BY <1>1, <1>2 DEF SetRunMode

\* A handler that sends nothing sets no stop flag and leaves the trial flag
\* as it was.
LEMMA SilentTyped ==
  ASSUME NEW c \in Context, NEW cmd \in Command, NEW op
  PROVE  /\ HandleSilently(cmd, op, c) \in Context
         /\ HandleSilently(cmd, op, c).stop => c.stop
         /\ HandleSilently(cmd, op, c).trial = c.trial
<1> DEFINE Good(d) == d \in Context /\ (d.stop => c.stop) /\ d.trial = c.trial
<1> SUFFICES Good(HandleSilently(cmd, op, c))
  OBVIOUS
<1>1. Good(LoopStart(cmd, c))
  <2> DEFINE e ==
         [c EXCEPT !.loopAt = c.cur, !.err = FALSE, !.loop = cmd.n - 1]
  <2>1. c.cur \in Int /\ cmd.n - 1 \in Int
    BY DEF Context, Command
  <2>2. e \in Context
    BY <2>1, PutContext
  <2>3. e.stop = c.stop /\ e.trial = c.trial
    BY DEF Context
  <2> HIDE DEF e
  <2>4. Good(MoveNextLine(e))
    BY <2>2, <2>3, MoveNextLineTyped
  <2> QED
    BY <2>4 DEF LoopStart, e
<1>2. Good(LoopEnd(c))
  <2> DEFINE e == [c EXCEPT !.loop = c.loop - 1, !.next = c.loopAt + 1]
  <2>1. c.loop - 1 \in Int /\ c.loopAt + 1 \in Int
    BY DEF Context
  <2>2. e \in Context
    BY <2>1, PutContext
  <2>3. e.stop = c.stop /\ e.trial = c.trial
    BY DEF Context
  <2> HIDE DEF e
  <2> QED
    BY <2>2, <2>3, MoveNextLineTyped DEF LoopEnd, e
<1>3. Good(DivideEnds(DivideBegins(cmd, c)))
  BY DivideBeginsTyped, DivideEndsTyped
<1>4. Good([c EXCEPT !.err = TRUE]) /\ Good([c EXCEPT !.err = FALSE])
  <2>1. /\ [c EXCEPT !.err = TRUE] \in Context
        /\ [c EXCEPT !.err = FALSE] \in Context
    BY PutContext
  <2>2. /\ [c EXCEPT !.err = TRUE].stop = c.stop
        /\ [c EXCEPT !.err = TRUE].trial = c.trial
        /\ [c EXCEPT !.err = FALSE].stop = c.stop
        /\ [c EXCEPT !.err = FALSE].trial = c.trial
    BY DEF Context
  <2> QED
    BY <2>1, <2>2
<1>5. Good(EndExecution(c))
  <2>1. /\ Reset(c) \in Context /\ Reset(c).stop = FALSE
        /\ Reset(c).trial = c.trial
    BY ResetTyped
  <2>2. [Reset(c) EXCEPT !.next = -1] \in Context
    BY <2>1, PutContext
  <2>3. /\ [Reset(c) EXCEPT !.next = -1].stop = FALSE
        /\ [Reset(c) EXCEPT !.next = -1].trial = c.trial
    BY <2>1 DEF Context
  <2> QED
    BY <2>2, <2>3 DEF EndExecution
<1>6. Good(Restart(c))
  <2>1. /\ [c EXCEPT !.next = 0] \in Context
        /\ [c EXCEPT !.next = 0].trial = c.trial
    BY PutContext DEF Context
  <2>2. Good(Reset([c EXCEPT !.next = 0]))
    BY <2>1, ResetTyped
  <2> QED
    BY <1>5, <2>2 DEF Restart, MoveToStart
<1>7. Good(SetRunMode(op, c))
  BY SetRunModeTyped
<1>8. \A d \in Context : d.stop = c.stop /\ d.trial = c.trial
                         => Good(MoveNextLine(d))
  BY MoveNextLineTyped
<1>9. Good(MoveNextLine([c EXCEPT !.err = TRUE]))
      /\ Good(MoveNextLine([c EXCEPT !.err = FALSE]))
  <2>1. /\ [c EXCEPT !.err = TRUE].stop = c.stop
        /\ [c EXCEPT !.err = FALSE].stop = c.stop
    BY DEF Context
  <2> QED
    BY <1>4, <1>8, <2>1
<1>10. Good(MoveNextLine(SetRunMode(op, c)))
  BY <1>8, SetRunModeTyped
<1>11. Good(IF c.rel THEN DivideEnds(DivideBegins(cmd, c))
                     ELSE [c EXCEPT !.err = TRUE])
  BY <1>3, <1>4
<1>12. Good(c)
  OBVIOUS
<1> HIDE DEF Good
<1> QED
  BY <1>1, <1>2, <1>5, <1>6, <1>9, <1>10, <1>11, <1>12 DEF HandleSilently

----------------------------------------------------------------------------
(* The stack frame of a call is in order: on a line it is on a line of its  *)
(* program, what it still has to send is the rest of what its handler sends *)
(* and, while it sends, no further command is behind it on its line.        *)

Frames == [Runs -> RunRecords]

OnLine == {"handle", "segment", "push", "wait", "receive", "shut", "acted",
           "aftersegment", "handled", "executed", "single", "singleshut",
           "stopcheck"}
Sending == {"segment", "push", "wait", "receive", "shut", "acted",
            "aftersegment"}
Pending == {<<"SET_WORK_OFFSET", "MOVE_TO_POSITION">>, <<"MOVE_TO_POSITION">>,
            <<"POSITION_MODE">>, <<"SET_RPM">>}

LineOf(x) == Program[x.file][x.line + 1]
InlineOf(x) ==
  /\ ~ x.child
  /\ LineOf(x).op \in {"offset", "linear"} /\ LineOf(x).child # "none"

FrameOK(x) ==
  /\ x.pc # "idle" => x.file \in Files
  /\ x.pc \in OnLine => x.line \in 0 .. Len(Program[x.file]) - 1
  /\ x.pc \in {"single", "singleshut"} =>
       x.back \in {"aftersegment", "executed", "stopcheck"}
  /\ x.pc \in Sending => ~ InlineOf(x)
  /\ x.pc \in {"single", "singleshut"} /\ x.back = "aftersegment" =>
       ~ InlineOf(x)
  /\ x.pc = "push" => x.todo \in Pending
  /\ x.pc # "push" => x.todo = << >>
  /\ x.pc = "idle" => x.late["stop"] = -1

(* A move may still be sent before the stop flag is tested again.  Of such  *)
(* moves, and those sent since the flag was set, there is at most one.      *)
CanSend(x) ==
  \/ x.pc \in {"handle", "segment", "push"}
  \/ x.pc = "handled" /\ InlineOf(x)
LateFrame(x) ==
  x.late["stop"] <= 1 /\ (CanSend(x) => x.late["stop"] <= 0)

\* What is known of a call before a step of it, and what is after it.
Before(r) ==
  /\ ChannelsTypeOK
  /\ ctx \in Context /\ lastLine \in Int /\ userLine \in Nat
  /\ run \in Frames /\ FrameOK(run[r])

Kept(r) ==
  /\ ChannelsTypeOK'
  /\ ctx' \in Context /\ lastLine' \in Int /\ userLine' \in Nat
  /\ run' \in Frames
  /\ \A s \in Runs : s # r => run'[s] = run[s]
  /\ FrameOK(run'[r])
  /\ ctx'.stop => ctx.stop /\ (LateFrame(run[r]) => LateFrame(run'[r]))

\* The fields of a frame can be assigned one by one: the stage, ...
LEMMA PutPc ==
  ASSUME NEW f \in Frames, NEW r \in Runs,
         NEW v \in Stages
  PROVE  [f EXCEPT ![r].pc = v] \in Frames
  BY DEF Frames, RunRecords

\* ... the caller, ...
LEMMA PutFrame ==
  ASSUME NEW f \in Frames, NEW r \in Runs,
         NEW v \in {"none", "trial", "real"}
  PROVE  [f EXCEPT ![r].frame = v] \in Frames
  BY DEF Frames, RunRecords

\* ... the line, ...
LEMMA PutLineNo ==
  ASSUME NEW f \in Frames, NEW r \in Runs,
         NEW v \in Int
  PROVE  [f EXCEPT ![r].line = v] \in Frames
  BY DEF Frames, RunRecords

\* ... the actions to be sent, ...
LEMMA PutTodo ==
  ASSUME NEW f \in Frames, NEW r \in Runs,
         NEW v \in Seq(ActionTypes)
  PROVE  [f EXCEPT ![r].todo = v] \in Frames
  BY DEF Frames, RunRecords

\* ... whether it is in the command behind the line, ...
LEMMA PutChild ==
  ASSUME NEW f \in Frames, NEW r \in Runs,
         NEW v \in BOOLEAN
  PROVE  [f EXCEPT ![r].child = v] \in Frames
  BY DEF Frames, RunRecords

\* ... the segment, ...
LEMMA PutSeg ==
  ASSUME NEW f \in Frames, NEW r \in Runs,
         NEW v \in Nat
  PROVE  [f EXCEPT ![r].seg = v] \in Frames
  BY DEF Frames, RunRecords

\* ... the stage after a single block wait, ...
LEMMA PutBack ==
  ASSUME NEW f \in Frames, NEW r \in Runs,
         NEW v \in Stages
  PROVE  [f EXCEPT ![r].back = v] \in Frames
  BY DEF Frames, RunRecords

\* ... the lines executed, ...
LEMMA PutTrace ==
  ASSUME NEW f \in Frames, NEW r \in Runs,
         NEW v \in Seq(Int)
  PROVE  [f EXCEPT ![r].trace = v] \in Frames
  BY DEF Frames, RunRecords

\* ... the moves sent since a stop or a reset, ...
LEMMA PutLate ==
  ASSUME NEW f \in Frames, NEW r \in Runs,
         NEW v \in [{"stop", "reset"} -> -1 .. 2]
  PROVE  [f EXCEPT ![r].late = v] \in Frames
  BY DEF Frames, RunRecords

\* ... or all of it.
LEMMA PutRecord ==
  ASSUME NEW f \in Frames, NEW r \in Runs, NEW x \in RunRecords
  PROVE  [f EXCEPT ![r] = x] \in Frames
  BY DEF Frames

\* A call that is on a line is on a line of its program.
LEMMA LineTyped ==
  ASSUME NEW x \in RunRecords, FrameOK(x), x.pc \in OnLine
  PROVE  LineOf(x) \in Command
<1>1. x.file \in Files
  BY DEF FrameOK, OnLine
<1>2. Program[x.file] \in Seq(Command)
  BY <1>1, ProgramAssumption
<1>3. x.line + 1 \in 1 .. Len(Program[x.file])
  BY <1>2 DEF FrameOK, RunRecords
<1> QED
  BY <1>2, <1>3 DEF LineOf

\* A handler sends one of the sequences in Pending, and neither G53 to G58
\* nor G01 send anything.
LEMMA ActionsPending ==
  ASSUME NEW op
  PROVE  /\ DriverActions(op) = << >> \/ DriverActions(op) \in Pending
         /\ op \in {"offset", "linear"} => DriverActions(op) = << >>
  BY DEF DriverActions, Pending

\* The move is the last action of such a sequence.
LEMMA PendingTyped ==
  ASSUME NEW t \in Pending
  PROVE  /\ t \in Seq(ActionTypes)
         /\ Head(t) \in ActionTypes
         /\ Tail(t) \in Seq(ActionTypes)
         /\ Tail(t) = << >> \/ Tail(t) \in Pending
         /\ Head(t) = "MOVE_TO_POSITION" => Tail(t) = << >>
<1>1. CASE t = <<"SET_WORK_OFFSET", "MOVE_TO_POSITION">>
  <2>1. /\ t \in Seq(ActionTypes) /\ Head(t) = "SET_WORK_OFFSET"
        /\ Tail(t) = <<"MOVE_TO_POSITION">>
        /\ Tail(t) \in Seq(ActionTypes)
    BY <1>1 DEF ActionTypes
  <2> QED
    BY <2>1 DEF Pending, ActionTypes
<1>2. ASSUME NEW a \in ActionTypes, t = <<a>>
      PROVE  /\ t \in Seq(ActionTypes) /\ Head(t) \in ActionTypes
             /\ Tail(t) = << >> /\ Tail(t) \in Seq(ActionTypes)
  BY <1>2
<1> QED
  BY <1>1, <1>2 DEF Pending, ActionTypes

\* One move more after at most none is at most one.
LEMMA OneMoreTyped ==
  ASSUME NEW l \in [{"stop", "reset"} -> -1 .. 2]
  PROVE  /\ OneMore(l) \in [{"stop", "reset"} -> -1 .. 2]
         /\ l["stop"] <= 0 => OneMore(l)["stop"] <= 1
  BY DEF OneMore

\* The trace remains a sequence of lines.
LEMMA Append1Typed ==
  ASSUME NEW t \in Seq(Int), NEW l \in Int
  PROVE  Append1(t, l) \in Seq(Int)
  BY DEF Append1

\* Goto changes the stage of one call.
LEMMA GotoKeeps ==
  ASSUME run \in Frames, NEW r \in Runs, NEW v \in Stages, Goto(r, v)
  PROVE  /\ run' \in Frames
         /\ \A s \in Runs : s # r => run'[s] = run[s]
         /\ run'[r] = [run[r] EXCEPT !.pc = v]
<1>1. run' \in Frames
  BY PutPc DEF Goto
<1>2. \A s \in Runs : s # r => run'[s] = run[s]
  BY DEF Goto, Frames
<1>3. run'[r] = [run[r] EXCEPT !.pc = v]
  BY DEF Goto, Frames
<1> QED BY <1>1, <1>2, <1>3

\* A call of executeCommands changes the stage, the caller and the line of
\* one call.
LEMMA ExecuteKeeps ==
  ASSUME run \in Frames, NEW r \in Runs, NEW fr \in {"none", "trial", "real"},
         NEW n \in Int, Execute(r, fr, n)
  PROVE  /\ run' \in Frames
         /\ \A s \in Runs : s # r => run'[s] = run[s]
         /\ run'[r].pc = "check" /\ run'[r].frame = fr
         /\ run'[r].file = run[r].file /\ run'[r].todo = run[r].todo
         /\ run'[r].late = run[r].late
<1>1. run' \in Frames
  BY PutPc, PutFrame, PutLineNo DEF Execute, Stages
<1>2. \A s \in Runs : s # r => run'[s] = run[s]
  BY DEF Execute, Frames
<1>3. /\ run'[r].pc = "check" /\ run'[r].frame = fr
      /\ run'[r].file = run[r].file /\ run'[r].todo = run[r].todo
      /\ run'[r].late = run[r].late
  BY DEF Execute, Frames, RunRecords
<1> QED
  BY <1>1, <1>2, <1>3

\* Whether a command is behind the line does not depend on the stage.
LEMMA PcKeepsInline ==
  ASSUME NEW x \in RunRecords, NEW v \in Stages
  PROVE  InlineOf([x EXCEPT !.pc = v]) = InlineOf(x)
  BY DEF InlineOf, LineOf, RunRecords

\* WaitExecuteNextCommand goes on at once or by way of the single block wait.
LEMMA WaitKeeps ==
  ASSUME run \in Frames, ctx \in Context, singleOpen \in BOOLEAN,
         NEW r \in Runs, NEW v \in Stages, WaitExecuteNextCommand(r, v)
  PROVE  /\ singleOpen' \in BOOLEAN
         /\ run' \in Frames
         /\ \A s \in Runs : s # r => run'[s] = run[s]
         /\ \E p \in {"single", v} :
              run'[r] = [run[r] EXCEPT !.pc = p, !.back = v]
<1> DEFINE blocks == ~ ctx.trial /\ ctx.single
           p == IF blocks THEN "single" ELSE v
<1>1. p \in Stages /\ p \in {"single", v}
  BY DEF Stages
<1>2. singleOpen' \in BOOLEAN
  BY DEF WaitExecuteNextCommand
<1>3. run' = [run EXCEPT ![r].pc = p, ![r].back = v]
  BY DEF WaitExecuteNextCommand
<1> HIDE DEF p
<1>4. run' \in Frames
  BY <1>1, <1>3, PutPc, PutBack
<1>5. \A s \in Runs : s # r => run'[s] = run[s]
  BY <1>3 DEF Frames
<1>6. run'[r] = [run[r] EXCEPT !.pc = p, !.back = v]
  BY <1>3 DEF Frames
<1> QED
  BY <1>1, <1>2, <1>4, <1>5, <1>6

\* Without a single block wait only the stage changes.
LEMMA ContinueKeeps ==
  ASSUME run \in Frames, singleOpen \in BOOLEAN,
         NEW r \in Runs, NEW v \in Stages, ContinueAt(r, v)
  PROVE  /\ singleOpen' \in BOOLEAN
         /\ run' \in Frames
         /\ \A s \in Runs : s # r => run'[s] = run[s]
         /\ run'[r] = [run[r] EXCEPT !.pc = v]
  BY GotoKeeps DEF ContinueAt

\* A call that is over is in order and has no move to send.
LEMMA IdleTyped ==
  /\ Idle \in RunRecords /\ FrameOK(Idle) /\ LateFrame(Idle)
  /\ \A t \in Seq(Int) : LET x == [Idle EXCEPT !.trace = t]
                         IN  x \in RunRecords /\ FrameOK(x) /\ LateFrame(x)
<1> DEFINE l == [k \in {"stop", "reset"} |-> -1]
<1>1. l \in [{"stop", "reset"} -> -1 .. 2] /\ l["stop"] = -1
  OBVIOUS
<1>2. SUFFICES ASSUME NEW t \in Seq(Int)
               PROVE  /\ [Idle EXCEPT !.trace = t] \in RunRecords
                      /\ FrameOK([Idle EXCEPT !.trace = t])
                      /\ LateFrame([Idle EXCEPT !.trace = t])
  <2>1. Idle = [Idle EXCEPT !.trace = << >>] /\ << >> \in Seq(Int)
    BY DEF Idle
  <2> QED
    BY <2>1
<1> HIDE DEF l
<1>3. Idle = [pc |-> "idle", frame |-> "none", line |-> 0, file |-> "none",
              todo |-> << >>, child |-> FALSE, seg |-> 0, back |-> "idle",
              trace |-> << >>, late |-> l]
  BY DEF Idle, l
<1>4. Idle \in RunRecords
  BY <1>1, <1>3 DEF RunRecords, Stages
<1>5. Idle.pc = "idle" /\ Idle.todo = << >> /\ Idle.late["stop"] = -1
  BY <1>1, <1>3
<1> DEFINE x == [Idle EXCEPT !.trace = t]
<1>6. x \in RunRecords
  BY <1>4 DEF RunRecords
<1>7. x.pc = "idle" /\ x.todo = << >> /\ x.late["stop"] = -1
  BY <1>4, <1>5 DEF RunRecords
<1> HIDE DEF x
<1>8. FrameOK(x)
  BY <1>7 DEF FrameOK, OnLine, Sending
<1>9. LateFrame(x)
  BY <1>7 DEF LateFrame, CanSend
<1> QED
  BY <1>6, <1>8, <1>9 DEF x

----------------------------------------------------------------------------
\* One lemma for each action of a call.

\* Announce: START_EXECUTION may wait for room in the channel.
LEMMA AnnounceKeeps ==
  ASSUME NEW r \in Runs, Before(r), Announce(r)
  PROVE  Kept(r)
<1>1. ChannelsTypeOK'
  BY DriverTyped
  DEF Announce, ChannelsTypeOK, channelVars, completionVars, Before,
      ActionTypes
<1>2. ctx' \in Context /\ lastLine' \in Int /\ userLine' \in Nat
  BY DEF Announce, Before
<1>3. ctx'.stop => ctx.stop
  BY DEF Announce, Before, Context
<1>4. /\ run' \in Frames
      /\ \A s \in Runs : s # r => run'[s] = run[s]
      /\ run'[r] = [run[r] EXCEPT !.pc = "verify"]
  BY GotoKeeps DEF Announce, Before, Stages
<1>5. FrameOK(run'[r])
  BY <1>4
  DEF Announce, FrameOK, At, OnLine, Sending, Before, Frames, RunRecords,
      InlineOf, LineOf
<1>6. LateFrame(run[r]) => LateFrame(run'[r])
  BY <1>4
  DEF Announce, LateFrame, CanSend, Frames, RunRecords, Before, At, InlineOf,
      LineOf
<1> QED
  BY <1>1, <1>2, <1>3, <1>4, <1>5, <1>6 DEF Kept

\* Verify: the trial run begins at line 0 with a cleared stop flag.
LEMMA VerifyKeeps ==
  ASSUME NEW r \in Runs, Before(r), Verify(r)
  PROVE  Kept(r)
<1>0. 0 \in Int
  OBVIOUS
<1>a. run \in Frames /\ Execute(r, "trial", 0)
  BY DEF Verify, Before
<1>1. ChannelsTypeOK'
  BY DEF Verify, ChannelsTypeOK, channelVars, completionVars, Before
<1>2. ctx' \in Context /\ lastLine' \in Int /\ userLine' \in Nat
  <2>1. Reset(ctx) \in Context
    BY ResetTyped DEF Before
  <2>2. [Reset(ctx) EXCEPT !.trial = TRUE] \in Context
    BY <2>1, PutContext
  <2> QED
    BY <2>2 DEF Verify, Before
<1>3. ctx'.stop = FALSE
  <2>1. Reset(ctx) \in Context /\ Reset(ctx).stop = FALSE
    BY ResetTyped DEF Before
  <2>2. [Reset(ctx) EXCEPT !.trial = TRUE].stop = FALSE
    BY <2>1 DEF Context
  <2> QED
    BY <2>2 DEF Verify
<1>4. /\ run' \in Frames
      /\ \A s \in Runs : s # r => run'[s] = run[s]
      /\ run'[r].pc = "check" /\ run'[r].file = run[r].file
      /\ run'[r].todo = run[r].todo /\ run'[r].late = run[r].late
  BY <1>0, <1>a, ExecuteKeeps
<1>5. FrameOK(run'[r])
  BY <1>4
  DEF Verify, FrameOK, At, OnLine, Sending, Before, Frames, RunRecords,
      InlineOf, LineOf
<1> QED
  BY <1>1, <1>2, <1>3, <1>4, <1>5 DEF Kept

\* Launch: the real run begins at NextLineWhenStopped.
LEMMA LaunchKeeps ==
  ASSUME NEW r \in Runs, Before(r), Launch(r)
  PROVE  Kept(r)
<1>0. ctx.resume \in Int
  BY DEF Before, Context
<1>a. run \in Frames /\ Execute(r, "real", ctx.resume)
  BY DEF Launch, Before
<1>1. ChannelsTypeOK'
  BY DEF Launch, ChannelsTypeOK, channelVars, completionVars, Before
<1>2. ctx' \in Context /\ lastLine' \in Int /\ userLine' \in Nat
  BY DEF Launch, Before
<1>3. ctx'.stop => ctx.stop
  BY DEF Launch, Before, Context
<1>4. /\ run' \in Frames
      /\ \A s \in Runs : s # r => run'[s] = run[s]
      /\ run'[r].pc = "check" /\ run'[r].file = run[r].file
      /\ run'[r].todo = run[r].todo /\ run'[r].late = run[r].late
  BY <1>0, <1>a, ExecuteKeeps
<1>5. FrameOK(run'[r])
  BY <1>4
  DEF Launch, FrameOK, At, OnLine, Sending, Before, Frames, RunRecords,
      InlineOf, LineOf
<1>6. LateFrame(run[r]) => LateFrame(run'[r])
  BY <1>4
  DEF Launch, LateFrame, CanSend, Frames, RunRecords, Before, At, InlineOf,
      LineOf
<1> QED
  BY <1>1, <1>2, <1>3, <1>4, <1>5, <1>6 DEF Kept

\* Leave: executeCommands returns.
LEMMA LeaveKeeps ==
  ASSUME NEW r \in Runs, Before(r), Leave(r)
  PROVE  Kept(r)
<1>1. ChannelsTypeOK'
  BY DEF Leave, ChannelsTypeOK, channelVars, completionVars, Before
<1>2. ctx' \in Context /\ lastLine' \in Int /\ userLine' \in Nat
  BY DEF Leave, Before
<1>3. ctx'.stop => ctx.stop
  BY DEF Leave, Before, Context
<1>4. /\ run' \in Frames
      /\ \A s \in Runs : s # r => run'[s] = run[s]
      /\ run'[r] = [run[r] EXCEPT !.pc = "return"]
  BY GotoKeeps DEF Leave, Before, Stages
<1>5. FrameOK(run'[r])
  BY <1>4
  DEF Leave, FrameOK, At, OnLine, Sending, Before, Frames, RunRecords,
      InlineOf, LineOf
<1>6. LateFrame(run[r]) => LateFrame(run'[r])
  BY <1>4
  DEF Leave, LateFrame, CanSend, Frames, RunRecords, Before, At, InlineOf,
      LineOf
<1> QED
  BY <1>1, <1>2, <1>3, <1>4, <1>5, <1>6 DEF Kept

\* Check: a line begins, and only while the stop flag is clear.
LEMMA CheckKeeps ==
  ASSUME NEW r \in Runs, Before(r), Check(r)
  PROVE  Kept(r)
<1>1. ChannelsTypeOK'
  BY DEF Check, ChannelsTypeOK, channelVars, completionVars, Before
<1>2. ctx' \in Context /\ lastLine' \in Int /\ userLine' \in Nat
  BY PutContext DEF Check, Before, Frames, RunRecords, At
<1>3. ctx'.stop => ctx.stop /\ FALSE
  BY PutContext DEF Check, Before, Context, Frames, RunRecords, At
<1>4. run' \in Frames
  <2> DEFINE f == [run EXCEPT ![r].pc = "handle"]
             g == [f EXCEPT ![r].child = FALSE]
             t == IF run[r].frame = "real" /\ Marked(Line(r))
                  THEN Append1(run[r].trace, run[r].line) ELSE run[r].trace
  <2>1. f \in Frames
    BY PutPc DEF Before, Stages
  <2>2. g \in Frames
    BY <2>1, PutChild
  <2>3. t \in Seq(Int)
    BY Append1Typed DEF Before, Frames, RunRecords
  <2>4. g[r].trace = run[r].trace
    BY DEF Before, Frames, RunRecords
  <2> HIDE DEF f, g, t
  <2>5. [g EXCEPT ![r].trace = t] \in Frames
    BY <2>2, <2>3, PutTrace
  <2> QED
    BY <2>4, <2>5 DEF Check, f, g, t
<1>5. \A s \in Runs : s # r => run'[s] = run[s]
  BY DEF Check, Before, Frames
<1>6. FrameOK(run'[r])
  BY
  DEF Check, FrameOK, At, OnLine, Sending, Before, Frames, RunRecords,
      InlineOf, LineOf, InRange
<1> QED
  BY <1>1, <1>2, <1>3, <1>4, <1>5, <1>6 DEF Kept

\* HandleSilent: a handler that sends nothing.
LEMMA HandleSilentKeeps ==
  ASSUME NEW r \in Runs, Before(r), HandleSilent(r)
  PROVE  Kept(r)
<1>1. ChannelsTypeOK'
  BY DEF HandleSilent, ChannelsTypeOK, channelVars, completionVars, Before
<1>2. ctx' \in Context /\ lastLine' \in Int /\ userLine' \in Nat
  BY SilentTyped, LineTyped
  DEF HandleSilent, Before, OnLine, LineOf, Line, At, Frames
<1>3. ctx'.stop => ctx.stop
  BY SilentTyped, LineTyped
  DEF HandleSilent, Before, Context, OnLine, LineOf, Line, At, Frames
<1>4. run' \in Frames
  <2> DEFINE f == [run EXCEPT ![r].pc = "handled"]
             t == IF CurrentOp(r) = "restart" THEN << >> ELSE run[r].trace
  <2>1. f \in Frames
    BY PutPc DEF Before, Stages
  <2>2. t \in Seq(Int)
    BY DEF Before, Frames, RunRecords
  <2>3. f[r].trace = run[r].trace
    BY DEF Before, Frames, RunRecords
  <2> HIDE DEF f, t
  <2>4. [f EXCEPT ![r].trace = t] \in Frames
    BY <2>1, <2>2, PutTrace
  <2> QED
    BY <2>3, <2>4 DEF HandleSilent, f, t
<1>5. \A s \in Runs : s # r => run'[s] = run[s]
  BY DEF HandleSilent, Before, Frames
<1>6. FrameOK(run'[r])
  BY
  DEF HandleSilent, FrameOK, At, OnLine, Sending, Before, Frames, RunRecords,
      InlineOf, LineOf
<1>7. LateFrame(run[r]) => LateFrame(run'[r])
  BY
  DEF HandleSilent, LateFrame, CanSend, Frames, RunRecords, Before, At,
      InlineOf, LineOf
<1> QED
  BY <1>1, <1>2, <1>3, <1>4, <1>5, <1>6, <1>7 DEF Kept

\* HandleRefused: the error is set, and nothing else.
LEMMA HandleRefusedKeeps ==
  ASSUME NEW r \in Runs, Before(r), HandleRefused(r)
  PROVE  Kept(r)
<1>1. ChannelsTypeOK'
  BY DEF HandleRefused, ChannelsTypeOK, channelVars, completionVars, Before
<1>2. ctx' \in Context /\ lastLine' \in Int /\ userLine' \in Nat
  BY DEF HandleRefused, Before, Context
<1>3. ctx'.stop => ctx.stop
  BY DEF HandleRefused, Before, Context
<1>4. run' \in Frames
  BY PutPc DEF HandleRefused, Goto, Before, Stages
<1>5. \A s \in Runs : s # r => run'[s] = run[s]
  BY DEF HandleRefused, Goto, Before, Frames
<1>6. FrameOK(run'[r])
  BY
  DEF HandleRefused, Goto, FrameOK, At, OnLine, Sending, Before, Frames,
      RunRecords, InlineOf, LineOf
<1>7. LateFrame(run[r]) => LateFrame(run'[r])
  BY
  DEF HandleRefused, Goto, LateFrame, CanSend, Frames, RunRecords, Before, At,
      InlineOf, LineOf
<1> QED
  BY <1>1, <1>2, <1>3, <1>4, <1>5, <1>6, <1>7 DEF Kept

\* HandleDivide: G16 or G17 begins, and nothing is behind it on its line.
LEMMA HandleDivideKeeps ==
  ASSUME NEW r \in Runs, Before(r), HandleDivide(r)
  PROVE  Kept(r)
<1>1. ChannelsTypeOK'
  BY DEF HandleDivide, ChannelsTypeOK, channelVars, completionVars, Before
<1>2. ctx' \in Context /\ lastLine' \in Int /\ userLine' \in Nat
  BY DivideBeginsTyped, LineTyped
  DEF HandleDivide, Before, OnLine, LineOf, Line, At, Frames
<1>3. ctx'.stop => ctx.stop
  BY DivideBeginsTyped, LineTyped
  DEF HandleDivide, Before, Context, OnLine, LineOf, Line, At, Frames
<1>4. run' \in Frames
  <2>1. Line(r) \in Command
    BY LineTyped DEF HandleDivide, Before, At, OnLine, Frames, LineOf, Line
  <2>2. DivideBegins(Line(r), ctx).loopCtr \in Nat
    BY <2>1, DivideBeginsTyped DEF Before, Context
  <2> QED
    BY <2>2, PutPc, PutSeg DEF HandleDivide, Before, Stages
<1>5. \A s \in Runs : s # r => run'[s] = run[s]
  BY DEF HandleDivide, Before, Frames
<1>6. FrameOK(run'[r])
  BY
  DEF HandleDivide, FrameOK, At, OnLine, Sending, Before, Frames, RunRecords,
      InlineOf, LineOf, CurrentOp, Line
<1>7. LateFrame(run[r]) => LateFrame(run'[r])
  BY
  DEF HandleDivide, LateFrame, CanSend, Frames, RunRecords, Before, At,
      InlineOf, LineOf, CurrentOp, Line
<1> QED
  BY <1>1, <1>2, <1>3, <1>4, <1>5, <1>6, <1>7 DEF Kept

\* HandleSending: a handler that sends, and nothing is behind it on its line.
LEMMA HandleSendingKeeps ==
  ASSUME NEW r \in Runs, Before(r), HandleSending(r)
  PROVE  Kept(r)
<1>1. ChannelsTypeOK'
  BY DEF HandleSending, ChannelsTypeOK, channelVars, completionVars, Before
<1>2. ctx' \in Context /\ lastLine' \in Int /\ userLine' \in Nat
  BY SetRunModeTyped DEF HandleSending, Before
<1>3. ctx'.stop => ctx.stop
  BY SetRunModeTyped DEF HandleSending, Before, Context
<1>4. run' \in Frames
  BY PutPc, PutTodo, ActionsPending, PendingTyped
  DEF HandleSending, Before, Stages, SendsActions
<1>5. \A s \in Runs : s # r => run'[s] = run[s]
  BY DEF HandleSending, Before, Frames
<1>6. FrameOK(run'[r])
  <2>1. ~ InlineOf(run[r])
    BY ActionsPending
    DEF HandleSending, SendsActions, CurrentOp, InlineOf, Line, LineOf
  <2>2. DriverActions(CurrentOp(r)) \in Pending
    BY ActionsPending DEF HandleSending, SendsActions
  <2>3. /\ run'[r].pc = "push"
        /\ run'[r].todo = DriverActions(CurrentOp(r))
        /\ run'[r].child = run[r].child
        /\ run'[r].file = run[r].file
        /\ run'[r].line = run[r].line
    BY DEF HandleSending, Before, Frames, RunRecords
  <2>4. ~ InlineOf(run'[r])
    BY <2>1, <2>3 DEF InlineOf, LineOf
  <2>5. run[r].pc = "handle" /\ FrameOK(run[r])
    BY DEF HandleSending, At, Before
  <2> QED
    BY <2>2, <2>3, <2>4, <2>5 DEF FrameOK, OnLine, Sending
<1>7. LateFrame(run[r]) => LateFrame(run'[r])
  BY
  DEF HandleSending, LateFrame, CanSend, Frames, RunRecords, Before, At,
      InlineOf, LineOf
<1> QED
  BY <1>1, <1>2, <1>3, <1>4, <1>5, <1>6, <1>7 DEF Kept

\* NextSegment: the next segment of a division.
LEMMA NextSegmentKeeps ==
  ASSUME NEW r \in Runs, Before(r), NextSegment(r)
  PROVE  Kept(r)
<1>1. ChannelsTypeOK'
  BY DEF NextSegment, ChannelsTypeOK, channelVars, completionVars, Before
<1>2. ctx' \in Context /\ lastLine' \in Int /\ userLine' \in Nat
  BY PutContext DEF NextSegment, Before, Frames, RunRecords
<1>3. ctx'.stop => ctx.stop
  BY PutContext DEF NextSegment, Before, Context, Frames, RunRecords
<1>4. run' \in Frames
  <2> DEFINE f == [run EXCEPT ![r].pc = "push"]
             g == [f EXCEPT ![r].seg = run[r].seg + 1]
  <2>0. f \in Frames
    BY PutPc DEF Before, Stages
  <2>1. f \in Frames /\ f[r].seg = run[r].seg
    BY <2>0 DEF Before, Frames, RunRecords
  <2>2. run[r].seg + 1 \in Nat
    BY DEF Before, Frames, RunRecords
  <2> HIDE DEF f
  <2>3. g \in Frames
    BY <2>1, <2>2, PutSeg
  <2> HIDE DEF g
  <2>4. DriverActions("divide") \in Seq(ActionTypes)
    BY DEF DriverActions, ActionTypes
  <2>5. [g EXCEPT ![r].todo = DriverActions("divide")] \in Frames
    BY <2>3, <2>4, PutTodo
  <2> QED
    BY <2>1, <2>5 DEF NextSegment, f, g
<1>5. \A s \in Runs : s # r => run'[s] = run[s]
  BY DEF NextSegment, Before, Frames
<1>6. FrameOK(run'[r])
  BY
  DEF NextSegment, FrameOK, At, OnLine, Sending, Before, Frames, RunRecords,
      InlineOf, LineOf, DriverActions, Pending
<1>7. LateFrame(run[r]) => LateFrame(run'[r])
  BY
  DEF NextSegment, LateFrame, CanSend, Frames, RunRecords, Before, At,
      InlineOf, LineOf
<1> QED
  BY <1>1, <1>2, <1>3, <1>4, <1>5, <1>6, <1>7 DEF Kept

\* NoMoreSegments: the end of a division.
LEMMA NoMoreSegmentsKeeps ==
  ASSUME NEW r \in Runs, Before(r), NoMoreSegments(r)
  PROVE  Kept(r)
<1>1. ChannelsTypeOK'
  BY DEF NoMoreSegments, ChannelsTypeOK, channelVars, completionVars, Before
<1>2. ctx' \in Context /\ lastLine' \in Int /\ userLine' \in Nat
  BY DivideEndsTyped DEF NoMoreSegments, Before
<1>3. ctx'.stop => ctx.stop
  BY DivideEndsTyped DEF NoMoreSegments, Before, Context
<1>4. /\ run' \in Frames
      /\ \A s \in Runs : s # r => run'[s] = run[s]
      /\ run'[r] = [run[r] EXCEPT !.pc = "handled"]
  BY GotoKeeps DEF NoMoreSegments, Before, Stages
<1>5. FrameOK(run'[r])
  BY <1>4
  DEF NoMoreSegments, FrameOK, At, OnLine, Sending, Before, Frames,
      RunRecords, InlineOf, LineOf
<1>6. LateFrame(run[r]) => LateFrame(run'[r])
  BY <1>4
  DEF NoMoreSegments, LateFrame, CanSend, Frames, RunRecords, Before, At,
      InlineOf, LineOf
<1> QED
  BY <1>1, <1>2, <1>3, <1>4, <1>5, <1>6 DEF Kept

\* WaitTest: WaitTillCmdComplete tests the flag.
LEMMA WaitTestKeeps ==
  ASSUME NEW r \in Runs, Before(r), WaitTest(r)
  PROVE  Kept(r)
<1>1. ChannelsTypeOK'
  BY DEF WaitTest, ChannelsTypeOK, channelVars, completionVars, Before
<1>2. ctx' \in Context /\ lastLine' \in Int /\ userLine' \in Nat
  BY DEF WaitTest, Before
<1>3. ctx'.stop => ctx.stop
  BY DEF WaitTest, Before, Context
<1>4. /\ run' \in Frames
      /\ \A s \in Runs : s # r => run'[s] = run[s]
      /\ run'[r] = [run[r] EXCEPT !.pc = (IF open THEN "receive" ELSE "acted")]
  BY GotoKeeps DEF WaitTest, Before, Stages
<1>5. FrameOK(run'[r])
  BY <1>4
  DEF WaitTest, FrameOK, At, OnLine, Sending, Before, Frames, RunRecords,
      InlineOf, LineOf
<1>6. LateFrame(run[r]) => LateFrame(run'[r])
  BY <1>4
  DEF WaitTest, LateFrame, CanSend, Frames, RunRecords, Before, At, InlineOf,
      LineOf
<1> QED
  BY <1>1, <1>2, <1>3, <1>4, <1>5, <1>6 DEF Kept

\* WaitReceive: WaitTillCmdComplete receives.
LEMMA WaitReceiveKeeps ==
  ASSUME NEW r \in Runs, Before(r), WaitReceive(r)
  PROVE  Kept(r)
<1>1. ChannelsTypeOK'
  BY DEF WaitReceive, ChannelsTypeOK, channelVars, completionVars, Before
<1>2. ctx' \in Context /\ lastLine' \in Int /\ userLine' \in Nat
  BY DEF WaitReceive, Before
<1>3. ctx'.stop => ctx.stop
  BY DEF WaitReceive, Before, Context
<1>4. /\ run' \in Frames
      /\ \A s \in Runs : s # r => run'[s] = run[s]
      /\ run'[r] = [run[r] EXCEPT !.pc = "shut"]
  BY GotoKeeps DEF WaitReceive, Before, Stages
<1>5. FrameOK(run'[r])
  BY <1>4
  DEF WaitReceive, FrameOK, At, OnLine, Sending, Before, Frames, RunRecords,
      InlineOf, LineOf
<1>6. LateFrame(run[r]) => LateFrame(run'[r])
  BY <1>4
  DEF WaitReceive, LateFrame, CanSend, Frames, RunRecords, Before, At,
      InlineOf, LineOf
<1> QED
  BY <1>1, <1>2, <1>3, <1>4, <1>5, <1>6 DEF Kept

\* WaitShut: WaitTillCmdComplete clears the flag.
LEMMA WaitShutKeeps ==
  ASSUME NEW r \in Runs, Before(r), WaitShut(r)
  PROVE  Kept(r)
<1>1. ChannelsTypeOK'
  BY DEF WaitShut, ChannelsTypeOK, channelVars, completionVars, Before
<1>2. ctx' \in Context /\ lastLine' \in Int /\ userLine' \in Nat
  BY DEF WaitShut, Before
<1>3. ctx'.stop => ctx.stop
  BY DEF WaitShut, Before, Context
<1>4. /\ run' \in Frames
      /\ \A s \in Runs : s # r => run'[s] = run[s]
      /\ run'[r] = [run[r] EXCEPT !.pc = "acted"]
  BY GotoKeeps DEF WaitShut, Before, Stages
<1>5. FrameOK(run'[r])
  BY <1>4
  DEF WaitShut, FrameOK, At, OnLine, Sending, Before, Frames, RunRecords,
      InlineOf, LineOf
<1>6. LateFrame(run[r]) => LateFrame(run'[r])
  BY <1>4
  DEF WaitShut, LateFrame, CanSend, Frames, RunRecords, Before, At, InlineOf,
      LineOf
<1> QED
  BY <1>1, <1>2, <1>3, <1>4, <1>5, <1>6 DEF Kept

\* SingleShut: a single block wait ends.
LEMMA SingleShutKeeps ==
  ASSUME NEW r \in Runs, Before(r), SingleShut(r)
  PROVE  Kept(r)
<1>1. ChannelsTypeOK'
  BY DEF SingleShut, ChannelsTypeOK, channelVars, completionVars, Before
<1>2. ctx' \in Context /\ lastLine' \in Int /\ userLine' \in Nat
  BY DEF SingleShut, Before
<1>3. ctx'.stop => ctx.stop
  BY DEF SingleShut, Before, Context
<1>4. /\ run' \in Frames
      /\ \A s \in Runs : s # r => run'[s] = run[s]
      /\ run'[r] = [run[r] EXCEPT !.pc = run[r].back]
  <2>1. run[r].back \in Stages
    BY DEF Before, Frames, RunRecords
  <2>2. run \in Frames /\ Goto(r, run[r].back)
    BY DEF SingleShut, Before
  <2> QED
    BY <2>1, <2>2, GotoKeeps
<1>5. FrameOK(run'[r])
  BY <1>4
  DEF SingleShut, FrameOK, At, OnLine, Sending, Before, Frames, RunRecords,
      InlineOf, LineOf
<1>6. LateFrame(run[r]) => LateFrame(run'[r])
  BY <1>4
  DEF SingleShut, LateFrame, CanSend, Frames, RunRecords, Before, At,
      InlineOf, LineOf, FrameOK
<1> QED
  BY <1>1, <1>2, <1>3, <1>4, <1>5, <1>6 DEF Kept

\* Finished: a handler that sent is done; nothing more follows on its line.
LEMMA FinishedKeeps ==
  ASSUME NEW r \in Runs, Before(r), Finished(r)
  PROVE  Kept(r)
<1>1. ChannelsTypeOK'
  BY DEF Finished, ChannelsTypeOK, channelVars, completionVars, Before
<1>2. ctx' \in Context /\ lastLine' \in Int /\ userLine' \in Nat
  BY MoveNextLineTyped DEF Finished, Before
<1>3. ctx'.stop => ctx.stop
  BY MoveNextLineTyped DEF Finished, Before, Context
<1>4. /\ run' \in Frames
      /\ \A s \in Runs : s # r => run'[s] = run[s]
      /\ run'[r] = [run[r] EXCEPT !.pc = "handled"]
  BY GotoKeeps DEF Finished, Before, Stages
<1>5. FrameOK(run'[r])
  BY <1>4
  DEF Finished, FrameOK, At, OnLine, Sending, Before, Frames, RunRecords,
      InlineOf, LineOf
<1>6. LateFrame(run[r]) => LateFrame(run'[r])
  <2>0. run[r].pc \in Sending /\ FrameOK(run[r])
    BY DEF Finished, At, Before, Sending
  <2>1. ~ InlineOf(run[r])
    BY <2>0 DEF FrameOK
  <2>2. ~ InlineOf(run'[r])
    BY <1>4, <2>1, PcKeepsInline DEF Before, Frames, Stages
  <2>3. run'[r].pc = "handled" /\ run'[r].late = run[r].late
    BY <1>4 DEF Before, Frames, RunRecords
  <2> QED
    BY <2>2, <2>3 DEF LateFrame, CanSend
<1> QED
  BY <1>1, <1>2, <1>3, <1>4, <1>5, <1>6 DEF Kept

\* HandlerFailed: the handler set Err.
LEMMA HandlerFailedKeeps ==
  ASSUME NEW r \in Runs, Before(r), HandlerFailed(r)
  PROVE  Kept(r)
<1>1. ChannelsTypeOK'
  BY DEF HandlerFailed, ChannelsTypeOK, channelVars, completionVars, Before
<1>2. ctx' \in Context /\ lastLine' \in Int /\ userLine' \in Nat
  BY DEF HandlerFailed, Before
<1>3. ctx'.stop => ctx.stop
  BY DEF HandlerFailed, Before, Context
<1>4. /\ run' \in Frames
      /\ \A s \in Runs : s # r => run'[s] = run[s]
      /\ run'[r] = [run[r] EXCEPT !.pc = "fail"]
  BY GotoKeeps DEF HandlerFailed, Before, Stages
<1>5. FrameOK(run'[r])
  BY <1>4
  DEF HandlerFailed, FrameOK, At, OnLine, Sending, Before, Frames, RunRecords,
      InlineOf, LineOf
<1>6. LateFrame(run[r]) => LateFrame(run'[r])
  BY <1>4
  DEF HandlerFailed, LateFrame, CanSend, Frames, RunRecords, Before, At,
      InlineOf, LineOf
<1> QED
  BY <1>1, <1>2, <1>3, <1>4, <1>5, <1>6 DEF Kept

\* SegmentFinished: a segment is done.
LEMMA SegmentFinishedKeeps ==
  ASSUME NEW r \in Runs, Before(r), SegmentFinished(r)
  PROVE  Kept(r)
<1>0. singleOpen \in BOOLEAN /\ run \in Frames /\ ctx \in Context
  BY DEF Before, ChannelsTypeOK
<1>a. /\ singleOpen' \in BOOLEAN
      /\ run' \in Frames
      /\ \A s \in Runs : s # r => run'[s] = run[s]
      /\ \/ \E p \in {"single", "aftersegment"} :
              run'[r] = [run[r] EXCEPT !.pc = p, !.back = "aftersegment"]
         \/ run'[r] = [run[r] EXCEPT !.pc = "aftersegment"]
  <2>1. CASE WaitExecuteNextCommand(r, "aftersegment")
    BY <1>0, <2>1, WaitKeeps DEF Stages
  <2>2. CASE ContinueAt(r, "aftersegment")
    BY <1>0, <2>2, ContinueKeeps DEF Stages
  <2> QED
    BY <2>1, <2>2 DEF SegmentFinished
<1>1. ChannelsTypeOK'
  BY <1>a
  DEF SegmentFinished, ChannelsTypeOK, channelVars, completionVars, Before
<1>2. ctx' \in Context /\ lastLine' \in Int /\ userLine' \in Nat
  BY DEF SegmentFinished, Before
<1>3. ctx'.stop => ctx.stop
  BY DEF SegmentFinished, Before, Context
<1>5. FrameOK(run'[r])
  BY <1>a
  DEF SegmentFinished, FrameOK, At, OnLine, Sending, Before, Frames,
      RunRecords, InlineOf, LineOf, SegmentFinished
<1>6. LateFrame(run[r]) => LateFrame(run'[r])
  BY <1>a
  DEF SegmentFinished, LateFrame, CanSend, Frames, RunRecords, Before, At,
      InlineOf, LineOf
<1> QED
  BY <1>1, <1>2, <1>3, <1>a, <1>5, <1>6 DEF Kept

\* AfterSegment: the stop flag is tested after a segment.
LEMMA AfterSegmentKeeps ==
  ASSUME NEW r \in Runs, Before(r), AfterSegment(r)
  PROVE  Kept(r)
<1>1. ChannelsTypeOK'
  BY DEF AfterSegment, ChannelsTypeOK, channelVars, completionVars, Before
<1>2. ctx' \in Context /\ lastLine' \in Int /\ userLine' \in Nat
  BY DivideEndsTyped DEF AfterSegment, Before
<1>3. ctx'.stop => ctx.stop
  BY DivideEndsTyped DEF AfterSegment, Before, Context
<1>4. /\ run' \in Frames
      /\ \A s \in Runs : s # r => run'[s] = run[s]
      /\ run'[r] = [run[r] EXCEPT
                       !.pc = (IF ctx.stop THEN "handled" ELSE "segment")]
  BY GotoKeeps DEF AfterSegment, Before, Stages
<1>5. FrameOK(run'[r])
  BY <1>4
  DEF AfterSegment, FrameOK, At, OnLine, Sending, Before, Frames, RunRecords,
      InlineOf, LineOf
<1>6. LateFrame(run[r]) /\ ctx'.stop => LateFrame(run'[r])
  <2>1. ctx.stop => ~ InlineOf(run'[r])
    BY <1>4, PcKeepsInline
    DEF AfterSegment, At, Before, FrameOK, Sending, Frames, Stages
  <2>2. /\ run'[r].pc = IF ctx.stop THEN "handled" ELSE "segment"
        /\ run'[r].late = run[r].late
    BY <1>4 DEF Before, Frames, RunRecords
  <2> QED
    BY <1>3, <2>1, <2>2 DEF LateFrame, CanSend
<1> QED
  BY <1>1, <1>2, <1>3, <1>4, <1>5, <1>6 DEF Kept

\* Recurse: the next line.
LEMMA RecurseKeeps ==
  ASSUME NEW r \in Runs, Before(r), Recurse(r)
  PROVE  Kept(r)
<1>0. run[r].frame \in {"none", "trial", "real"} /\ ctx.next \in Int
  BY DEF Before, Frames, RunRecords, Context
<1>a. run \in Frames /\ Execute(r, run[r].frame, ctx.next)
  BY DEF Recurse, Before
<1>1. ChannelsTypeOK'
  BY DEF Recurse, ChannelsTypeOK, channelVars, completionVars, Before
<1>2. ctx' \in Context /\ lastLine' \in Int /\ userLine' \in Nat
  BY DEF Recurse, Before
<1>3. ctx'.stop => ctx.stop
  BY DEF Recurse, Before, Context
<1>4. /\ run' \in Frames
      /\ \A s \in Runs : s # r => run'[s] = run[s]
      /\ run'[r].pc = "check" /\ run'[r].file = run[r].file
      /\ run'[r].todo = run[r].todo /\ run'[r].late = run[r].late
  BY <1>0, <1>a, ExecuteKeeps
<1>5. FrameOK(run'[r])
  BY <1>4
  DEF Recurse, FrameOK, At, OnLine, Sending, Before, Frames, RunRecords,
      InlineOf, LineOf
<1>6. LateFrame(run[r]) => LateFrame(run'[r])
  BY <1>4
  DEF Recurse, LateFrame, CanSend, Frames, RunRecords, Before, At, InlineOf,
      LineOf
<1> QED
  BY <1>1, <1>2, <1>3, <1>4, <1>5, <1>6 DEF Kept

\* TrialReturns: the trial run ends.
LEMMA TrialReturnsKeeps ==
  ASSUME NEW r \in Runs, Before(r), TrialReturns(r)
  PROVE  Kept(r)
<1>1. ChannelsTypeOK'
  BY DEF TrialReturns, ChannelsTypeOK, channelVars, completionVars, Before
<1>2. ctx' \in Context /\ lastLine' \in Int /\ userLine' \in Nat
  <2> DEFINE d == [ctx EXCEPT !.trial = FALSE]
  <2>1. d \in Context /\ ctx' = Reset(d)
    BY PutContext DEF TrialReturns, Before
  <2> HIDE DEF d
  <2>2. ctx' \in Context
    BY <2>1, ResetTyped
  <2> QED
    BY <2>2 DEF TrialReturns, Before
<1>3. ctx'.stop => ctx.stop
  <2> DEFINE d == [ctx EXCEPT !.trial = FALSE]
  <2>1. d \in Context /\ ctx' = Reset(d)
    BY PutContext DEF TrialReturns, Before
  <2> HIDE DEF d
  <2> QED
    BY <2>1, ResetTyped
<1>4. /\ run' \in Frames
      /\ \A s \in Runs : s # r => run'[s] = run[s]
      /\ run'[r] = [run[r] EXCEPT !.pc = "launch"]
  BY GotoKeeps DEF TrialReturns, Before, Stages
<1>5. FrameOK(run'[r])
  BY <1>4
  DEF TrialReturns, FrameOK, At, OnLine, Sending, Before, Frames, RunRecords,
      InlineOf, LineOf
<1>6. LateFrame(run[r]) => LateFrame(run'[r])
  BY <1>4
  DEF TrialReturns, LateFrame, CanSend, Frames, RunRecords, Before, At,
      InlineOf, LineOf
<1> QED
  BY <1>1, <1>2, <1>3, <1>4, <1>5, <1>6 DEF Kept

\* PushAction: one action is sent; the move is the last of its sequence.
LEMMA PushActionKeeps ==
  ASSUME NEW r \in Runs, Before(r), PushAction(r)
  PROVE  Kept(r)
<1>0. /\ run[r].todo \in Pending
      /\ Head(run[r].todo) \in ActionTypes
      /\ Tail(run[r].todo) = << >> \/ Tail(run[r].todo) \in Pending
      /\ Head(run[r].todo) = "MOVE_TO_POSITION" => Tail(run[r].todo) = << >>
  <2>1. run[r].todo \in Pending
    BY DEF PushAction, At, Before, FrameOK
  <2> QED
    BY <2>1, PendingTyped
<1> DEFINE a == Head(run[r].todo)
           t == Tail(run[r].todo)
           p == IF t = << >> THEN "wait" ELSE "push"
           l == IF a = "MOVE_TO_POSITION" THEN OneMore(run[r].late)
                                          ELSE run[r].late
<1>a. /\ p \in Stages /\ t \in Seq(ActionTypes)
      /\ l \in [{"stop", "reset"} -> -1 .. 2]
      /\ NotifyMotorDriver(a)
      /\ run' = [run EXCEPT ![r].todo = t, ![r].pc = p, ![r].late = l]
  <2>1. p \in Stages
    BY DEF Stages
  <2>2. t \in Seq(ActionTypes)
    BY <1>0, PendingTyped
  <2>3. run[r].late \in [{"stop", "reset"} -> -1 .. 2]
    BY DEF Before, Frames, RunRecords
  <2>4. l \in [{"stop", "reset"} -> -1 .. 2]
    BY <2>3, OneMoreTyped
  <2>5. run' = [run EXCEPT ![r].todo = t, ![r].pc = p, ![r].late = l]
    BY DEF PushAction, Before, Frames, RunRecords
  <2> QED
    BY <2>1, <2>2, <2>4, <2>5 DEF PushAction
<1>b. run[r].late["stop"] <= 0 =>
        l["stop"] <= 1 /\ (p # "wait" => l["stop"] <= 0)
  <2>1. run[r].late \in [{"stop", "reset"} -> -1 .. 2]
    BY DEF Before, Frames, RunRecords
  <2>2. CASE a = "MOVE_TO_POSITION"
    BY <1>0, <2>1, <2>2, OneMoreTyped
  <2>3. CASE a # "MOVE_TO_POSITION"
    BY <2>1, <2>3
  <2> QED
    BY <2>2, <2>3
<1>c. (p = "wait" /\ t = << >>) \/ (p = "push" /\ t \in Pending)
  BY <1>0
<1> HIDE DEF a, t, p, l
<1>1. ChannelsTypeOK'
  BY <1>0, <1>a, DriverTyped
  DEF PushAction, ChannelsTypeOK, channelVars, completionVars, Before, a
<1>2. ctx' \in Context /\ lastLine' \in Int /\ userLine' \in Nat
  BY DEF PushAction, Before
<1>3. ctx'.stop => ctx.stop
  BY DEF PushAction, Before, Context
<1>4. run' \in Frames
  BY <1>a, PutTodo, PutPc, PutLate DEF Before
<1>5. \A s \in Runs : s # r => run'[s] = run[s]
  BY <1>a DEF Before, Frames
<1>d. run'[r] = [run[r] EXCEPT !.todo = t, !.pc = p, !.late = l]
  BY <1>a DEF Before, Frames
<1>6. FrameOK(run'[r])
  <2>1. run[r].pc = "push" /\ FrameOK(run[r])
    BY DEF PushAction, At, Before
  <2>2. /\ run'[r].pc = p /\ run'[r].todo = t
        /\ run'[r].child = run[r].child /\ run'[r].file = run[r].file
        /\ run'[r].line = run[r].line
    BY <1>d DEF Before, Frames, RunRecords
  <2>3. ~ InlineOf(run'[r])
    BY <2>1, <2>2 DEF FrameOK, Sending, InlineOf, LineOf
  <2> QED
    BY <1>c, <2>1, <2>2, <2>3 DEF FrameOK, OnLine, Sending
<1>7. LateFrame(run[r]) => LateFrame(run'[r])
  <2>1. run'[r].pc = p /\ run'[r].late = l
    BY <1>d DEF Before, Frames, RunRecords
  <2>2. LateFrame(run[r]) => run[r].late["stop"] <= 0
    BY DEF LateFrame, CanSend, PushAction, At
  <2>3. CanSend(run'[r]) => p # "wait"
    BY <2>1 DEF CanSend
  <2> QED
    BY <1>b, <1>c, <2>1, <2>2, <2>3 DEF LateFrame
<1> QED
  BY <1>1, <1>2, <1>3, <1>4, <1>5, <1>6, <1>7 DEF Kept

\* ChildCommand: the command behind the line, of a line that sent nothing, or
\* after it.
LEMMA ChildCommandKeeps ==
  ASSUME NEW r \in Runs, Before(r), ChildCommand(r)
  PROVE  Kept(r)
<1>0. singleOpen \in BOOLEAN /\ run \in Frames /\ ctx \in Context
  BY DEF Before, ChannelsTypeOK
<1>a. /\ singleOpen' \in BOOLEAN
      /\ run' \in Frames
      /\ \A s \in Runs : s # r => run'[s] = run[s]
      /\ \/ /\ InlineOf(run[r])
            /\ run'[r] = [run[r] EXCEPT !.pc = "handle", !.child = TRUE]
         \/ \E p \in {"single", "executed"} :
              run'[r] = [run[r] EXCEPT !.pc = p, !.back = "executed"]
         \/ run'[r] = [run[r] EXCEPT !.pc = "executed"]
  <2>1. CASE /\ Inline(r) /\ UNCHANGED singleOpen
             /\ run' = [run EXCEPT ![r].pc = "handle", ![r].child = TRUE]
    <3>1. run' \in Frames
      BY <1>0, <2>1, PutPc, PutChild DEF Stages
    <3>2. /\ \A s \in Runs : s # r => run'[s] = run[s]
          /\ run'[r] = [run[r] EXCEPT !.pc = "handle", !.child = TRUE]
      BY <1>0, <2>1 DEF Frames
    <3> QED
      BY <1>0, <2>1, <3>1, <3>2 DEF Inline, InlineOf, Line, LineOf
  <2>2. CASE WaitExecuteNextCommand(r, "executed")
    BY <1>0, <2>2, WaitKeeps DEF Stages
  <2>3. CASE ContinueAt(r, "executed")
    BY <1>0, <2>3, ContinueKeeps DEF Stages
  <2> QED
    BY <2>1, <2>2, <2>3 DEF ChildCommand
<1>1. ChannelsTypeOK'
  BY <1>a DEF ChildCommand, ChannelsTypeOK, channelVars, completionVars, Before
<1>2. ctx' \in Context /\ lastLine' \in Int /\ userLine' \in Nat
  BY DEF ChildCommand, Before
<1>3. ctx'.stop => ctx.stop
  BY DEF ChildCommand, Before, Context
<1>5. FrameOK(run'[r])
  <2>0. /\ run[r].pc = "handled" /\ FrameOK(run[r])
        /\ run[r] \in RunRecords
    BY DEF ChildCommand, At, Before, Frames
  <2>1. CASE run'[r] = [run[r] EXCEPT !.pc = "handle", !.child = TRUE]
    BY <2>0, <2>1 DEF FrameOK, OnLine, Sending, RunRecords
  <2>2. ASSUME NEW p \in {"single", "executed"},
               run'[r] = [run[r] EXCEPT !.pc = p, !.back = "executed"]
        PROVE  FrameOK(run'[r])
    BY <2>0, <2>2 DEF FrameOK, OnLine, Sending, RunRecords
  <2>3. CASE run'[r] = [run[r] EXCEPT !.pc = "executed"]
    BY <2>0, <2>3 DEF FrameOK, OnLine, Sending, RunRecords
  <2> QED
    BY <1>a, <2>1, <2>2, <2>3
<1>6. LateFrame(run[r]) => LateFrame(run'[r])
  BY <1>a
  DEF ChildCommand, LateFrame, CanSend, Frames, RunRecords, Before, At,
      InlineOf, LineOf
<1> QED
  BY <1>1, <1>2, <1>3, <1>a, <1>5, <1>6 DEF Kept

\* BlockWait: the end of a line.
LEMMA BlockWaitKeeps ==
  ASSUME NEW r \in Runs, Before(r), BlockWait(r)
  PROVE  Kept(r)
<1>0. singleOpen \in BOOLEAN /\ run \in Frames /\ ctx \in Context
  BY DEF Before, ChannelsTypeOK
<1>a. /\ singleOpen' \in BOOLEAN
      /\ run' \in Frames
      /\ \A s \in Runs : s # r => run'[s] = run[s]
      /\ \/ \E p \in {"single", "stopcheck"} :
              run'[r] = [run[r] EXCEPT !.pc = p, !.back = "stopcheck"]
         \/ run'[r] = [run[r] EXCEPT !.pc = "stopcheck"]
  <2>1. CASE WaitExecuteNextCommand(r, "stopcheck")
    BY <1>0, <2>1, WaitKeeps DEF Stages
  <2>2. CASE ContinueAt(r, "stopcheck")
    BY <1>0, <2>2, ContinueKeeps DEF Stages
  <2> QED
    BY <2>1, <2>2 DEF BlockWait
<1>l. run[r].line + 1 \in Int
  BY DEF Before, Frames, RunRecords
<1>1. ChannelsTypeOK'
  BY <1>a DEF BlockWait, ChannelsTypeOK, channelVars, completionVars, Before
<1>2. ctx' \in Context /\ lastLine' \in Int /\ userLine' \in Nat
  BY <1>l, PutContext DEF BlockWait, Before
<1>3. ctx'.stop => ctx.stop
  BY <1>l, PutContext DEF BlockWait, Before, Context
<1>5. FrameOK(run'[r])
  <2>0. /\ run[r].pc \in {"handled", "executed"} /\ FrameOK(run[r])
        /\ run[r] \in RunRecords
    BY DEF BlockWait, At, Before, Frames
  <2>1. ASSUME NEW p \in {"single", "stopcheck"},
               run'[r] = [run[r] EXCEPT !.pc = p, !.back = "stopcheck"]
        PROVE  FrameOK(run'[r])
    BY <2>0, <2>1 DEF FrameOK, OnLine, Sending, RunRecords
  <2>2. CASE run'[r] = [run[r] EXCEPT !.pc = "stopcheck"]
    BY <2>0, <2>2 DEF FrameOK, OnLine, Sending, RunRecords
  <2> QED
    BY <1>a, <2>1, <2>2
<1>6. LateFrame(run[r]) => LateFrame(run'[r])
  <2>1. run'[r].pc \in {"single", "stopcheck"} /\ run'[r].late = run[r].late
    BY <1>a DEF Before, Frames, RunRecords
  <2> QED
    BY <2>1 DEF LateFrame, CanSend
<1> QED
  BY <1>1, <1>2, <1>3, <1>a, <1>5, <1>6 DEF Kept

\* StopHere: the stop flag is tested after a line.
LEMMA StopHereKeeps ==
  ASSUME NEW r \in Runs, Before(r), StopHere(r)
  PROVE  Kept(r)
<1>l. ResumeLine(ctx, run[r].line) \in Int
  BY DEF ResumeLine, Before, Frames, RunRecords
<1>1. ChannelsTypeOK'
  BY DEF StopHere, ChannelsTypeOK, channelVars, completionVars, Before
<1>2. ctx' \in Context /\ lastLine' \in Int /\ userLine' \in Nat
  BY <1>l, PutContext DEF StopHere, Before
<1>3. ctx'.stop => ctx.stop
  BY <1>l, PutContext DEF StopHere, Before, Context
<1>4. /\ run' \in Frames
      /\ \A s \in Runs : s # r => run'[s] = run[s]
      /\ run'[r] = [run[r] EXCEPT !.pc = "return"]
  BY GotoKeeps DEF StopHere, Before, Stages
<1>5. FrameOK(run'[r])
  BY <1>4
  DEF StopHere, FrameOK, At, OnLine, Sending, Before, Frames, RunRecords,
      InlineOf, LineOf
<1>6. LateFrame(run[r]) => LateFrame(run'[r])
  BY <1>4
  DEF StopHere, LateFrame, CanSend, Frames, RunRecords, Before, At, InlineOf,
      LineOf
<1> QED
  BY <1>1, <1>2, <1>3, <1>4, <1>5, <1>6 DEF Kept

\* Completes: RunCodeFile reaches the end of the program.
LEMMA CompletesKeeps ==
  ASSUME NEW r \in Runs, Before(r), Completes(r)
  PROVE  Kept(r)
<1>1. ChannelsTypeOK'
  BY DEF Completes, ChannelsTypeOK, channelVars, completionVars, Before
<1>2. ctx' \in Context /\ lastLine' \in Int /\ userLine' \in Nat
  BY DEF Completes, Before
<1>3. ctx'.stop => ctx.stop
  BY DEF Completes, Before, Context
<1>4. /\ run' \in Frames
      /\ \A s \in Runs : s # r => run'[s] = run[s]
      /\ run'[r] = [run[r] EXCEPT !.pc = "complete"]
  BY GotoKeeps DEF Completes, Before, Stages
<1>5. FrameOK(run'[r])
  BY <1>4
  DEF Completes, FrameOK, At, OnLine, Sending, Before, Frames, RunRecords,
      InlineOf, LineOf
<1>6. LateFrame(run[r]) => LateFrame(run'[r])
  BY <1>4
  DEF Completes, LateFrame, CanSend, Frames, RunRecords, Before, At, InlineOf,
      LineOf
<1> QED
  BY <1>1, <1>2, <1>3, <1>4, <1>5, <1>6 DEF Kept

\* TrialFails: the trial run fails.
LEMMA TrialFailsKeeps ==
  ASSUME NEW r \in Runs, Before(r), TrialFails(r)
  PROVE  Kept(r)
<1>1. ChannelsTypeOK'
  BY DEF TrialFails, ChannelsTypeOK, channelVars, completionVars, Before
<1>2. ctx' \in Context /\ lastLine' \in Int /\ userLine' \in Nat
  BY DEF TrialFails, Before
<1>3. ctx'.stop => ctx.stop
  BY DEF TrialFails, Before, Context
<1>4. run' \in Frames
  BY IdleTyped, PutRecord DEF TrialFails, Before
<1>5. \A s \in Runs : s # r => run'[s] = run[s]
  BY DEF TrialFails, Before, Frames
<1>6. FrameOK(run'[r])
  BY IdleTyped DEF TrialFails, Before, Frames
<1>7. LateFrame(run[r]) => LateFrame(run'[r])
  BY IdleTyped DEF TrialFails, Before, Frames
<1> QED
  BY <1>1, <1>2, <1>3, <1>4, <1>5, <1>6, <1>7 DEF Kept

\* Complete: PROGRAM_EXEC_COMPLETED may wait for room in the channel.
LEMMA CompleteKeeps ==
  ASSUME NEW r \in Runs, Before(r), Complete(r)
  PROVE  Kept(r)
<1>1. ChannelsTypeOK'
  BY DriverTyped
  DEF Complete, ChannelsTypeOK, channelVars, completionVars, Before,
      ActionTypes
<1>2. ctx' \in Context /\ lastLine' \in Int /\ userLine' \in Nat
  <2>1. ctx' \in Context
    BY ResetTyped DEF Complete, Before
  <2>2. lastLine' = 0 /\ userLine' = userLine
    BY DEF Complete
  <2> QED
    BY <2>1, <2>2 DEF Before
<1>3. ctx'.stop => ctx.stop
  BY ResetTyped DEF Complete, Before, Context
<1>4. run' \in Frames
  BY IdleTyped, PutRecord DEF Complete, Before
<1>5. \A s \in Runs : s # r => run'[s] = run[s]
  BY DEF Complete, Before, Frames
<1>6. FrameOK(run'[r])
  BY IdleTyped DEF Complete, Before, Frames
<1>7. LateFrame(run[r]) => LateFrame(run'[r])
  BY IdleTyped DEF Complete, Before, Frames
<1> QED
  BY <1>1, <1>2, <1>3, <1>4, <1>5, <1>6, <1>7 DEF Kept

\* Stopped: RunCodeFile returns after a stop.
LEMMA StoppedKeeps ==
  ASSUME NEW r \in Runs, Before(r), Stopped(r)
  PROVE  Kept(r)
<1>a. run[r].trace \in Seq(Int)
  BY DEF Before, Frames, RunRecords
<1> DEFINE x == [Idle EXCEPT !.trace = run[r].trace]
<1>b. x \in RunRecords /\ FrameOK(x) /\ LateFrame(x)
  BY <1>a, IdleTyped
<1>c. run' = [run EXCEPT ![r] = x]
  BY DEF Stopped
<1> HIDE DEF x
<1>1. ChannelsTypeOK'
  BY DEF Stopped, ChannelsTypeOK, channelVars, completionVars, Before
<1>2. ctx' \in Context /\ lastLine' \in Int /\ userLine' \in Nat
  BY DEF Stopped, Before
<1>3. ctx'.stop => ctx.stop
  BY DEF Stopped, Before, Context
<1>4. run' \in Frames
  BY <1>b, <1>c, PutRecord DEF Before
<1>5. \A s \in Runs : s # r => run'[s] = run[s]
  BY <1>c DEF Before, Frames
<1>6. FrameOK(run'[r])
  BY <1>b, <1>c DEF Before, Frames
<1>7. LateFrame(run[r]) => LateFrame(run'[r])
  BY <1>b, <1>c DEF Before, Frames
<1> QED
  BY <1>1, <1>2, <1>3, <1>4, <1>5, <1>6, <1>7 DEF Kept

\* Every step of a call keeps it in order.
LEMMA ExecutorKeeps ==
  ASSUME NEW r \in Runs, Before(r), ExecutorStep(r)
  PROVE  Kept(r)
  BY AnnounceKeeps, VerifyKeeps, LaunchKeeps, LeaveKeeps, CheckKeeps,
     HandleSilentKeeps, HandleRefusedKeeps, HandleDivideKeeps,
     HandleSendingKeeps,
     NextSegmentKeeps, NoMoreSegmentsKeeps, PushActionKeeps, WaitTestKeeps,
     WaitReceiveKeeps, WaitShutKeeps, FinishedKeeps, SegmentFinishedKeeps,
     AfterSegmentKeeps, HandlerFailedKeeps, ChildCommandKeeps, BlockWaitKeeps,
     SingleShutKeeps, StopHereKeeps, RecurseKeeps, TrialReturnsKeeps,
     TrialFailsKeeps, StoppedKeeps, CompletesKeeps, CompleteKeeps
  DEF ExecutorStep

\* RunCodeFile begins in order and with a cleared stop flag.
LEMMA StartKeeps ==
  ASSUME NEW r \in Runs, NEW f \in Files, Before(r), Start(r, f)
  PROVE  Kept(r)
<1> DEFINE c == PrepareExecutingFile(ctx, f)
           p == IF c.resume > 0 THEN "launch" ELSE "announce"
           t == IF c.resume > 0 THEN run[r].trace ELSE << >>
           y == [Idle EXCEPT !.pc = p]
           z == [y EXCEPT !.file = f]
           x == [z EXCEPT !.trace = t]
<1>a. ctx' = c /\ run' = [run EXCEPT ![r] = x]
  BY DEF Start
<1>b. c \in Context /\ c.stop = FALSE
  BY PrepareTyped DEF Before
<1>c. p \in Stages /\ p \in {"launch", "announce"} /\ t \in Seq(Int)
  BY DEF Stages, Before, Frames, RunRecords
<1> HIDE DEF c, p, t
<1>d. Idle \in RunRecords /\ FrameOK(Idle) /\ Idle.pc = "idle"
  BY IdleTyped DEF Idle
<1>e. y \in RunRecords /\ y.pc = p /\ y.todo = Idle.todo
  BY <1>c, <1>d DEF RunRecords
<1> HIDE DEF y
<1>f. z \in RunRecords /\ z.pc = p /\ z.todo = Idle.todo /\ z.file = f
  BY <1>c, <1>e DEF RunRecords
<1> HIDE DEF z
<1>g. x \in RunRecords /\ x.pc = p /\ x.todo = Idle.todo /\ x.file = f
  BY <1>c, <1>f DEF RunRecords
<1> HIDE DEF x
<1>h. FrameOK(x)
  BY <1>c, <1>d, <1>g DEF FrameOK, OnLine, Sending
<1>1. ChannelsTypeOK'
  BY DEF Start, Before, ChannelsTypeOK, channelVars
<1>2. ctx' \in Context /\ lastLine' \in Int /\ userLine' \in Nat
  BY <1>a, <1>b DEF Start, Before
<1>3. ctx'.stop = FALSE
  BY <1>a, <1>b
<1>4. run' \in Frames
  BY <1>a, <1>g, PutRecord DEF Before
<1>5. \A s \in Runs : s # r => run'[s] = run[s]
  BY <1>a DEF Before, Frames
<1>6. FrameOK(run'[r])
  BY <1>a, <1>h DEF Before, Frames
<1> QED
  BY <1>1, <1>2, <1>3, <1>4, <1>5, <1>6 DEF Kept

----------------------------------------------------------------------------
(* The trial run of a call: it is in no stage where something is sent, and  *)
(* the trial flag is set until the real run is launched.                    *)
NotSending == Stages \ (Sending \cup {"single", "singleshut"})
TrialFrame(x, trial) ==
  x.frame = "trial" => x.pc \in NotSending /\ (trial \/ x.pc = "launch")

\* A step of a call whose trial run sends nothing leaves it so.
LEMMA ExecutorTrial ==
  ASSUME NEW r \in Runs, Before(r), ExecutorStep(r),
         TrialFrame(run[r], ctx.trial)
  PROVE  TrialFrame(run'[r], ctx'.trial)
<1>0. run \in Frames /\ ctx \in Context
  BY DEF Before
<1> USE <1>0
<1>1. CASE Announce(r)
  BY <1>1
  DEF Announce, TrialFrame, NotSending, Sending, Stages, At, Goto, Execute,
      Frames, RunRecords, Context
<1>2. CASE Verify(r)
  BY <1>2
  DEF Verify, TrialFrame, NotSending, Sending, Stages, At, Goto, Execute,
      Frames, RunRecords, Context
<1>3. CASE Launch(r)
  BY <1>3
  DEF Launch, TrialFrame, NotSending, Sending, Stages, At, Goto, Execute,
      Frames, RunRecords, Context
<1>4. CASE Leave(r)
  BY <1>4
  DEF Leave, TrialFrame, NotSending, Sending, Stages, At, Goto, Execute,
      Frames, RunRecords, Context
<1>5. CASE Check(r)
  BY <1>5
  DEF Check, TrialFrame, NotSending, Sending, Stages, At, Goto, Execute,
      Frames, RunRecords, Context
<1>6. CASE HandleSilent(r)
  <2>1. /\ run'[r].frame = run[r].frame /\ run'[r].pc = "handled"
        /\ run[r].pc = "handle"
    BY <1>6 DEF HandleSilent, At, Frames, RunRecords
  <2>2. Line(r) \in Command
    BY <1>6, LineTyped
    DEF HandleSilent, At, Before, Frames, OnLine, Line, LineOf
  <2>3. ctx'.trial = ctx.trial
    BY <1>6, <2>2, SilentTyped DEF HandleSilent
  <2> QED
    BY <2>1, <2>3 DEF TrialFrame, NotSending, Sending, Stages
<1>29. CASE HandleRefused(r)
  BY <1>29
  DEF HandleRefused, TrialFrame, NotSending, Sending, Stages, At, Goto,
      Frames, RunRecords, Context
<1>7. CASE HandleDivide(r)
  <2>1. run[r].pc = "handle" /\ ~ ctx.trial
    BY <1>7 DEF HandleDivide, At, SendsActions
  <2>2. run[r].frame # "trial"
    BY <2>1 DEF TrialFrame
  <2>3. run'[r].frame = run[r].frame
    BY <1>7 DEF HandleDivide, Frames, RunRecords
  <2> QED
    BY <2>2, <2>3 DEF TrialFrame
<1>8. CASE HandleSending(r)
  <2>1. run[r].pc = "handle" /\ ~ ctx.trial
    BY <1>8 DEF HandleSending, At, SendsActions
  <2>2. run[r].frame # "trial"
    BY <2>1 DEF TrialFrame
  <2>3. run'[r].frame = run[r].frame
    BY <1>8 DEF HandleSending, Frames, RunRecords
  <2> QED
    BY <2>2, <2>3 DEF TrialFrame
<1>9. CASE NextSegment(r)
  BY <1>9
  DEF NextSegment, TrialFrame, NotSending, Sending, Stages, At, Goto, Execute,
      Frames, RunRecords, Context
<1>10. CASE NoMoreSegments(r)
  BY <1>10
  DEF NoMoreSegments, TrialFrame, NotSending, Sending, Stages, At, Goto,
      Execute, Frames, RunRecords, Context
<1>11. CASE PushAction(r)
  BY <1>11
  DEF PushAction, TrialFrame, NotSending, Sending, Stages, At, Goto, Execute,
      Frames, RunRecords, Context
<1>12. CASE WaitTest(r)
  BY <1>12
  DEF WaitTest, TrialFrame, NotSending, Sending, Stages, At, Goto, Execute,
      Frames, RunRecords, Context
<1>13. CASE WaitReceive(r)
  BY <1>13
  DEF WaitReceive, TrialFrame, NotSending, Sending, Stages, At, Goto, Execute,
      Frames, RunRecords, Context
<1>14. CASE WaitShut(r)
  BY <1>14
  DEF WaitShut, TrialFrame, NotSending, Sending, Stages, At, Goto, Execute,
      Frames, RunRecords, Context
<1>15. CASE Finished(r)
  BY <1>15
  DEF Finished, TrialFrame, NotSending, Sending, Stages, At, Goto, Execute,
      Frames, RunRecords, Context
<1>16. CASE SegmentFinished(r)
  <2>1. run[r].pc = "acted" /\ run'[r].frame = run[r].frame
    BY <1>16 DEF SegmentFinished, WaitExecuteNextCommand, ContinueAt, Goto, At,
       Frames, RunRecords
  <2> QED
    BY <2>1 DEF TrialFrame, NotSending, Sending
<1>17. CASE AfterSegment(r)
  BY <1>17
  DEF AfterSegment, TrialFrame, NotSending, Sending, Stages, At, Goto,
      Execute, Frames, RunRecords, Context
<1>18. CASE HandlerFailed(r)
  BY <1>18
  DEF HandlerFailed, TrialFrame, NotSending, Sending, Stages, At, Goto,
      Execute, Frames, RunRecords, Context
<1>19. CASE ChildCommand(r)
  <2>1. ctx'.trial = ctx.trial /\ run[r].pc = "handled"
    BY <1>19 DEF ChildCommand, At
  <2>2. run'[r].frame = run[r].frame
    BY <1>19
    DEF ChildCommand, WaitExecuteNextCommand, ContinueAt, Goto, Frames,
       RunRecords
  <2>3. ctx.trial => run'[r].pc \in {"handle", "executed"}
    BY <1>19
    DEF ChildCommand, WaitExecuteNextCommand, ContinueAt, Goto, Frames,
       RunRecords
  <2> QED
    BY <2>1, <2>2, <2>3 DEF TrialFrame, NotSending, Sending, Stages
<1>20. CASE BlockWait(r)
  <2>1. ctx'.trial = ctx.trial /\ run[r].pc \in {"handled", "executed"}
    BY <1>20 DEF BlockWait, At, Context
  <2>2. run'[r].frame = run[r].frame
    BY <1>20 DEF BlockWait, WaitExecuteNextCommand, ContinueAt, Goto, Frames,
       RunRecords
  <2>3. ctx.trial => run'[r].pc = "stopcheck"
    BY <1>20 DEF BlockWait, ContinueAt, Goto, Frames, RunRecords
  <2> QED
    BY <2>1, <2>2, <2>3 DEF TrialFrame, NotSending, Sending, Stages
<1>21. CASE SingleShut(r)
  BY <1>21
  DEF SingleShut, TrialFrame, NotSending, Sending, Stages, At, Goto, Execute,
      Frames, RunRecords, Context
<1>22. CASE StopHere(r)
  BY <1>22
  DEF StopHere, TrialFrame, NotSending, Sending, Stages, At, Goto, Execute,
      Frames, RunRecords, Context
<1>23. CASE Recurse(r)
  BY <1>23
  DEF Recurse, TrialFrame, NotSending, Sending, Stages, At, Goto, Execute,
      Frames, RunRecords, Context
<1>24. CASE TrialReturns(r)
  BY <1>24
  DEF TrialReturns, TrialFrame, NotSending, Sending, Stages, At, Goto,
      Execute, Frames, RunRecords, Context
<1>25. CASE TrialFails(r)
  <2>1. run'[r].frame = "none"
    BY <1>25 DEF TrialFails, Frames, Idle
  <2> QED
    BY <2>1 DEF TrialFrame
<1>26. CASE Stopped(r)
  <2>1. run'[r].frame = "none"
    <3>1. run'[r] = [Idle EXCEPT !.trace = run[r].trace]
      BY <1>26 DEF Stopped, Frames
    <3>2. [Idle EXCEPT !.trace = run[r].trace].frame = "none"
      BY DEF Idle
    <3> QED
      BY <3>1, <3>2
  <2> QED
    BY <2>1 DEF TrialFrame
<1>27. CASE Completes(r)
  BY <1>27
  DEF Completes, TrialFrame, NotSending, Sending, Stages, At, Goto, Execute,
      Frames, RunRecords, Context
<1>28. CASE Complete(r)
  <2>1. run'[r].frame = "none"
    BY <1>28 DEF Complete, Frames, Idle
  <2> QED
    BY <2>1 DEF TrialFrame
<1> QED
  BY <1>1, <1>2, <1>3, <1>4, <1>5, <1>6, <1>7, <1>8, <1>9, <1>10, <1>11,
     <1>12, <1>13, <1>14, <1>15, <1>16, <1>17, <1>18, <1>19, <1>20, <1>21,
     <1>22, <1>23, <1>24, <1>25, <1>26, <1>27, <1>28, <1>29
  DEF ExecutorStep
=============================================================================
