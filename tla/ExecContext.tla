----------------------------- MODULE ExecContext -----------------------------
(***************************************************************************)
(* The execution context of datatypes/exec_context.go and the command      *)
(* handlers of commands/*/*.go as operators on it.  A program line is      *)
(* abstracted to what its handler does: the operation, its repeat count    *)
(* and the operation of the command written behind it on the same line.    *)
(***************************************************************************)
EXTENDS Integers, Sequences

CONSTANT Files          \* the program files

(* The operations, one for each handler that behaves differently:           *)
(*   move     A** B** (moveRotary)      abs, rel  G90, G91                  *)
(*   path     G68, G69                  rapid     G0                        *)
(*   feed     F** (rpm)                 divide    G16, G17                  *)
(*   loop     R** (loopStart)           endloop   G10 (loopEnd)             *)
(*   end      M30                       restart   M99                       *)
(*   delay    D**                       offset    G53 .. G58 (workoffset)   *)
(*   linear   G01                       bad       a line that sets Err      *)
Ops == {"move", "abs", "rel", "path", "rapid", "feed", "divide", "loop",
        "endloop", "end", "restart", "delay", "offset", "linear", "bad"}

Command == [op : Ops, n : Nat, child : Ops \cup {"none"}]

\* considerInBlockExecution of configs/execution.yml.
ConsiderInBlockExecution(op) == op \in {"move", "divide"}

\* Only workoffset hands the setting on to the command behind it, g01 does not.
ChildConsidersBlock(cmd) ==
  cmd.op = "offset" /\ ConsiderInBlockExecution(cmd.child)

\* The driver actions a handler sends, and waits for, outside the trial run.
DriverActions(op) ==
  CASE op = "move"                 -> <<"SET_WORK_OFFSET", "MOVE_TO_POSITION">>
    [] op = "divide"               -> <<"MOVE_TO_POSITION">>
    [] op \in {"abs", "rel", "path"} -> <<"POSITION_MODE">>
    [] op \in {"rapid", "feed"}    -> <<"SET_RPM">>
    [] OTHER                       -> << >>

----------------------------------------------------------------------------
\* The context and its methods.

Context ==
  [stop : BOOLEAN,              \* StopExecution
   hasReset : BOOLEAN,          \* HasResetted
   trial : BOOLEAN,             \* TrialModeActive
   waiting : BOOLEAN,           \* WaitingForECS
   single : BOOLEAN,            \* ExecutionMode = "single"
   rel : BOOLEAN,               \* RunMode = "REL"
   err : BOOLEAN,               \* Err # nil
   cur : Int,                   \* CurrentExecCommandLine
   next : Int,                  \* NextCmdLineToExec
   resume : Int,                \* NextLineWhenStopped
   loop : Int,                  \* LoopCount
   loopAt : Int,                \* WhereLoopStarted
   loopCtr : Nat,               \* CurrentLoopCounter
   file : Files \cup {"none"}]  \* CommandFileName

Fresh ==
  [stop |-> FALSE, hasReset |-> FALSE, trial |-> FALSE, waiting |-> FALSE,
   single |-> FALSE, rel |-> FALSE, err |-> FALSE, cur |-> 0, next |-> 0,
   resume |-> 0, loop |-> 0, loopAt |-> 0, loopCtr |-> 0, file |-> "none"]

Reset(c) ==
  [c EXCEPT !.cur = 0, !.next = 0, !.err = FALSE, !.stop = FALSE,
            !.loop = 0, !.loopCtr = 0, !.loopAt = 0, !.resume = 0,
            !.rel = FALSE, !.waiting = FALSE]

\* Nothing happens while the motor is said to wait for the ECS signal.
MoveNextLine(c) == IF c.waiting THEN c ELSE [c EXCEPT !.next = c.cur + 1]

EndExecution(c) == [Reset(c) EXCEPT !.next = -1]

MoveToStart(c) == Reset([c EXCEPT !.next = 0])

PrepareExecutingFile(c, f) ==
  LET d == [c EXCEPT !.stop = FALSE, !.hasReset = FALSE]
  IN  IF c.file = f THEN d ELSE [Reset(d) EXCEPT !.file = f]

----------------------------------------------------------------------------
\* The handlers that send nothing, or whatever they are in the trial run.

\* Slip: the repetitions instead of those that are left.
LoopStartExtra(cmd, c) ==
  MoveNextLine([c EXCEPT !.loopAt = c.cur, !.err = FALSE, !.loop = cmd.n])

LoopStart(cmd, c) ==
  MoveNextLine([c EXCEPT !.loopAt = c.cur, !.err = FALSE, !.loop = cmd.n - 1])

\* Slip: the last repetition is lost.
LoopEndEarly(c) ==
  IF ~ c.trial /\ c.loop > 1
  THEN [c EXCEPT !.loop = c.loop - 1, !.next = c.loopAt + 1]
  ELSE MoveNextLine(c)

LoopEnd(c) ==
  IF ~ c.trial /\ c.loop > 0
  THEN [c EXCEPT !.loop = c.loop - 1, !.next = c.loopAt + 1]
  ELSE MoveNextLine(c)

\* G16 and G17 start from the counters that a stop left behind.
DivideBegins(cmd, c) ==
  IF c.loop <= 0 THEN [c EXCEPT !.loop = cmd.n, !.loopCtr = 0] ELSE c

\* Slip: the counters are kept.
DivideKeeps(c) == MoveNextLine(c)

DivideEnds(c) ==
  MoveNextLine(IF c.stop THEN c ELSE [c EXCEPT !.loop = 0, !.loopCtr = 0])

\* Slip: M99 restarts in the trial run, too.
RestartAlways(c) == MoveToStart(c)

Restart(c) == IF c.trial THEN EndExecution(c) ELSE MoveToStart(c)

\* The run mode is set before the driver is asked.
SetRunMode(op, c) ==
  IF op \in {"abs", "rel"} THEN [c EXCEPT !.rel = (op = "rel")] ELSE c

\* What Handle(cmd, execContext) does when it sends no driver action.
HandleSilently(cmd, op, c) ==
  CASE op = "loop"    -> LoopStart(cmd, c)
    [] op = "endloop" -> LoopEnd(c)
    [] op = "divide"  -> IF c.rel THEN DivideEnds(DivideBegins(cmd, c))
                                  ELSE [c EXCEPT !.err = TRUE]
    [] op = "end"     -> EndExecution(c)
    [] op = "restart" -> Restart(c)
    [] op = "feed"    -> c
    [] op = "delay"   -> MoveNextLine([c EXCEPT !.err = FALSE])
    [] op = "bad"     -> MoveNextLine([c EXCEPT !.err = TRUE])
    [] OTHER          -> MoveNextLine(SetRunMode(op, c))

\* Slip: the trial run sends, too.
SendsAlways(op, c) ==
  /\ DriverActions(op) # << >>
  /\ op = "divide" => c.rel

\* A handler that sends driver actions only does so outside the trial run,
\* and G16 only in incremental positioning.
SendsActions(op, c) ==
  /\ ~ c.trial
  /\ DriverActions(op) # << >>
  /\ op = "divide" => c.rel
=============================================================================
