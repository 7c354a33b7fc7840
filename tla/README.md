# Verification of the jamun motion controller

TLA+ models of the rotary table controller in this repository: a Go process
that runs machine programs (`A90`, `G16 P10`, `R5` ... `G10`, `M30`), drives
one or more servo axes over EtherCAT, and serves an operator panel over
socket.io. What makes it hard is the number of goroutines that share an
execution context, two channels with unguarded flags, a cached alarm, and a
reset that replaces channels while others use them, and the arithmetic of angles
around zero with a shaft that moves between two reads. All source lines below
are relative to the root of the repository.

## The system and its parts

| Part | State | Operations | Talks to |
|---|---|---|---|
| Execution context (`datatypes/exec_context.go`) | stop flag, trial flag, line numbers, loop counters, run mode | `Reset`, `MoveNextLine`, `EndExecution`, `PrepareExecutingFile` | shared by the executor, the input listener and the socket handlers, without a lock |
| Command handlers (`commands/*`) | none, except the package variable `counter` of G16 and G17 | `Handle` for each command | context, action channel, completion channel |
| Program executor (`executors/command_executor.go`) | the context, `last_line.txt`, `userline.json` | `RunCodeFile`: trial run, then the real one; stop, resume, single block | handlers, alarms to the clients |
| Input listener (`executors/command_exec_input_listener.go`) | the context | stop, reset, mode, next line, ECS messages | a channel of capacity 10; completion and single mode channels |
| Completion handshake (`channels/command_exec_complete.go`) | `isChannelOpen`, `isSingleModeOpen`, a channel of capacity 1, one without buffer | open, wait, notify | one executor, five kinds of notifier |
| Driver action listener (`motordriver/driver_action_listener.go`) | a channel of capacity 100, replaced by a reset | one action at a time, moves in goroutines of their own | motion, status keeper, reset worker |
| Motion and ECS (`move_to_degree.go`, `ecs.go`) | `motionMu`, `isECSCheckInProgress`, a stop channel of capacity 1 | wait for ECS, rotate, finish signal, wait for ECS zero | input listener, completion handshake, alarms |
| Reset worker (`reset_driver_system.go`) | an unbuffered request channel | abort, stop listeners, tell the executor, clear the fault, start listeners | all of the above |
| Status keeper (`driver_status_keeper.go`) | the status of each drive, a wait flag | status events, some answered | motion, action listener |
| Error poller, alarm, fault history (`poll_driver_alarm.go`, `statusnotifier`) | last code of each poller, cached alarm, ring of 20 faults, its file | poll, record, save, clear, load | clients, the gate of `RunCodeFile` |
| PDO cyclic task (`pdo_cyclic_task.go`, `ether_cat_gateway.go`) | jog and position flags, set-points, CiA 402 state | 1 ms cycle, fault reset | motion, power, reset worker |
| Angles (`position_finder.go`, `drive_angle_manipulation.go`, `poll_drive_position.go`) | the cached position | way and destination of a move, pitch error, position from pulses | motion, status keeper |
| Panel events (`clientcommunication/socketserver.go`, GPIO in `main.go`) | connected clients | execute, stop, reset, mode, jog, ... | channels, or the executor directly |

The rest (bus start-up, drive register layouts, program parsing, settings, REST
interface, update, gateways, web pages) is listed in `PROJECT.json` with the
reason why it is not modelled.

### Hard behaviour, and what correctness means

* *Executor, handlers, handshake*: moves are executed in program order, as often
  as the loops say, and the program is announced as completed only after all of
  them; the trial run moves nothing and ends; a handler waits for its own motor
  action; a stop lets the move in progress finish and sends no other; a resume
  passes over nothing; a reset ends the program.
* *Fault history*: ordered, bounded, without repeats, in memory and on disk,
  across wrap-around, clears, concurrent saves and crashes.
* *Alarm state*: an error reaches every panel that is or comes connected, stops
  the program, and keeps another from starting until it is gone; every drive
  stays watched, also after a reset that failed.
* *Angles*: a move turns the way it was told to, no further than it has to, is
  aimed at the compensated destination from wherever the shaft is, and sends its
  finish signal only at the commanded angle; deviations of relative moves do not
  add up.
* *PDO and motion*: a move that is reported as completed has brought the drive
  to its goal, whatever bit 10 and bit 12 said of an earlier one; position
  control is on only in a move, and every move ends; an emergency stops the move
  it meets; a fault reset leaves the brake as it is.

## The modules

```
FaultLog          what a fault history promises
  ^ implemented by
FaultHistory      ring buffer, file, pollers, clear, restart
FaultHistory_proofs

ExecContext       the context and the handlers, as operators Channels
the channels and the completion handshake   \ / Executor          RunCodeFile
and executeCommands        MotorActions   listener, motion,       \
/             ECS, reset worker                      ProgramControl
input listener, operator, alarms, properties Channels_proofs         each
operation on a channel keeps its type and capacity Executor_proofs         each
step of a RunCodeFile keeps that call in order ProgramControl_proofs   the
invariant, and the theorems ProgramMeaning_proofs   what a program means, and
that it is what is executed

PdoCyclic         the atomics of an axis, the 1 ms task, the drive
  |
PdoMotion         position move, jog, emergency, clamp, fault reset; properties
PdoMotion_proofs

Alarms            pollers, cached alarm, broadcast, panels, gate, reset
Alarms_proofs

Positioning       from a commanded angle to an angle of the shaft
Positioning_proofs

MC_FaultHistory, MC_Program, MC_Alarms, MC_Positioning   the instances for TLC
```

**FaultHistory** follows `poll_driver_alarm.go` lock by lock. `RecordFault` is
atomic as far as it holds `faultHistoryMu` (the guard on `saver` keeps a poller
in it until the file is written); `TakeSnapshot`, `TruncateFile` and `WriteFile`
are `persistFaultHistory`, `ClearRing` and `RemoveFile` are `ClearFaultHistory`,
and `Restart` is a crash at any point followed by `LoadFaultHistory`. Time is a
counter that grows with every recorded fault. A file that is truncated when the
process dies cannot be parsed and is read as empty, which is what the code does.

**ExecContext** holds the fields of `ExecutionContext` that decide control, and
each handler as an operator on it. A program line is a record: the operation,
its repeat count, and the operation of the command behind it (`G01 F20`,
`G54 A90`). **Executor** is `RunCodeFile` for each goroutine in `Runs`. The
recursion of `executeCommands` is a tail call, so that one frame (`line`,
`frame`) is enough; a step ends where another goroutine can change what the next
statement reads. Two history variables serve the properties: `trace`, the lines
that move, and `late`, the moves that were sent after a stop or a reset was
heard. **Channels** splits `NotifyCmdComplete` into its test, send and clear,
and the executor does the same for `WaitTillCmdComplete`, because five
goroutines use one unguarded flag. **MotorActions** takes one action after the
other, moves under `motionMu`, the ECS wait that a stop calls off, and the reset
worker between whose steps the others run; a rotation succeeds, fails with an
alarm, or is skipped as a duplicate. **ProgramControl** adds the input listener,
with its blocking rendezvous in single block mode, the alarm broadcast that
turns every alarm into a stop, and the operator, who may press anything at any
time; the handler of `stop_execution` sends its second message later.

**PdoCyclic** is one axis on the bus. `dev` holds the atomics of its
`MasterDevice`; a cycle of the task is two to four steps (`Receive`, `Pulse`,
`Clear`, `Send`), because it loads the goal first, `ppSetpointPending` later and
clears that last, while motion goroutines store into them. `Pulse` is the
handshake with `latchCounters`. The drive is an environment: it obeys the control
words of CiA 402, may fault, be slow, acknowledge a set-point late, or
acknowledge it and not start, which is what the retries of the code are for.
**PdoMotion** has the goroutine of one move (`doRotate`, the phases of
`hasTargetReached`, the retries and final check of `moveMotorToDegree`), the
driver action listener with emergency, jog, stop and changed settings, the fault
reset, and the part of the reset worker that touches the axis. It is composed
with `PdoCyclic` by sharing `dev`. It complements `MotorActions`, where the same
move is seen from the executor's side and its rotation is one step.

Simplifications of these two: positions are a small range and the tolerances
nought; loads of one receive, and stores next to each other, are one step (also
those at the beginning of `resetOneFaultedDevice`; taken apart, with a goroutine
that is held up for several cycles between two of them, TLC finds a second fault
reset, begun on a status from before the first, that stores its goal over that
of a new move, and `RestsAtGoal` fails; the model takes such a goroutine to keep
up, as `MaxLag` does elsewhere); a timeout may come at any poll; the target
condition is that of the A6 driver (bits 10 and 12); the cyclic task is always
running; velocity is zero or not. The brake is bit 1 of the digital outputs with
its mask; the other bits are left out. `ApplyClampIfSettingsChanged` and a reset
may or may not see the motor running, as the status keeper lags behind.

**Alarms** follows one alarm from the drive to all that hear of it. `Look` is one
look of a poller that finds something new; `Report`, `PostReport` and
`DriverError` are the parts of `handleErrCode` behind it: the cache is written
before the message is posted, and the number after it. `AlarmCleared` and
`PostCleared` are their counterpart. Because `uiBradcastMessageListner` starts a
goroutine for each message, what is under way is a count for each text (`going`,
`mail`), and any of it may arrive next.

A connection is in its own goroutine: `Connect` and `AddClient` are the beginning
and the end of the append to the list of clients, `LoadCurrent` and `PushCurrent`
what follows in `OnConnection`, `Disconnect` and `RemoveClient` the beginning and
the end of `removeClient`. Nothing guards the list. A broadcast that runs while it
is shifted may pass over any panel (`SendAlarm`), and two changes that are under
way at the same time are `torn`: what is left in the list is then any set of
connected panels, so that a panel may be out of it for good.

The calls of `RunCodeFile` under way are `running`: `Execute` is the way up to the
gate, which any number of calls may pass, `End` the return, and in between
`ClearStop` clears `StopExecution` at any time, which the start, the trial run,
`M99`, `M30` and the completion do; the rest is `Executor`. The stop flag is also
cleared when the input listener hears a reset (`HearReset`), behind the stops
that are already in its channel.

The reset worker stops the pollers and tells the executor (`TellExecutor`). Where
the cyclic task does not run (`pdo`; `InitMaster` goes on without it) the reset
ends there, and the pollers are not started again. Otherwise it clears some of
the faults, starts pollers without a memory, a new generation (`Gens`), and only
then announces its verdict. Old pollers may still be at work, as nobody waits for
them. The history variables `fresh`, `skipped`, `disturbed`, `alarmed`, `wiped`
and `late` serve the properties.

Simplifications: the loads and stores of `AlarmCleared` are one step; a panel
disconnects only after its `OnConnection` is done; a poller hears its stop when
it looks next; `DriverError` announces errors of drives with codes above 65280 a
second time, with a text of its own, which is left out, and so is `StopSystem`.

**Positioning** has `position_finder.go` as operators, function by function, and
`moveMotorToDegree` in the steps between which the shaft or the status can
change: `Begin` works out the way, `NoEcs`, `FastPath` and `setDirection` end the
wait for the external controller, `doRotate`, `doRotateAgain` and `doRotateFails`
are an attempt and its outcomes with what is behind them up to the finish signal.
`move` holds the locals of the one move that has `motionMu`. A jog, from its
start to its stop, is a step that turns the shaft and the direction; it takes no
`motionMu` and may come while a move waits. `moveToZero` goes by the position the
poller cached. `Turned`, `Cleared` and `SetStatus` are the events of the status
keeper that matter here. Angles are whole numbers of a unit, `Turn` of them a
full turn, which makes the roundings to three digits disappear; the software
limits are not configured (POT = NOT = 0), the window of three seconds in which a
second finish signal is suppressed is a choice, and what goes wrong with clamp,
drive and jog *during* a rotation is `PdoMotion`'s. The coincidence of -1 unit with
the mark of no destination is kept, as the code has it at -1 degree. It
complements `PdoMotion`, where a position is reached or not and the way to it is
a number of cycles.

Simplifications of the others, beside those named in the modules: the counter of
G16 and G17 is kept per run (a package variable in `divide360.go:47`,
`g17.go:48`); ECS is enabled for all drives or for none; RS232 mode, the licence
gate and the GPIO buttons are left out; `isMotorRunning`, which
`performSysReset` tests, lags behind the motor, so that a reset during a
rotation is either refused or accepted. The limits of a drive (`Limits`) refuse
a move or not in each run anew, as the trial run need not begin where the real
one does. They are there in `program_loops` and `program_mixed`, and not in the
other program runs, where they would only take time (`NothingSkipped` is proved
with them).

## What the runs check

| Run | Instance | Shows |
|---|---|---|
| `fault_history` | 2 drives, 2 codes, 2 slots, 4 faults | type, `RingShape`, `Chronological`, `NoRepeats`, and that the ring implements `FaultLog` |
| `program_loops` | loops, divisions, M30, M99, one `execute`; one move may fail, one may be refused by its limits | type, `ProgramOrder`, `CompletesWholeProgram`, `DivideMovesN`; `LateMoves` when an alarm is what stops the program; liveness `TrialEnds` |
| `program_stops` | two moves; three presses of execute, stop, mode | `LateMoves`, `NothingSkipped` |
| `program_mixed` | commands behind others, a failing trial; execute, stop, mode, reset, line | `TrialSilent` |
| `program_race` | one `execute`, nobody interferes | *violated*: `WaitsForMotor`, the handshake pairs a wait with another command's notification |
| `program_halt` | two presses of stop and reset beside an `execute` | *violated*: `EndsWhenTold`, a stop in the trial run and a reset are both undone by `Reset` of the context |
| `pdo_motion` | one axis, two of move, emergency, jog, settings, reset; one fault | type, `RestsAtGoal`, `PosOnlyInMove`; liveness `MoveEnds` |
| `pdo_emergency` | a move, an emergency | *violated*: `EmergencyStops`, a move that waits for its clamp goes on afterwards |
| `pdo_brake` | a move with the clamp, a reset, a fault | *violated*: `ResetKeepsBrake`, a released brake is asserted |
| `alarms` | two drives, one code, two panels, two generations of pollers, two calls of `RunCodeFile`, with and without the cyclic task; two to four events | type, `AlarmHasOwner`, `NobodyMisses`, `AlwaysWatched`, `AlarmStops`, and the action property `GateShut` |
| `positioning` | a turn of six units, four angles, jogs, slips, pitch error, backlash | type, `WayIsRight`, `GoalIsRight`, and the action property `MovesWhereTold` |
| `positioning_backlash` | the same | *violated*: `CompensatesTravel`, the backlash of the direction before is subtracted |

What some of the properties leave out, the code does. `GateShut` excepts a drive
whose report another poller's `AlarmCleared`, or the verdict of a reset,
overwrote (`wiped`). `NobodyMisses` excepts, once a panel has left or two
changes of the list of clients have met (`disturbed`), the panels a broadcast
passed over (`skipped`): the unlocked append and `removeClient`
(`socketserver.go:82`, `:326`) can leave a connected panel out of the list for
good, and it then misses every later alarm. `AlwaysWatched` is about a system
whose cyclic task runs: without it the first reset stops the pollers, restarts
all other listeners and leaves every drive unwatched
(`reset_driver_system.go:123`). `AlarmStops` ends where the flag is cleared:
`M99` of the running program (`m99.go:31`) and a second call of `RunCodeFile`
(`command_executor.go:176`) take back a stop that was heard just before, as the
end of the trial run and a reset do. What the property says of these clears is
that none of them loses a stop that is still on its way. `AlarmHasOwner` excepts
the report of a poller that was told to stop between its look and its report: no
poller remembers that alarm, and it stays until a reset or another drive's
recovery. `CompletesWholeProgram` and `NothingSkipped` except a program that a
failed line has ended (`EndedByError`). `MovesWhereTold` allows a relative move
to deviate once by the one degree of `getRelativePosition` where the last
destination and the shaft lie on both sides of zero. `GoalIsRight` is about the
place, not the number of turns: a retry across zero can take one more.

Some disagreements are recorded without a run. `persistFaultHistory` writes its
snapshot outside the lock, so that the file may differ from the history when all
is quiet. A code that was reported before a reset is reported again after it, as
the new pollers remember nothing; the comment at `reset_driver_system.go:168`
says that it "will NOT re-fire". A move that is refused by its limits in the
real run only (`moveRotary.go:44`, the trial may have begun elsewhere) ends the
program with an error, and completion is announced all the same
(`command_executor.go:201`). G16 and G17 inside a loop take the loop's counter
for the rest of a division (`g17.go:66`); `DivideMovesN` is checked outside of
loops. A stop that is heard between `M30` and the test of the flag
(`command_executor.go:335`) still saves the line behind `M30`, and the next
start resumes there, not at the beginning (`m30.go:10`). The final check of a
move compares the position with the destination without its compensation
(`move_to_degree.go:275`), so that a compensation above the tolerance always
ends in *FINISH BLOCKED*.

`ProgramOrder` is a property of undisturbed runs only. Across a stop and a
resume a line may come twice (a stop while the motor waits for ECS resumes *at*
the line) and a stop between lines leaves an older resume line, so that
`program_stops` checks the weaker `NothingSkipped`, on programs without loops.

**Bounds.** The ring wraps with three faults in two slots; four let it wrap twice
and let two pollers overlap. `InputCap` and `ActionCap` are 1 or 2 instead of 10
and 100, which makes senders block, the interesting case, with few messages.
`MaxPresses` counts the operator's events, `MaxFaults` the moves that fail,
`MaxMoves` the moves that wait for `motionMu` (a second one only comes from the
broken pairing), `MaxLine` the start lines the operator asks for. Programs have
two to five lines: enough for a loop around a move, for a stop between two moves
and for a line that must not be reached. Deadlock is not checked in the program
runs: the operator's presses are used up, and an executor that lost its
notification waits for ever, see the hazards.

In the PDO runs `Settle` and `AckLimit` are 2 and 3 cycles instead of 10 and 30,
`MaxAttempts` 2 attempts instead of 3: enough for an aborted handshake to leave
the counter past `Settle`, for one without an answer, and for a retry. `MaxLag`
says how far a goroutine that polls every millisecond may fall behind the task:
by fewer cycles than `Settle`, which the ten cycles of the code give it amply;
with more, a set-point could be taken between two statements of `doRotate`.
`MaxPos` is 1, two positions, so that a drive is either at its goal or not.
`MaxEvents` counts the operator's events, `MaxFaults` the drive's faults.
Deadlock is checked here: the task always runs.

In `alarms`, `Budgets` says how often each kind of event may happen: errors of
drives, panels that connect, complaints from elsewhere, executes, resets. Of all
combinations the run has those in which what the properties are about can meet:
two errors with an execute or a reset between them, an error with two resets or
two executes, a panel that connects under any of these, two panels whose
connections overlap. `Gens` has two generations of pollers, so that old ones
overlap with new ones, `Runs` two calls. One place for a stop makes the sender
block. The drives are alike and so are the panels (symmetry), and what a panel
shows decides nothing (view). The panels may all be gone and the budget used up:
deadlock is not checked. In `positioning` six units to a turn with a tolerance
of one and a limit of two keep all the cases of the arithmetic apart: near and
far, both sides of zero, half a turn, a full one backwards. One jog and one slip
either way, a pitch error at one destination.

**Fairness** (`FairSpec`) is weak fairness of each goroutine that can take a
step, which is what the Go scheduler gives. Nothing is assumed of the operator
or of the machine behind the ECS input, and a rotation ends one way or the
other, as `hasTargetReached` has a timeout. In `PdoMotion` it is that of the cyclic task,
of the move, of its deadlines, and of the fault reset; the drive is free to do
nothing.

## What is proved

`FaultHistory_proofs` proves, for every capacity, number of drives, pollers and
codes: `TypeCorrect`, `RingShapeHolds`, `ChronologicalHolds`, `NoRepeatsHolds`
and `RingImplementsLog`, the refinement of `FaultLog`. The assumptions are those
of the module: a positive capacity, a natural bound on the faults, and a blank
that is no entry. `TypeOK` alone is not inductive with `RingShape` left out: what
`GetFaultHistory` returns has entries in it only if head and count agree on where
the valid slots are (`RingOK`). Order and absence of repeats need to hold of
memory, file and every pending snapshot at once, because a restart loads the
file and a save writes a snapshot, and all times must lie before the clock
(`HistoryOK`). The refinement maps the log to `GetFaultHistory`: `EnterNewest`
shows that entering a fault appends to it and drops the oldest one when full.

`ProgramControl_proofs` proves, for every set of programs, every number of
`RunCodeFile` calls, every capacity of the channels and every operator:

* `TypeCorrect`: channels stay within their capacity, and the context and the
  calls keep their types;
* `LateMovesHolds`: once `StopExecution` is set no call sends more than the move
  of the line, or of the segment, it is in;
* `TrialSilentHolds`: with a single call (`Runs = {r0}`) the trial run sends
  nothing. Two calls break it, because the trial flag is a field of the shared
  context and the end of one trial run clears it for the other.

`LateMoves` is not inductive: nothing in it says that a call which has sent its
move will not send another before it looks at the stop flag. `IInv` adds what
that needs. `StackOK` says of every call that it is where its stage says:
executing a line, it is on a line of its program; what it has still to send
(`todo`) is the rest of what a handler sends, and empty outside the stage that
sends it; and while it sends, no further command follows on the line (only the
handlers of `G54` and `G01` have one behind them, and these send nothing
themselves). `LateOK` counts: the moves sent since the stop was heard,
plus one if the call can still send a move before it tests the flag (`CanSend`),
are at most one. The count begins at nought when the input listener sets the
flag (`MarkLateKeeps`), each step of the executor spends the one or gives it up,
and only `execute` clears the flag. `Executor_proofs` has one lemma per action of
a call (`...Keeps`), each of them for the whole of `Kept`: types, `FrameOK` and
the count; `KeptForAll` carries it over to all calls; `MotorTyped`,
`ListenerKeeps` and `OperatorKeeps` deal with the other goroutines.
`TrialSilentHolds` rests on `TrialOK`: a call in its trial run is in no stage
that sends and finds the trial flag set whenever it reads it, as nobody else
clears it.

`ProgramMeaning_proofs` proves, for every program, that what is executed is what
it means:

* `ProgramOrderHolds`: the lines that move the motor come in the order of
  `Lines`, none left out, none twice, the body of a loop as often as `R` says;
* `DivideMovesNHolds`: a division makes the moves it was told to make;
* `CompletesWholeProgramHolds`: the end is announced, and `M99` begins again,
  only after all of it;
* `NothingSkippedHolds`: across stops, resumes and single block mode no line is
  executed before an earlier one was, and a program that completes executed all.

The first three hold with stops, next-line and mode events, alarms and failing
moves at any time, and for any number of calls, under hypotheses that are
written in the theorems. `Meant`: the programs are `Structured`, that is, a loop
repeats at least once and has in it a line that moves, no other loop, no end and
no division (which uses the same `LoopCount`); TLC evaluates it on the programs
of every run (`ProgramsStructured`). A loop with no line that moves before its
`G10` would record that `G10` several times in a row, which `trace` counts once.
A command stands behind another only on lines with `G01` or `G53` to `G58`, and
is none that branches. `Gentle`: nobody presses reset or saves a start line.
`FromTheStart`: when a program is started no other one is running and it is not
resumed after a stop; the code prevents neither, and with them the property is
false; what remains then is `NothingSkipped`. Of completion the third excepts a
program that an error ended (`EndedByError`): a stop that is heard in the trial
run cuts it short, the real run goes on, and a line that the trial would have
refused fails there, after which completion is announced all the same; so does a
move that its limits refuse in the real run only (`Limits`). `EndsAtTheEnd` is
the step behind it.

The meaning is a recursion over the lines. That such a function exists, and obeys
its equations, is an induction over the lines, obtained from the least-element
principle on the natural numbers (`NatMin`, `SetInduction`,
`RecursionExists`); `WithinIs` and `FromIs` are the equations. The inductive
invariant (`OrderInv`) ties each stage of a call to a place in that recursion:
`Todo` says that what is recorded and what the meaning has from a line on, with
the repetitions that `LoopCount` holds, make up the whole; `Recorded` that the
line the call is on was added. Both are needed because a line may be executed
again at once, when `MoveNextLine` does nothing while `ecs_done` is on its way,
and is then recorded once only. Between them, `next` is the line itself or the
one after it (`OnPlain`), and in a division `LoopCount` is not a loop's (`Moving`,
`Handled`). One lemma for each action shows that it keeps the place; changes of
the context by the listener touch nothing that counts (`SameCall`).

`NothingSkippedHolds` does not assume `FromTheStart`: the operator may stop a
program and execute it again as often as he likes. Instead it assumes
`Straight`, no loop, restart or end among the lines (in a loop the order of the
lines is not the order of execution, and behind an `M30` the code may resume,
see above), and `Lone`, one call at a time (the resume line is a field of the
shared context). `Meant` and `Gentle` are as above. The invariant (`SkipInv`)
says that of the two places execution can go on at, the next line and the line
to resume at, neither passes over a line that is not yet executed (`Safe`,
`Covers`), that what is executed came in order (`Sound`), and that a call which
has left the loop over the lines without a stop has covered them all. It must
speak of the trial run, in which the resume line is nought except after a stop
that cuts it short, and of the idle call, whose trace is what the next start
resumes from. `CoversRecords` shows that recording a line moves the place by
one, `StraightLines` that for such a program what is covered is `Lines`, and
`NonePassedOver` that the invariant implies the property.

`PdoMotion_proofs` proves `TypeCorrect`, `PosOnlyInMoveHolds` and
`RestsAtGoalHolds` for every number of cycles, positions, faults, attempts and
events. The invariant of the first two adds that a move which waits before a
retry has an attempt left (`RetryOK`), without which the attempts would not stay
within their number. No helper but `EnablePosPDO(TRUE)` turns position control
on (the lemmas on the atomics), so that what the other goroutines do can be
dealt with at once (`OthersKeep`), and of the move only where it stands after
each step matters (`MoverKeeps`).

`RestsAtGoal` needs to follow the goal: `SetTargetPositionPDO` stores it in
an atomic, the cyclic task copies that into a frame, the drive takes the frame's
target over and says reached, and the status with it comes back a cycle later.
`GoalInv` says when the last of these may be believed: while position control
is on, the stored target is the goal (`GoalStored`); the drive says reached only
where its own target is (`ReachedIsThere`), and what was received is a copy of
the drive as long as its cycle lasts (`StatusIsDrive`). Phase 2 and the check that
the position is stable see bit 10 high only after Phase 1.5 has seen it low, so
that the frame under way carries this goal and not an earlier one, and a position
equal to the goal is one the drive has taken as its target (`ArrivalIsFresh`,
`RestIsFresh`). What the other goroutines do to the atomics can take position
control away but neither give it nor change the target (`Loosens`), which is
why the many helpers need one lemma each and no case in the invariant.

`Alarms_proofs` proves `TypeCorrect`, `AlarmHasOwnerHolds`, `NobodyMissesHolds`,
`AlwaysWatchedHolds`, `AlarmStopsHolds` and the action property `GateShutHolds`
for every number of drives, codes, panels, calls, generations of pollers and
events and every capacity. `IInv` adds four
things. `Standing`: a report that nobody overwrote keeps the cache from *No
Alarms*, which is what `GateShut` rests on. `Remembers`: a poller that is about to
report, or to take a report back, has one. `Owned` adds to `AlarmHasOwner` that an
error which is cached while nobody watches came late; without it a reset that
never restarts the pollers could leave one behind. `Lists` and `Reaches`: as long
as no panel left and no two changes of the list met, every panel that was put into
it is in it and passed over by nobody; and from the load of the cached alarm on a
panel holds it, has received it, will receive it, or was passed over. There is one
lemma for each action, and in it one step for each part of `IInv` that the action
can disturb.

`Positioning_proofs` proves `TypeCorrect` and `WayIsRightHolds` for all angles, and
`GoalIsRightHolds` and `MovesWhereToldHolds` for angles from -360 degrees on, for
every turn, tolerance, setting, jog and slip. Below -360 `GetRelativePosition`
returns a negative destination, from which the next relative move does not start,
and both fail: TLC finds it with commands of one and a half and two
turns back. `Same` says
that two angles differ by whole turns; the lemmas on it say of each function of
the position finder that position and way lead to the place of the destination
(`AbsolutePathSame`, `ShortestPathSame`, `RelativeSame`). `Aimed` is the
inductive part: the goal fixed at the first attempt is at the compensated
destination, and the way of a later one is what is left to it. `AsTold` ties the
destination to the command, and `WithinAdd` adds the tolerance and the one
degree of a relative move, where `Arc` is the shorter way between two angles
(`ArcShortest`, `ArcAttained`).

The assumptions are the named ones of the modules: capacities of at least one, a
program for every file that is a sequence of commands, natural bounds. TLC
evaluates them in every run.

Model-checked only: liveness (`TrialEnds`, `MoveEnds`) and whatever depends on
ENABLED, which the prover does not handle.

## Not modelled

* **The handshake of `notifyDriverStatusWithWait`**: two callers share one flag
  and one channel, and the mode events answer without having been asked. What the
  comments promise of it does not hold with the callers the code has; it is
  recorded as a hazard.
* **GPIO buttons, RS232 mode, licence gate, step mode, multi-turn reset, power
  over SDO**: further events of components that are modelled.
* **Bus start-up, drive register layouts, program text, settings, REST interface,
  update, gateways**: input and output, or done before anything runs
  concurrently.
* **The web pages**: 214 thousand lines of JavaScript in `www` are, but for a few
  controllers, copies of Ionic, AngularJS, jQuery and CodeMirror. The program
  itself is the Go code; of the pages only the handler of `alarm_error`
  (`www/js/controllers.js`) takes part in a protocol that is modelled here. A
  share of JavaScript lines that the modules stand for is therefore next to
  nothing, and says nothing of the Go code.
* **Floating point**: roundings to three digits, pulses, and the exact values of
  the tolerances.

## Plan

1. `PdoMotion` with the zero return and the multi-turn reset, and an abstract
   move (begin, reach or fail) that it and `Positioning` implement.
2. `ProgramControl` with the GPIO program button and RS232 mode; a run on
   `last_line.txt` after a restart, one on a failed trial.
3. The update flag and its retries; POT and NOT limits in `Positioning`.
4. Proofs: `NothingSkipped` for programs with loops, where the place in a loop
   is its line and `LoopCount` together; the abstract move of item 1.
