------------------------------ MODULE Channels ------------------------------
(***************************************************************************)
(* The Go channels between the program executor, its input listener and    *)
(* the motor driver (package channels), and the completion handshake of    *)
(* channels/command_exec_complete.go.                                      *)
(*                                                                         *)
(* NotifyCmdComplete tests isChannelOpen, sends and clears isChannelOpen   *)
(* without a lock.  It is called by five goroutines, the Notifiers, so     *)
(* that each of the three is a step here, and so are the three of          *)
(* WaitTillCmdComplete, which the executor takes.                          *)
(***************************************************************************)
EXTENDS Integers, Sequences

CONSTANTS InputCap,     \* capacity of CommandExecInputChannel
          ActionCap     \* capacity of DriverActionChannel

ASSUME CapAssumption == InputCap \in Nat \ {0} /\ ActionCap \in Nat \ {0}

VARIABLES
  open,         \* isChannelOpen
  token,        \* how many messages CommandExecStatusChannel holds, 0 or 1
  notifying,    \* where each goroutine is in NotifyCmdComplete
  singleOpen,   \* isSingleModeOpen
  inputs,       \* CommandExecInputChannel
  actions,      \* DriverActionChannel
  alarm,        \* the cached alarm is not "No Alarms"
  alarms        \* alarms on their way to the clients, each of which makes
                \* sendAlarm write stop_prog_exec

completionVars == <<open, token, notifying>>
channelVars == <<open, token, notifying, singleOpen, inputs, actions, alarm,
                 alarms>>

(* The goroutines that report a completed command: the input listener, the  *)
(* driver action listener (set_rpm.go), the driver status listener (mode    *)
(* and path), the motion goroutine and the reset worker.                    *)
Notifiers == {"input", "action", "status", "motion", "reset"}

InputTypes == {"single", "continuous", "move_next_line", "stop_prog_exec",
               "reset", "waiting_for_ecs", "ecs_done"}
ActionTypes == {"SET_WORK_OFFSET", "MOVE_TO_POSITION", "POSITION_MODE",
                "SET_RPM", "START_EXECUTION", "PROGRAM_EXEC_COMPLETED",
                "STOP_PROGRAM_EXECUTION", "RESET", "EXIT_DRIVE_LISTENER"}

ChannelsTypeOK ==
  /\ open \in BOOLEAN
  /\ token \in 0 .. 1
  /\ notifying \in [Notifiers -> {"no", "check", "send", "clear"}]
  /\ singleOpen \in BOOLEAN
  /\ inputs \in Seq(InputTypes) /\ Len(inputs) <= InputCap
  /\ actions \in Seq(ActionTypes) /\ Len(actions) <= ActionCap
  /\ alarm \in BOOLEAN
  /\ alarms \in Nat

ChannelsInit ==
  /\ open = FALSE
  /\ token = 0
  /\ notifying = [n \in Notifiers |-> "no"]
  /\ singleOpen = FALSE
  /\ inputs = << >>
  /\ actions = << >>
  /\ alarm = FALSE
  /\ alarms = 0

----------------------------------------------------------------------------

\* Sends on the buffered channels: blocked while the buffer is full.
WriteCommandExecInput(m) ==
  Len(inputs) < InputCap /\ inputs' = Append(inputs, m)

NotifyMotorDriver(a) ==
  Len(actions) < ActionCap /\ actions' = Append(actions, a)

Silent(n) == notifying[n] = "no"

\* Goroutine n enters NotifyCmdComplete.  The flag is tested in the same step
\* as what n did before, which could be delayed as well; not so for the input
\* listener, whose flag StopExecution is seen before.
Tested == IF open THEN "send" ELSE "clear"
CallNotify(n) == notifying' = [notifying EXCEPT ![n] = Tested]
CallNotifyLater(n) == notifying' = [notifying EXCEPT ![n] = "check"]

NotifyCheck(n) ==
  /\ notifying[n] = "check"
  /\ CallNotify(n)
  /\ UNCHANGED <<open, token>>

\* Slip: a second message does not wait for room in the channel.
NotifySendMore(n) ==
  /\ notifying[n] = "send"
  /\ token' = token + 1
  /\ notifying' = [notifying EXCEPT ![n] = "clear"]
  /\ UNCHANGED open

NotifySend(n) ==
  /\ notifying[n] = "send"
  /\ token = 0
  /\ token' = 1
  /\ notifying' = [notifying EXCEPT ![n] = "clear"]
  /\ UNCHANGED open

NotifyClear(n) ==
  /\ notifying[n] = "clear"
  /\ open' = FALSE
  /\ notifying' = [notifying EXCEPT ![n] = "no"]
  /\ UNCHANGED token

NotifyCmdComplete(n) ==
  /\ NotifyCheck(n) \/ NotifySend(n) \/ NotifyClear(n)
  /\ UNCHANGED <<singleOpen, inputs, actions, alarm, alarms>>
=============================================================================
