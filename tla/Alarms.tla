------------------------------- MODULE Alarms -------------------------------
(***************************************************************************)
(* The way of an alarm: the polling goroutines of the drives, the cached   *)
(* alarm of package statusnotifier, the broadcast to the operator panels,  *)
(* the stop that every alarm sends to the programs, the gate of RunCodeFile *)
(* that a cached alarm shuts, panels that connect and go, and the reset    *)
(* worker, which starts new pollers without the memory of the old ones.    *)
(*                                                                         *)
(* uiBradcastMessageListner starts a goroutine for every message, so that  *)
(* messages overtake each other: what is on its way is counted, for each   *)
(* alarm, and arrives in any order.                                        *)
(***************************************************************************)
EXTENDS Integers, FiniteSets, Sequences

CONSTANTS Drives,       \* the drives
          Gens,         \* bound: generations of pollers there are at a time
          Codes,        \* the error codes a drive shows, and their texts
          Clients,      \* operator panels
          Runs,         \* calls of RunCodeFile that may be under way at a time
          Clear,        \* "No Alarms"
          Notice,       \* any other text: a refused run, a reset that failed
          Budgets,      \* bound: how often each kind of event may happen
          InputCap      \* capacity of CommandExecInputChannel

ASSUME TextsAssumption ==
  Clear \notin Codes /\ Notice \notin Codes \cup {Clear}
Kinds == {"error", "panel", "complaint", "execute", "reset"}
ASSUME BoundsAssumption ==
  Budgets \subseteq [Kinds -> Nat] /\ InputCap \in Nat \ {0}

Texts == Codes \cup {Clear, Notice}

\* One goroutine for each drive in each generation.
Pollers == Drives \X Gens

VARIABLES
  drive,        \* the error the status word and 0x603F show; Clear for none
  last,         \* lastReportedErrCode of each poller; Clear for 0 and -1
  poller,       \* where each poller is
  cur,          \* the generation stopErrPollingChans belongs to
  watching,     \* errPollingRunning
  pdo,          \* pdoActive: whether the cyclic task could be started
  cached,       \* currentAlarmState
  hasCode,      \* currentErrorCode is not 0
  going,        \* messages posted to BroadCastUIChannel and not yet sent
  mail,         \* texts emitted to a panel that it has not received
  shows,        \* the alarm a panel shows
  link,         \* how far the connection of each panel is
  held,         \* the text OnConnection of a panel has loaded
  listed,       \* the panels in connectedClients.Clients
  torn,         \* panels whose change of that list met another change
  inputs,       \* CommandExecInputChannel
  running,      \* calls of RunCodeFile past the gate
  stopped,      \* execContext.StopExecution
  complaining,  \* a motion goroutine is inside Alarm
  resetting,    \* where the reset worker is
  left,         \* what is left of the budget
  fresh,        \* history: panels that received the alarm cached at present
  skipped,      \* history: panels a broadcast of it did not reach since they
                \* loaded the cached alarm
  disturbed,    \* history: a panel left, or two changes of the list met
  alarmed,      \* history: an alarm was posted, and its stop not taken back
  wiped,        \* history: drives whose report a later "No Alarms" overwrote
  late          \* history: the cached alarm is from a poller told to stop

pollVars == <<last, poller, hasCode, wiped>>
watchVars == <<cur, watching, pdo>>
boardVars == <<cached, fresh, skipped, late>>
postVars == <<going, alarmed>>
panelVars == <<mail, shows, link, held, listed, torn, disturbed>>
runVars == <<inputs, running, stopped>>
plantVars == <<drive, left>>
vars == <<pollVars, watchVars, boardVars, postVars, panelVars, runVars,
          plantVars, complaining, resetting>>

Flags ==
  /\ hasCode \in BOOLEAN /\ watching \in BOOLEAN /\ pdo \in BOOLEAN
  /\ stopped \in BOOLEAN /\ complaining \in BOOLEAN
  /\ disturbed \in BOOLEAN /\ alarmed \in BOOLEAN /\ late \in BOOLEAN
PollTypes ==
  /\ last \in [Pollers -> Codes \cup {Clear}]
  /\ poller \in [Pollers -> {"poll", "report", "send", "code", "recover",
                             "clear", "off"}]
  /\ cur \in Gens
  /\ wiped \in SUBSET Drives
BoardTypes ==
  cached \in Texts /\ fresh \in SUBSET Clients /\ skipped \in SUBSET Clients
MessageTypes ==
  /\ going \in [Texts -> Nat]
  /\ mail \in [Clients -> [Texts -> Nat]]
  /\ inputs \in Seq({"stop_prog_exec", "reset"})
  /\ Len(inputs) <= InputCap
PanelTypes ==
  /\ shows \in [Clients -> Texts]
  /\ link \in [Clients -> {"away", "adding", "added", "loaded", "on",
                           "leaving"}]
  /\ held \in [Clients -> Texts]
  /\ listed \in SUBSET Clients
  /\ torn \in SUBSET Clients
OtherTypes ==
  /\ drive \in [Drives -> Codes \cup {Clear}]
  /\ left \in [Kinds -> Nat]
  /\ running \in SUBSET Runs
  /\ resetting \in {"idle", "tell", "fault", "cleared", "kept", "done",
                    "failed", "saydone", "sayfailed"}
\* TypeOK: CommandExecInputChannel holds no more than its capacity, and the
\* caches, the messages, the panels and the workers are what the code has.
TypeOK ==
  /\ Flags /\ PollTypes /\ BoardTypes /\ MessageTypes /\ PanelTypes
  /\ OtherTypes

\* The process has started, with the cyclic task or without it: InitMaster goes
\* on either way.
Init ==
  /\ drive = [d \in Drives |-> Clear]
  /\ last = [p \in Pollers |-> Clear]
  /\ cur \in Gens
  /\ poller = [p \in Pollers |-> IF p[2] = cur THEN "poll" ELSE "off"]
  /\ watching = TRUE
  /\ pdo \in BOOLEAN
  /\ cached = Clear
  /\ hasCode = FALSE
  /\ going = [t \in Texts |-> 0]
  /\ mail = [c \in Clients |-> [t \in Texts |-> 0]]
  /\ shows = [c \in Clients |-> Clear]
  /\ link = [c \in Clients |-> "away"]
  /\ held = [c \in Clients |-> Clear]
  /\ listed = {}
  /\ torn = {}
  /\ inputs = <<>>
  /\ running = {}
  /\ stopped = FALSE
  /\ complaining = FALSE
  /\ resetting = "idle"
  /\ left \in Budgets
  /\ fresh = {}
  /\ skipped = {}
  /\ disturbed = FALSE
  /\ alarmed = FALSE
  /\ wiped = {}
  /\ late = FALSE

Spend(kind) == left[kind] > 0 /\ left' = [left EXCEPT ![kind] = @ - 1]

----------------------------------------------------------------------------
\* The cached alarm and the broadcast.

\* Alarm stores the text, and later posts it.
Cache(t) ==
  /\ cached' = t
  /\ fresh' = IF t = cached THEN fresh ELSE {}
  /\ skipped' = IF t = cached THEN skipped ELSE {}

\* Slip: every new panel is told "No Alarms", and no run is refused.
NoAlarm == Clear

GetCurrentAlarm == cached

Post(t) ==
  /\ going' = [going EXCEPT ![t] = @ + 1]
  /\ alarmed' = (alarmed \/ t # Clear)

\* Slip: an alarm with a code tells the panels and no more.
StopForNotice(t) ==
  \/ t # Notice /\ UNCHANGED inputs
  \/ /\ t = Notice /\ Len(inputs) < InputCap
     /\ inputs' = Append(inputs, "stop_prog_exec")

\* Slip: the stop is written without waiting for room.
StopAtOnce(t) ==
  inputs' = IF t = Clear THEN inputs ELSE Append(inputs, "stop_prog_exec")

\* A stop for every alarm that is not "No Alarms"; a full channel blocks.
StopFor(t) ==
  \/ t = Clear /\ UNCHANGED inputs
  \/ /\ t # Clear /\ Len(inputs) < InputCap
     /\ inputs' = Append(inputs, "stop_prog_exec")

\* One sendAlarm goroutine: the stop, and an emit to each panel in the list of
\* clients.  removeClient shifts the list in place, without a lock: a broadcast
\* that runs over it meanwhile may pass over any panel.
SendAlarm(t) ==
  /\ going[t] > 0
  /\ going' = [going EXCEPT ![t] = @ - 1]
  /\ StopFor(t)
  /\ \E to \in SUBSET listed :
       /\ to = listed \/ \E c \in Clients : link[c] = "leaving"
       /\ mail' = [c \in Clients |->
                     IF c \in to THEN [mail[c] EXCEPT ![t] = @ + 1]
                     ELSE mail[c]]
       /\ skipped' = IF t = cached THEN skipped \cup (Clients \ to)
                     ELSE skipped
  /\ UNCHANGED <<alarmed, cached, fresh, late, shows, link, held, listed, torn,
                 disturbed, running, stopped, complaining, resetting, pollVars,
                 watchVars, plantVars>>

\* The panel's alarm_error handler: the lamp and the banner follow the text.
OnAlarmError(c, t) ==
  /\ mail[c][t] > 0
  /\ mail' = [mail EXCEPT ![c][t] = @ - 1]
  /\ shows' = [shows EXCEPT ![c] = t]
  /\ fresh' = IF t = cached THEN fresh \cup {c} ELSE fresh
  /\ UNCHANGED <<cached, skipped, late, link, held, listed, torn, disturbed,
                 complaining, resetting, pollVars, watchVars, postVars,
                 runVars, plantVars>>

\* Alarm called from elsewhere: a move that failed, a reset refused because a
\* motor runs.
Complain ==
  /\ ~ complaining
  /\ Spend("complaint")
  /\ Cache(Notice) /\ late' = FALSE
  /\ complaining' = TRUE
  /\ UNCHANGED <<drive, resetting, pollVars, watchVars, postVars, panelVars,
                 runVars>>

PostComplaint ==
  /\ complaining
  /\ Post(Notice)
  /\ complaining' = FALSE
  /\ UNCHANGED <<resetting, pollVars, watchVars, boardVars, panelVars,
                 runVars, plantVars>>

----------------------------------------------------------------------------
\* Panels.  Each connection has a goroutine of its own; the list of clients is
\* read, changed and written back without a lock.

Updating == {c \in Clients : link[c] \in {"adding", "leaving"}}

\* Two changes that are under way at the same time spoil each other.
BeginUpdate(c) ==
  torn' = IF Updating = {} THEN torn ELSE torn \cup Updating \cup {c}

\* What a change leaves in the list: the last write wins, so that one that met
\* another may undo it, or drop panels that have nothing to do with either.
EndUpdate(c, after) ==
  /\ torn' = torn \ {c}
  /\ IF c \in torn
     THEN listed' \in SUBSET {k \in Clients : link'[k] # "away"}
     ELSE listed' = after

\* OnConnection: the panel is put into the list of clients,
Connect(c) ==
  /\ link[c] = "away"
  /\ Spend("panel")
  /\ link' = [link EXCEPT ![c] = "adding"]
  /\ BeginUpdate(c)
  /\ disturbed' = (disturbed \/ Updating # {})
  /\ UNCHANGED <<drive, mail, shows, held, listed, complaining, resetting,
                 pollVars, watchVars, boardVars, postVars, runVars>>

AddClient(c) ==
  /\ link[c] = "adding"
  /\ link' = [link EXCEPT ![c] = "added"]
  /\ EndUpdate(c, listed \cup {c})
  /\ UNCHANGED <<mail, shows, held, disturbed, complaining, resetting,
                 pollVars, watchVars, boardVars, postVars, runVars, plantVars>>

\* then the cached alarm is loaded,
LoadCurrent(c) ==
  /\ link[c] = "added"
  /\ link' = [link EXCEPT ![c] = "loaded"]
  /\ held' = [held EXCEPT ![c] = GetCurrentAlarm]
  /\ skipped' = skipped \ {c}
  /\ UNCHANGED <<mail, shows, listed, torn, disturbed, cached, fresh, late,
                 complaining, resetting, pollVars, watchVars, postVars,
                 runVars, plantVars>>

\* and the panel is told it, and the same text is posted for all.
PushCurrent(c) ==
  /\ link[c] = "loaded"
  /\ mail' = [mail EXCEPT ![c][held[c]] = @ + 1]
  /\ Post(held[c])
  /\ link' = [link EXCEPT ![c] = "on"]
  /\ held' = [held EXCEPT ![c] = Clear]
  /\ UNCHANGED <<shows, listed, torn, disturbed, complaining, resetting,
                 pollVars, watchVars, boardVars, runVars, plantVars>>

\* OnDisconnection of a panel, whose mail is lost,
Disconnect(c) ==
  /\ link[c] = "on"
  /\ link' = [link EXCEPT ![c] = "leaving"]
  /\ mail' = [mail EXCEPT ![c] = [t \in Texts |-> 0]]
  /\ BeginUpdate(c)
  /\ disturbed' = TRUE
  /\ fresh' = fresh \ {c}
  /\ UNCHANGED <<shows, held, listed, cached, skipped, late, complaining,
                 resetting, pollVars, watchVars, postVars, runVars, plantVars>>

\* and the end of removeClient.
RemoveClient(c) ==
  /\ link[c] = "leaving"
  /\ link' = [link EXCEPT ![c] = "away"]
  /\ mail' = [mail EXCEPT ![c] = [t \in Texts |-> 0]]
  /\ fresh' = fresh \ {c}
  /\ EndUpdate(c, listed \ {c})
  /\ UNCHANGED <<shows, held, disturbed, cached, skipped, late, complaining,
                 resetting, pollVars, watchVars, postVars, runVars, plantVars>>

----------------------------------------------------------------------------
\* The drives and their pollers.

\* A drive shows an error, another one, or none any more.
DriveShows(d, e) ==
  /\ drive[d] # e
  /\ \/ e = Clear /\ UNCHANGED left
     \/ e # Clear /\ Spend("error")
  /\ drive' = [drive EXCEPT ![d] = e]
  /\ UNCHANGED <<complaining, resetting, pollVars, watchVars, boardVars,
                 postVars, panelVars, runVars>>

\* The stop channel of the poller holds a message.
Told(p) == p[2] # cur \/ ~ watching

\* The rising edge: handleErrCode returns on a code it has reported.
Changed(p) == drive[p[1]] # Clear /\ drive[p[1]] # last[p]

\* Slip: a poller that has reported nothing announces that all is well.
RecoveredAlways(p) == drive[p[1]] = Clear

\* The error this poller reported is gone.
Recovered(p) == drive[p[1]] = Clear /\ last[p] # Clear

\* One look at the drive that finds something to do.  A stop that comes from
\* now on is heard after it has been done.
Look(p) ==
  /\ poller[p] = "poll" /\ ~ Told(p)
  /\ \/ /\ Changed(p)
        /\ last' = [last EXCEPT ![p] = drive[p[1]]]
        /\ poller' = [poller EXCEPT ![p] = "report"]
     \/ /\ Recovered(p)
        /\ poller' = [poller EXCEPT ![p] = "recover"]
        /\ UNCHANGED last
  /\ UNCHANGED <<hasCode, wiped, complaining, resetting, watchVars, boardVars,
                 postVars, panelVars, runVars, plantVars>>

\* handleErrCode with a new code: RecordFault, and the first half of Alarm.
Report(p) ==
  /\ poller[p] = "report"
  /\ Cache(last[p]) /\ late' = Told(p)
  /\ poller' = [poller EXCEPT ![p] = "send"]
  /\ wiped' = IF p[2] = cur THEN wiped \ {p[1]} ELSE wiped
  /\ UNCHANGED <<last, hasCode, complaining, resetting, watchVars, postVars,
                 panelVars, runVars, plantVars>>

PostReport(p) ==
  /\ poller[p] = "send"
  /\ Post(last[p])
  /\ poller' = [poller EXCEPT ![p] = "code"]
  /\ UNCHANGED <<last, hasCode, wiped, complaining, resetting, watchVars,
                 boardVars, panelVars, runVars, plantVars>>

\* DriverError stores the number.  Drives whose codes lie above 65280 announce
\* the same error once more here, which is left out.
DriverError(p) ==
  /\ poller[p] = "code"
  /\ hasCode' = TRUE
  /\ poller' = [poller EXCEPT ![p] = "poll"]
  /\ UNCHANGED <<last, wiped, complaining, resetting, watchVars, boardVars,
                 postVars, panelVars, runVars, plantVars>>

\* The drives, but that of p, whose newest poller remembers a report: a clear
\* by p overwrites it.
Overwrites(p) ==
  IF last[p] = Clear THEN {}
  ELSE {d \in Drives : <<d, cur>> # p /\ last[<<d, cur>>] # Clear}

\* AlarmCleared: nothing if the board is clear already, else the number is
\* zeroed and "No Alarms" cached; its loads and stores are one step.
AlarmCleared(p) ==
  /\ poller[p] = "recover"
  /\ last' = [last EXCEPT ![p] = Clear]
  /\ \/ /\ cached = Clear /\ ~ hasCode
        /\ poller' = [poller EXCEPT ![p] = "poll"]
        /\ UNCHANGED <<hasCode, wiped, boardVars>>
     \/ /\ cached # Clear \/ hasCode
        /\ hasCode' = FALSE
        /\ Cache(Clear) /\ late' = FALSE
        /\ poller' = [poller EXCEPT ![p] = "clear"]
        /\ wiped' = wiped \cup Overwrites(p)
  /\ UNCHANGED <<complaining, resetting, watchVars, postVars, panelVars,
                 runVars, plantVars>>

PostCleared(p) ==
  /\ poller[p] = "clear"
  /\ Post(Clear)
  /\ poller' = [poller EXCEPT ![p] = "poll"]
  /\ UNCHANGED <<last, hasCode, wiped, complaining, resetting, watchVars,
                 boardVars, panelVars, runVars, plantVars>>

\* The stop channel is found full.
StopPoller(p) ==
  /\ poller[p] = "poll" /\ Told(p)
  /\ poller' = [poller EXCEPT ![p] = "off"]
  /\ UNCHANGED <<last, hasCode, wiped, complaining, resetting, watchVars,
                 boardVars, postVars, panelVars, runVars, plantVars>>

----------------------------------------------------------------------------
\* The programs.

\* A stop that has not been heard.
StopOnWay ==
  \/ \E i \in 1 .. Len(inputs) : inputs[i] = "stop_prog_exec"
  \/ \E t \in Texts \ {Clear} : going[t] > 0

\* ExecutionContext.Reset: a stop that was heard is taken back, one on its way
\* is not.
ResetContext ==
  /\ stopped' = FALSE
  /\ alarmed' = (alarmed /\ StopOnWay)

\* RunCodeFile does not start a program while an alarm is cached.
Refused == GetCurrentAlarm # Clear

\* RunCodeFile up to its gate, whatever other calls are under way: a refused
\* run keeps the alarm in sight and executeProgram sends the reason after it.
Execute(r) ==
  /\ r \notin running
  /\ Spend("execute")
  /\ \/ /\ Refused
        /\ going' = [[going EXCEPT ![GetCurrentAlarm] = @ + 1]
                       EXCEPT ![Notice] = @ + 1]
        /\ alarmed' = TRUE
        /\ UNCHANGED running
     \/ /\ ~ Refused
        /\ Post(Clear)
        /\ running' = running \cup {r}
  /\ UNCHANGED <<drive, inputs, stopped, complaining, resetting, pollVars,
                 watchVars, boardVars, panelVars>>

\* A call of RunCodeFile clears StopExecution at any time: before the program
\* (PrepareExecutingFile, RunCodeFile, ResetExecutingProgram), around the trial
\* run, on M99 and M30, and when it is completed.
ClearStop ==
  /\ running # {}
  /\ ResetContext
  /\ UNCHANGED <<going, inputs, running, complaining, resetting, pollVars,
                 watchVars, boardVars, panelVars, plantVars>>

\* RunCodeFile returns, and executeProgram sends its error if there is one.
End(r) ==
  /\ r \in running
  /\ running' = running \ {r}
  /\ UNCHANGED postVars \/ Post(Notice)
  /\ UNCHANGED <<inputs, stopped, complaining, resetting, pollVars, watchVars,
                 boardVars, panelVars, plantVars>>

\* The input listener hears a stop,
HearStop ==
  /\ inputs # <<>> /\ Head(inputs) = "stop_prog_exec"
  /\ inputs' = Tail(inputs)
  /\ stopped' = TRUE
  /\ UNCHANGED <<running, complaining, resetting, pollVars, watchVars,
                 boardVars, postVars, panelVars, plantVars>>

\* or a reset.
HearReset ==
  /\ inputs # <<>> /\ Head(inputs) = "reset"
  /\ inputs' = Tail(inputs)
  /\ ResetContext
  /\ UNCHANGED <<going, running, complaining, resetting, pollVars, watchVars,
                 boardVars, panelVars, plantVars>>

----------------------------------------------------------------------------
\* The reset worker.

\* It stops the pollers,
Reset ==
  /\ resetting = "idle"
  /\ Spend("reset")
  /\ watching' = FALSE
  /\ resetting' = "tell"
  /\ UNCHANGED <<drive, cur, pdo, complaining, pollVars, boardVars, postVars,
                 panelVars, runVars>>

\* and tells the executor, behind what else is in the channel.  Without the
\* cyclic task the reset ends here: it has failed, and the other listeners are
\* restarted but not the pollers.
TellExecutor ==
  /\ resetting = "tell"
  /\ Len(inputs) < InputCap
  /\ inputs' = Append(inputs, "reset")
  /\ resetting' = IF pdo THEN "fault" ELSE "failed"
  /\ UNCHANGED <<running, stopped, complaining, pollVars, watchVars, boardVars,
                 postVars, panelVars, plantVars>>

\* PDOFaultReset: some of the drives are free of their error afterwards.
PDOFaultReset ==
  /\ resetting = "fault"
  /\ \E still \in SUBSET {d \in Drives : drive[d] # Clear} :
       /\ drive' = [d \in Drives |-> IF d \in still THEN drive[d] ELSE Clear]
       /\ resetting' = IF still = {} THEN "cleared" ELSE "kept"
  /\ UNCHANGED <<left, complaining, pollVars, watchVars, boardVars, postVars,
                 panelVars, runVars>>

\* Slip: pollers are restarted only after a reset that succeeded.
RestartIfCleared(g) ==
  [p \in Pollers |-> IF p[2] = g /\ resetting = "cleared" THEN "poll"
                     ELSE poller[p]]

Restarted(g) == [p \in Pollers |-> IF p[2] = g THEN "poll" ELSE poller[p]]

\* pollDriveError starts pollers without a memory.  Where no drive was in fault
\* it does so at once, and the old ones may still be at work.
RestartPollers(g) ==
  /\ resetting \in {"cleared", "kept"}
  /\ \A d \in Drives : poller[<<d, g>>] = "off"
  /\ cur' = g
  /\ watching' = TRUE
  /\ poller' = Restarted(g)
  /\ last' = [p \in Pollers |-> IF p[2] = g THEN Clear ELSE last[p]]
  /\ wiped' = {}
  /\ resetting' = IF resetting = "cleared" THEN "done" ELSE "failed"
  /\ UNCHANGED <<pdo, hasCode, complaining, boardVars, postVars, panelVars,
                 runVars, plantVars>>

\* Slip: a reset that failed is not told to who asks later.
VerdictIfDone == IF resetting = "done" THEN Clear ELSE cached

Verdict == IF resetting = "done" THEN Clear ELSE Notice

\* The outcome is cached after the pollers went on: it overwrites what they
\* reported meanwhile.
Conclude ==
  /\ resetting \in {"done", "failed"}
  /\ Cache(Verdict) /\ late' = FALSE
  /\ wiped' = IF resetting = "done"
              THEN {d \in Drives : last[<<d, cur>>] # Clear} ELSE wiped
  /\ resetting' = IF resetting = "done" THEN "saydone" ELSE "sayfailed"
  /\ UNCHANGED <<last, poller, hasCode, complaining, watchVars, postVars,
                 panelVars, runVars, plantVars>>

PostVerdict ==
  /\ resetting \in {"saydone", "sayfailed"}
  /\ Post(IF resetting = "saydone" THEN Clear ELSE Notice)
  /\ resetting' = "idle"
  /\ UNCHANGED <<complaining, pollVars, watchVars, boardVars, panelVars,
                 runVars, plantVars>>

----------------------------------------------------------------------------
Poller(p) ==
  \/ Look(p) \/ Report(p) \/ PostReport(p) \/ DriverError(p)
  \/ AlarmCleared(p) \/ PostCleared(p) \/ StopPoller(p)

Panel(c) ==
  \/ Connect(c) \/ AddClient(c) \/ LoadCurrent(c) \/ PushCurrent(c)
  \/ Disconnect(c) \/ RemoveClient(c)

ResetWorker ==
  \/ Reset \/ TellExecutor \/ PDOFaultReset
  \/ \E g \in Gens : RestartPollers(g)
  \/ Conclude \/ PostVerdict

Next ==
  \/ \E p \in Pollers : Poller(p)
  \/ \E d \in Drives, e \in Codes \cup {Clear} : DriveShows(d, e)
  \/ \E t \in Texts : SendAlarm(t)
  \/ \E c \in Clients, t \in Texts : OnAlarmError(c, t)
  \/ \E c \in Clients : Panel(c)
  \/ \E r \in Runs : Execute(r) \/ End(r)
  \/ Complain \/ PostComplaint \/ ClearStop \/ HearStop \/ HearReset
  \/ ResetWorker

Spec == Init /\ [][Next]_vars

----------------------------------------------------------------------------

(* GateShut: no call of RunCodeFile passes while the error that a drive was *)
(* reported with stands, "the operator must reset the fault before running  *)
(* a program", command_executor.go:153, unless the clear of another poller  *)
(* or that of a reset overwrote the report.  No panel that connects, no run *)
(* that is refused, no reset that failed, no second call and no poller that *)
(* has nothing to report opens the gate.                                    *)
Reported(d) == last[<<d, cur>>] # Clear /\ poller[<<d, cur>>] # "report"
GateShut ==
  [][\A r \in Runs : r \notin running /\ r \in running' =>
       \A d \in Drives : Reported(d) => d \in wiped]_vars

(* AlarmHasOwner: when a drive's error is cached, and with it the gate shut, *)
(* a poller that is at work remembers an error and will take the alarm back *)
(* when its drive recovers, or the reset worker will overwrite it: a reset   *)
(* that takes the memory of the pollers leaves no error behind, whatever    *)
(* becomes of the drives while it is at work.  The report of a poller that  *)
(* was told to stop before it got to it is excepted.                        *)
AlarmHasOwner ==
  cached \in Codes /\ ~ late =>
    \/ resetting \in {"tell", "fault", "cleared", "kept", "done", "failed"}
    \/ \E d \in Drives : last[<<d, cur>>] # Clear /\ poller[<<d, cur>>] # "off"

(* NobodyMisses: every panel that is connected has received the alarm that  *)
(* is cached, or it is on its way to it: a panel that connects at any point *)
(* of Alarm gets it from the cache or from the broadcast.  Once a panel has *)
(* left, or two changes of the list of clients have met, a panel can be     *)
(* passed over, or be out of the list for good; but then the alarm has been *)
(* sent to the others.                                                      *)
Pending(t) ==
  \/ going[t] > 0
  \/ \E p \in Pollers : poller[p] = "send" /\ last[p] = t
  \/ t = Clear /\ \E p \in Pollers : poller[p] = "clear"
  \/ t = Notice /\ complaining
  \/ t = Clear /\ resetting = "saydone"
  \/ t = Notice /\ resetting = "sayfailed"
Reached(c) == c \in fresh \/ mail[c][cached] > 0 \/ Pending(cached)
NobodyMisses ==
  \A c \in Clients : link[c] = "on" =>
    Reached(c) \/ (disturbed /\ c \in skipped)

(* AlwaysWatched: where the cyclic task runs, every drive has a poller that *)
(* nobody told to stop, except while a reset is at work; and a reset,       *)
(* successful or not, gives it back: "All subsequent drive errors became    *)
(* invisible to the UI and logs", reset_driver_system.go:160, tells of the  *)
(* time when it did not.  Without the cyclic task the first reset ends the  *)
(* polling for good.                                                        *)
AlwaysWatched ==
  pdo /\ resetting \notin {"tell", "fault", "cleared", "kept"}
    => \A d \in Drives : poller[<<d, cur>>] # "off" /\ ~ Told(<<d, cur>>)

(* AlarmStops: an alarm that is posted stops the programs: StopExecution is *)
(* set, or a message that will set it is still on its way, until a reset    *)
(* that is heard or a call of RunCodeFile (its start, its trial run, M99,   *)
(* M30, its end) clears the flag; and that does not take back the stop of   *)
(* an alarm that is still on its way.                                       *)
AlarmStops == alarmed => stopped \/ StopOnWay
=============================================================================
