----------------------------- MODULE PdoCyclic ------------------------------
(***************************************************************************)
(* One axis on the EtherCAT bus: the atomics of its MasterDevice, the 1 ms *)
(* cyclic task (pdo_cyclic_task.go) that turns them into control words and *)
(* set-points, and the drive that answers.  The task does not run in one   *)
(* piece: it loads the goal, then ppSetpointPending, and clears that later, *)
(* while motion goroutines store into the same atomics.  The cyclic task   *)
(* is running all the time; its start and stop are not modelled.           *)
(***************************************************************************)
EXTENDS Integers

CONSTANTS
  Settle,       \* cycles with bit 4 low before a set-point, 10 in the code
  AckLimit,     \* cycles after which bit 12 is no longer waited for, 30
  MaxPos,       \* the positions jogged to are 0 .. MaxPos
  MaxFaults     \* faults of the drive

ASSUME CyclesAssumption ==
  /\ Settle \in Nat \ {0}
  /\ AckLimit \in Nat /\ AckLimit >= Settle
ASSUME BoundsAssumption == MaxPos \in Nat \ {0} /\ MaxFaults \in Nat

VARIABLES
  dev,          \* the atomics of the MasterDevice
  latch,        \* latchCounters[idx]
  tick,         \* where the cyclic task is in its cycle
  frame,        \* what it sends to the drive
  drive,        \* the drive: CiA 402 state, position, bits 10 and 12
  fb,           \* PDOStatus and PDOPos: the drive as last received
  faults        \* faults so far

cyclicVars == <<latch, tick, frame, drive, fb, faults>>

States == {"disabled", "ready", "on", "enabled", "fault"}
ControlWords == {"disable", "shutdown", "switchon", "enable", "setpoint",
                 "reset"}

\* jog, pos: pdoJogEnabled, pdoPosEnabled; moving: desiredTargetVelocity is
\* not zero; settle: forceLatchReset; mask, val: bit 1 of desiredDigOutMask
\* and desiredDigOutVal, the brake.
Device ==
  [jog : BOOLEAN, pos : BOOLEAN, pending : BOOLEAN, target : Int,
   moving : BOOLEAN, aborted : BOOLEAN, settle : BOOLEAN, shutdown : BOOLEAN,
   faultReset : BOOLEAN, mask : BOOLEAN, val : BOOLEAN]

Drive == [pds : States, pos : Int, target : Int, ack : BOOLEAN,
          reached : BOOLEAN]

Status == [pds : States, pos : Int, ack : BOOLEAN, reached : BOOLEAN]

Frame == [cw : ControlWords, mode : {"position", "velocity"}, target : Int,
          moving : BOOLEAN]

CyclicTypeOK ==
  /\ dev \in Device
  /\ latch \in 0 .. AckLimit
  /\ tick \in {"idle", "pulse", "clear", "send"}
  /\ frame \in Frame
  /\ drive \in Drive /\ fb \in Status
  /\ faults \in 0 .. MaxFaults

----------------------------------------------------------------------------
\* The helpers of the motion goroutines, on the atomics d.

EnableJogPDO(on, d) ==
  IF on THEN [d EXCEPT !.jog = TRUE, !.pos = FALSE, !.settle = TRUE]
  ELSE [d EXCEPT !.jog = FALSE]

EnablePosPDO(on, d) ==
  IF on THEN [d EXCEPT !.pos = TRUE, !.jog = FALSE, !.pending = TRUE]
  ELSE [d EXCEPT !.pos = FALSE]

SetTargetPositionPDO(p, d) == [d EXCEPT !.target = p, !.pending = TRUE]

pdoStopMotion(d) ==
  [EnablePosPDO(FALSE, EnableJogPDO(FALSE, d)) EXCEPT !.moving = FALSE]

FastPowerOff(d) == [pdoStopMotion(d) EXCEPT !.shutdown = TRUE]
FastPowerOn(d) == [pdoStopMotion(d) EXCEPT !.shutdown = FALSE]

\* The brake is a digital output: driven only where the mask is set.
BrakeOn(d) == d.mask /\ d.val
breakOn(d) == [d EXCEPT !.mask = TRUE, !.val = TRUE]
breakOff(d) == [d EXCEPT !.mask = FALSE, !.val = TRUE]

----------------------------------------------------------------------------
\* The cyclic task.  A frame that was sent is of no more interest.

Sent == [cw |-> "enable", mode |-> "velocity", target |-> 0, moving |-> FALSE]

cia402NextControlword(pds, faultReset) ==
  CASE pds = "fault"    -> IF faultReset THEN "reset" ELSE "disable"
    [] pds = "disabled" -> "shutdown"
    [] pds = "ready"    -> "switchon"
    [] OTHER            -> "enable"

Feedback(d) == [pds |-> d.pds, pos |-> d.pos, ack |-> d.ack,
                reached |-> d.reached]

\* It receives the status and chooses the mode; the goal is loaded here.
\* A shutdown is asked for unless an enabled drive jogs or positions.
Receive ==
  LET enabled == drive.pds = "enabled"
      steady == dev.shutdown /\ ~ (enabled /\ (dev.jog \/ dev.pos))
  IN
  /\ tick = "idle"
  /\ fb' = Feedback(drive)
  /\ frame' =
       [cw |-> IF steady THEN "shutdown"
               ELSE cia402NextControlword(drive.pds, dev.faultReset),
        mode |-> IF dev.pos /\ ~ dev.jog THEN "position" ELSE "velocity",
        target |-> IF dev.pos /\ ~ dev.jog THEN dev.target ELSE drive.pos,
        moving |-> dev.jog /\ dev.moving]
  /\ tick' = IF enabled /\ dev.pos /\ ~ dev.jog THEN "pulse" ELSE "send"
  /\ UNCHANGED <<dev, latch, drive, faults>>

\* Mutant: the counter is tested before it is incremented.
PulseLate ==
  LET c == IF dev.settle THEN 0 ELSE latch IN
  /\ tick = "pulse"
  /\ IF ~ dev.pending
     THEN tick' = "send" /\ UNCHANGED <<dev, latch, frame>>
     ELSE /\ dev' = [dev EXCEPT !.settle = FALSE]
          /\ IF c < Settle
             THEN latch' = c + 1 /\ tick' = "send" /\ UNCHANGED frame
             ELSE /\ frame' = [frame EXCEPT !.cw = "setpoint"]
                  /\ IF fb.ack \/ c > AckLimit
                     THEN tick' = "clear" /\ latch' = c
                     ELSE tick' = "send" /\ latch' = c + 1
  /\ UNCHANGED <<drive, fb, faults>>

\* The set-point handshake of profile position: bit 4 low for Settle cycles,
\* then high until bit 12 answers or AckLimit is passed.
Pulse ==
  LET c == IF dev.settle THEN 0 ELSE latch IN
  /\ tick = "pulse"
  /\ IF ~ dev.pending
     THEN tick' = "send" /\ UNCHANGED <<dev, latch, frame>>
     ELSE /\ dev' = [dev EXCEPT !.settle = FALSE]
          /\ IF c < Settle
             THEN latch' = c + 1 /\ tick' = "send" /\ UNCHANGED frame
             ELSE /\ frame' = [frame EXCEPT !.cw = "setpoint"]
                  /\ IF fb.ack \/ c + 1 > AckLimit
                     THEN tick' = "clear" /\ latch' = c
                     ELSE tick' = "send" /\ latch' = c + 1
  /\ UNCHANGED <<drive, fb, faults>>

Clear ==
  /\ tick = "clear"
  /\ dev' = [dev EXCEPT !.pending = FALSE]
  /\ latch' = 0
  /\ tick' = "send"
  /\ UNCHANGED <<frame, drive, fb, faults>>

----------------------------------------------------------------------------
\* The drive.  It may fault, ignore a fault reset, take a few cycles to
\* acknowledge a set-point, acknowledge one and not start, and be slow.

Toward(p, t) == IF p < t THEN p + 1 ELSE IF p > t THEN p - 1 ELSE p

Obey(pds, cw) ==
  CASE pds = "fault" /\ cw = "reset"       -> {"fault", "disabled"}
    [] pds # "fault" /\ cw = "shutdown"    -> {"ready"}
    [] pds = "ready" /\ cw = "switchon"    -> {"on"}
    [] pds = "on" /\ cw = "enable"         -> {"enabled"}
    [] OTHER                               -> {pds}

\* Not enabled, it stays where it is and knows no target.
Powerless == [drive EXCEPT !.target = drive.pos, !.ack = FALSE]

\* In profile velocity it follows the velocity; what was still moving may
\* come one step further.
Velocity ==
  LET near == IF frame.moving THEN {drive.pos} \cup
                                 ({drive.pos - 1, drive.pos + 1} \cap 0 .. MaxPos)
              ELSE {drive.pos, Toward(drive.pos, drive.target)}
  IN {[drive EXCEPT !.pos = p, !.target = p, !.ack = FALSE, !.reached = TRUE]
        : p \in near}

\* In profile position a rising bit 4 is a new set-point: acknowledged at
\* once, later, or without a start.
Position ==
  LET moved(d) == {[d EXCEPT !.pos = p, !.reached = (p = d.target)]
                     : p \in {d.pos, Toward(d.pos, d.target)}}
      accepted == [drive EXCEPT !.ack = TRUE, !.target = frame.target,
                                !.reached = (drive.pos = frame.target)]
  IN IF frame.cw # "setpoint" THEN moved([drive EXCEPT !.ack = FALSE])
     ELSE IF drive.ack THEN moved(drive)
     ELSE {accepted, drive, [drive EXCEPT !.ack = TRUE]}

Answers ==
  IF drive.pds # "enabled" THEN {Powerless}
  ELSE IF frame.mode = "position" THEN Position ELSE Velocity

Send ==
  /\ tick = "send"
  /\ tick' = "idle"
  /\ \E d \in Answers, s \in Obey(drive.pds, frame.cw) :
       \/ drive' = [d EXCEPT !.pds = s] /\ UNCHANGED faults
       \/ /\ faults < MaxFaults /\ drive.pds = "enabled"
          /\ drive' = [d EXCEPT !.pds = "fault"]
          /\ faults' = faults + 1
  /\ frame' = Sent
  /\ UNCHANGED <<dev, latch, fb>>

CyclicInit ==
  /\ dev = [jog |-> FALSE, pos |-> FALSE, pending |-> FALSE, target |-> 0,
            moving |-> FALSE, aborted |-> FALSE, settle |-> FALSE,
            shutdown |-> FALSE, faultReset |-> FALSE, mask |-> FALSE,
            val |-> FALSE]
  /\ latch = 0 /\ tick = "idle" /\ faults = 0
  /\ drive = [pds |-> "enabled", pos |-> 0, target |-> 0, ack |-> FALSE,
              reached |-> TRUE]
  /\ fb = Feedback(drive)
  /\ frame = Sent
=============================================================================
