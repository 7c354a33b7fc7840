----------------------------- MODULE Positioning -----------------------------
(***************************************************************************)
(* From a commanded angle to an angle of the shaft: moveMotorToDegree,     *)
(* moveToZero and a jog, with the arithmetic of position_finder.go and     *)
(* drive_angle_manipulation.go and the part of the drive's status that     *)
(* enters it.  Angles are whole numbers of a unit, Turn of them make 360   *)
(* degrees, so that roundings to three digits disappear; the shaft is what *)
(* ReadActualPositionFromDrive returns.                                    *)
(*                                                                         *)
(* A move is told in three steps, between which an operator's jog can come *)
(* as the code allows: up to the wait for the external controller, from    *)
(* there to the first doRotate, and each doRotate by itself.  The software *)
(* limits are not configured (POT = NOT = 0), and clamp and drive faults   *)
(* are module PdoMotion's.                                                 *)
(***************************************************************************)
EXTENDS Integers

CONSTANTS
  Turn,        \* units of a full turn
  Near,        \* the 1.0 degree of getRelativePosition
  Tolerance,   \* positionToleranceFinal and positionToleranceFastPath
  Angles,      \* angles a program or an operator commands, signed
  Jogs,        \* what a jog moves the shaft by
  Slips,       \* where a drive that reports its target reached stands off it
  BackLash,    \* the setting of that name
  PitchError,  \* the settings of that name, by destination
  HomeDirection

ASSUME TurnAssumption == Turn \in Nat /\ Turn % 2 = 0 /\ Turn > 0
ASSUME ToleranceAssumption ==
  /\ Tolerance \in Nat /\ Near \in Nat /\ Tolerance <= Near /\ 2 * Near < Turn
  /\ Slips \subseteq -Tolerance .. Tolerance
ASSUME SettingsAssumption ==
  /\ BackLash \in Nat
  /\ PitchError \in [-Turn .. Turn -> Int]
  /\ HomeDirection \in {0, 1}
  /\ Angles \subseteq Int /\ Jogs \subseteq Int \ {0}

VARIABLES
  shaft,   \* the angle of the encoder
  cached,  \* currentPosition of the status, written by the position poller
  status,  \* the other fields of driverCurrentStatus that a move reads
  move,    \* the locals of the moveMotorToDegree that holds motionMu
  result   \* how the last move ended

vars == <<shaft, cached, status, move, result>>

(***************************************************************************)
(* Arithmetic.                                                             *)
(***************************************************************************)
Abs(n) == IF n < 0 THEN -n ELSE n

\* math.Mod(n, 360): the result has the sign of n.
Mod(n) == IF n >= 0 THEN n % Turn ELSE -((-n) % Turn)

OnShaftAsRead(n) == Mod(n)

\* currentPosition adds a turn to what is negative.
OnShaft(n) == IF Mod(n) < 0 THEN Mod(n) + Turn ELSE Mod(n)

\* The angle a command leads to, as both functions below report it.
Destination(n) == IF n > 0 THEN Mod(n) ELSE Mod(n + Turn)

getAbsolutePathUnreduced(current, target) ==
  LET way == Turn - (current - target)
  IN IF target < 0 /\ way > 0 THEN way - Turn ELSE way

\* Positive commands turn clockwise, negative ones counter-clockwise.
getAbsolutePath(current, target) ==
  LET far == Turn - (current - target)
      way == IF Abs(far) > Turn THEN Mod(far) ELSE far
  IN IF target < 0 /\ way > 0 THEN way - Turn ELSE way

getAbsolutePositionWithShortestPath(current, target) ==
  LET diff == Mod(target - current)
      way == Turn \div 2 - Abs(Abs(diff) - Turn \div 2)
  IN IF Mod(diff + Turn) < Turn \div 2 THEN way ELSE -way

GetAbsolutePosition(current, target, shortest) ==
  [toMove |-> IF shortest
              THEN getAbsolutePositionWithShortestPath(current, target)
              ELSE getAbsolutePath(current, target),
   destination |-> Destination(target)]

GetRelativePositionFromShaft(current, by, last) ==
  [toMove |-> by, destination |-> Destination(current + by)]

\* -1 stands for no destination yet.
GetRelativePosition(current, by, last) ==
  LET from == IF Mod(last) = -1 THEN current ELSE Mod(last) IN
  [toMove |-> IF from = current THEN by
              ELSE IF Turn - current > Abs(from - current)
                   THEN from + by - current
                   ELSE from + Turn + by - current,
   destination |-> Destination((IF from >= 0 THEN from ELSE current) + by)]

\* A last destination that is not near is replaced by where the shaft is.
getRelativePosition(current, by, last) ==
  GetRelativePosition(current, by,
                      IF Abs(current - last) > Near THEN current ELSE last)

getPitchError(destination) == PitchError[destination]

shortestPathToZero(current) ==
  LET cw == Mod(Turn - Mod(current))
      ccw == Mod(-Mod(current))
      clockwise == \/ Abs(cw) < Abs(ccw)
                   \/ Abs(cw) = Abs(ccw) /\ HomeDirection = 1
  IN IF clockwise THEN cw ELSE ccw

(***************************************************************************)
(* The status keeper's answers to the events of this module.               *)
(***************************************************************************)
\* rotation_direction: what it does to the backlash comes out as this.
Turned(s, dir) == [s EXCEPT !.direction = dir,
                            !.backlash = IF dir > 0 THEN 0 ELSE BackLash]

\* reset: keeps the direction.  It zeroes the cached position as well.
Cleared(s) == [s EXCEPT !.mode = "ABS", !.shortestPathEnabled = FALSE,
                        !.destinationPosition = -1, !.backlash = 0]

(***************************************************************************)
(* States.                                                                 *)
(***************************************************************************)
Idle == [pc |-> "idle"]

\* The zero value of a status has no mode, which is read as REL.
Init ==
  /\ shaft \in 0 .. Turn - 1
  /\ cached = 0
  /\ status = [mode |-> "REL", shortestPathEnabled |-> FALSE,
               destinationPosition |-> 0, direction |-> 0, backlash |-> 0]
  /\ move = Idle
  /\ result = "none"

(***************************************************************************)
(* A move.                                                                 *)
(***************************************************************************)
\* The way is worked out before the wait for the external controller.
Begin(angle) ==
  LET way == IF status.mode = "ABS"
             THEN GetAbsolutePosition(shaft, angle, status.shortestPathEnabled)
             ELSE getRelativePosition(shaft, angle, status.destinationPosition)
  IN
  /\ move = Idle
  /\ move' = [pc |-> "ecs", angle |-> angle, current |-> shaft,
              last |-> status.destinationPosition, mode |-> status.mode,
              shortest |-> status.shortestPathEnabled,
              toMove |-> way.toMove, destination |-> way.destination]
  /\ UNCHANGED <<shaft, cached, status, result>>

AtTarget == status.mode = "ABS" /\ Abs(shaft - move.destination) <= Tolerance

\* A stop or a reset calls the ECS check off.
NoEcs ==
  /\ move.pc = "ecs"
  /\ move' = Idle
  /\ result' = "off"
  /\ UNCHANGED <<shaft, cached, status>>

\* Already there: a finish signal, or none if the last one is not 3 s old.
FastPath ==
  /\ move.pc = "ecs"
  /\ AtTarget
  /\ move' = Idle
  /\ result' \in {"fin", "dup"}
  /\ UNCHANGED <<shaft, cached, status>>

directionOf(shortest, toMove) ==
  IF shortest /\ toMove <= 0 THEN -1 ELSE 1

\* setDirection waits for the status, but the backlash was read before it.
Compensation(before, after) == before.backlash

setDirection ==
  LET turned == Turned(status, directionOf(status.shortestPathEnabled,
                                           move.toMove))
      backlash == Compensation(status, turned)
      way == move.toMove + getPitchError(move.destination) - backlash
  IN
  /\ move.pc = "ecs"
  /\ ~ AtTarget
  /\ status' = [turned EXCEPT !.destinationPosition = move.destination]
  /\ move' = [pc |-> "rotate", attempt |-> 1, way |-> way,
              goal |-> move.current + way, backlash |-> backlash,
              cmd |-> [move EXCEPT !.pc = "rotate"], from |-> shaft]
  /\ UNCHANGED <<shaft, cached, result>>

RemainingAsBefore(now) == move.way

\* The way of the next attempt, to the goal fixed at the first.
Remaining(now) == move.goal - now

\* doRotate to its end, and the check of the final position behind it.
BlockedAt(now) ==
  LET off == Abs(now - move.cmd.destination) % Turn
  IN (IF 2 * off > Turn THEN Turn - off ELSE off) > Tolerance

doRotate(slip) ==
  LET now == OnShaft(shaft + move.way + slip) IN
  /\ move.pc = "rotate"
  /\ shaft' = now
  /\ result' = IF BlockedAt(now) THEN "blocked" ELSE "fin"
  /\ move' = Idle
  /\ UNCHANGED <<cached, status>>

\* "did not start" or "false target reached", after some of the way.
doRotateAgain(part) ==
  LET now == OnShaft(shaft + part) IN
  /\ move.pc = "rotate"
  /\ move.attempt < 3
  /\ shaft' = now
  /\ move' = [move EXCEPT !.attempt = @ + 1, !.way = Remaining(now)]
  /\ UNCHANGED <<cached, status, result>>

\* The third such answer, or any other: an alarm.
doRotateFails(part) ==
  /\ move.pc = "rotate"
  /\ shaft' = OnShaft(shaft + part)
  /\ result' = "failed"
  /\ move' = Idle
  /\ UNCHANGED <<cached, status>>

(***************************************************************************)
(* What else moves the shaft or changes the status.                        *)
(***************************************************************************)
\* ManualJog to StopJog: not under motionMu, so also while a move waits.
ManualJog(by) ==
  /\ move = Idle \/ move.pc = "ecs"
  /\ status' = Turned(status, IF by > 0 THEN 1 ELSE -1)
  /\ shaft' = OnShaft(shaft + by)
  /\ UNCHANGED <<cached, move, result>>

\* The way is that from the position the poller wrote last.  A zero
\* reference that does not get there leaves the status as it set it.
moveToZero(slip) ==
  LET way == shortestPathToZero(cached) IN
  /\ move = Idle
  /\ status' = [status EXCEPT !.backlash = 0, !.destinationPosition = 0]
  /\ \/ shaft' = OnShaft(shaft + way + slip) /\ result' = "fin"
     \/ shaft' \in {shaft, OnShaft(shaft + way \div 2)} /\ result' = "failed"
  /\ UNCHANGED <<cached, move>>

currentDriverPosition ==
  /\ cached' = shaft
  /\ UNCHANGED <<shaft, status, move, result>>

\* G90, G91, G68 and G69 of a program, its start and its end: also while a
\* move waits, by a handler that did not wait for it.  A rotation reads none
\* of this, so that what comes in one may as well come after it.
SetStatus ==
  /\ move.pc # "rotate"
  /\ \/ /\ \/ \E m \in {"ABS", "REL"} : status' = [status EXCEPT !.mode = m]
           \/ \E b \in BOOLEAN :
                status' = [status EXCEPT !.shortestPathEnabled = b]
        /\ UNCHANGED cached
     \/ status' = Cleared(status) /\ cached' = 0
  /\ UNCHANGED <<shaft, move, result>>

Parts == IF move.pc = "rotate" THEN {0, move.way \div 2, move.way} ELSE {}

Next ==
  \/ \E angle \in Angles : Begin(angle)
  \/ NoEcs
  \/ FastPath
  \/ setDirection
  \/ \E slip \in Slips : doRotate(slip)
  \/ \E part \in Parts : doRotateAgain(part) \/ doRotateFails(part)
  \/ \E by \in Jogs : ManualJog(by)
  \/ \E slip \in Slips : moveToZero(slip)
  \/ currentDriverPosition
  \/ SetStatus

Spec == Init /\ [][Next]_vars

(***************************************************************************)
(* Properties.                                                             *)
(***************************************************************************)
Places == -Turn + 1 .. Turn - 1

Commands(pc) ==
  [pc : {pc}, angle : Angles, current : 0 .. Turn - 1, last : Places,
   mode : {"ABS", "REL"}, shortest : BOOLEAN, toMove : Int,
   destination : Places]

\* TypeOK: the shaft is an angle within a turn, and destinations and ways stay
\* within the range the position finder gives them.
TypeOK ==
  /\ shaft \in 0 .. Turn - 1
  /\ cached \in 0 .. Turn - 1
  /\ status \in [mode : {"ABS", "REL"}, shortestPathEnabled : BOOLEAN,
                 destinationPosition : Places, direction : -1 .. 1,
                 backlash : {0, BackLash}]
  /\ result \in {"none", "off", "fin", "dup", "blocked", "failed"}
  /\ \/ move = Idle
     \/ move \in Commands("ecs")
     \/ move \in [pc : {"rotate"}, attempt : 1 .. 3, way : Int, goal : Int,
                  backlash : {0, BackLash}, cmd : Commands("rotate"),
                  from : 0 .. Turn - 1]

Arc(a, b) == LET d == (a - b) % Turn IN IF 2 * d > Turn THEN Turn - d ELSE d

(* WayIsRight: a move by the shortest path never turns more than half a     *)
(* turn; without it the sign of the angle is the direction, whatever the    *)
(* shaft's position, and one turn is the most.                              *)
WayIsRight ==
  move.pc = "ecs" /\ move.mode = "ABS" =>
    LET way == move.toMove IN
    IF move.shortest THEN 2 * Abs(way) <= Turn
    ELSE /\ Abs(way) <= Turn
         /\ IF move.angle < 0 THEN way <= 0 ELSE way >= 0

(* GoalIsRight: what doRotate is told leads, from where the shaft is, to the *)
(* destination and its compensation: at the first attempt when nothing moved *)
(* the shaft in the wait for the external controller, and at every later one *)
(* wherever those before it left the shaft.                                  *)
GoalIsRight ==
  move.pc = "rotate" =>
    \/ move.attempt = 1 /\ move.from # move.cmd.current
    \/ OnShaft(shaft + move.way) =
         OnShaft(move.cmd.destination + PitchError[move.cmd.destination]
                 - move.backlash)

(* MovesWhereTold: a move that sends its finish signal left the shaft within *)
(* the tolerance of the angle that was commanded, however it got there.  A   *)
(* relative one starts from the last destination, not from where the shaft   *)
(* was left, so that the deviations of relative moves do not add up; but     *)
(* they may once where the two lie on both sides of zero.                    *)
Told(m) ==
  IF m.mode = "ABS" THEN m.angle
  ELSE m.angle + IF m.last # -1 /\ Arc(m.last, m.current) <= Near
                 THEN m.last ELSE m.current

Drift(m) ==
  IF m.mode = "REL" /\ Abs(m.last - m.current) > Turn \div 2 THEN Near ELSE 0

MovesWhereTold ==
  [][LET m == IF move.pc = "rotate" THEN move.cmd ELSE move IN
     move # Idle /\ move' = Idle /\ result' \in {"fin", "dup"}
     => Arc(shaft', Told(m)) <= Tolerance + Drift(m)]_vars

(* CompensatesTravel: "The next programmatic setDirection() call will       *)
(* compare correctly and apply the right compensation on the first move     *)
(* after any jog", drive_rotation.go:74: a move by the shortest path makes  *)
(* up for the backlash when it turns against the clock, and only then.      *)
CompensatesTravel ==
  move.pc = "rotate" /\ move.cmd.shortest /\ move.cmd.toMove # 0 =>
    move.backlash = IF move.cmd.toMove < 0 THEN BackLash ELSE 0
==============================================================================
