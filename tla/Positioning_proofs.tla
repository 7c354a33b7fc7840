-------------------------- MODULE Positioning_proofs --------------------------
(***************************************************************************)
(* Types, the bounds of an absolute move, where each attempt of a move     *)
(* leads and where a finished one left the shaft, for every turn,          *)
(* tolerance, setting and set of angles.                                   *)
(***************************************************************************)
EXTENDS Positioning, TLAPS

(* What math.Mod returns lies within a turn of zero, on the side of its     *)
(* argument.                                                                *)
LEMMA ModBounds ==
  ASSUME NEW n \in Int
  PROVE /\ Mod(n) \in Places
        /\ n >= 0 => Mod(n) >= 0
        /\ n < 0 => Mod(n) <= 0
<1>1. CASE n >= 0
  <2>1. n % Turn \in 0 .. Turn - 1
    BY <1>1, TurnAssumption
  <2> QED BY <2>1, <1>1, TurnAssumption DEF Mod, Places
<1>2. CASE n < 0
  <2>1. (-n) % Turn \in 0 .. Turn - 1
    BY <1>2, TurnAssumption
  <2> QED BY <2>1, <1>2, TurnAssumption DEF Mod, Places
<1> QED BY <1>1, <1>2

LEMMA OnShaftType == ASSUME NEW n \in Int PROVE OnShaft(n) \in 0 .. Turn - 1
BY ModBounds, TurnAssumption DEF OnShaft, Places

LEMMA DestinationType == ASSUME NEW n \in Int PROVE Destination(n) \in Places
<1>1. n + Turn \in Int
  BY TurnAssumption
<1> QED BY <1>1, ModBounds DEF Destination

(* An absolute move follows the sign of its angle and takes one turn at most. *)
LEMMA AbsolutePathBounds ==
  ASSUME NEW current \in 0 .. Turn - 1, NEW target \in Int
  PROVE LET way == getAbsolutePath(current, target) IN
        /\ way \in Int
        /\ Abs(way) <= Turn
        /\ IF target < 0 THEN way <= 0 ELSE way >= 0
<1> DEFINE far == Turn - (current - target)
           way == IF Abs(far) > Turn THEN Mod(far) ELSE far
<1>1. far \in Int /\ (target >= 0 => far > 0)
  BY TurnAssumption
<1>2. Mod(far) \in Places /\ (far >= 0 => Mod(far) >= 0)
  BY <1>1, ModBounds
<1>3. way \in Int /\ Abs(way) <= Turn /\ (target >= 0 => way >= 0)
  BY <1>1, <1>2, TurnAssumption DEF Abs, Places
<1>4. getAbsolutePath(current, target)
        = IF target < 0 /\ way > 0 THEN way - Turn ELSE way
  BY DEF getAbsolutePath
<1> HIDE DEF way
<1> QED BY <1>3, <1>4, TurnAssumption DEF Abs

(* The shortest path is never more than half a turn.                        *)
LEMMA ShortestPathBounds ==
  ASSUME NEW current \in 0 .. Turn - 1, NEW target \in Int
  PROVE LET way == getAbsolutePositionWithShortestPath(current, target) IN
        way \in Int /\ 2 * Abs(way) <= Turn
<1> DEFINE diff == Mod(target - current)
           way == Turn \div 2 - Abs(Abs(diff) - Turn \div 2)
<1>1. diff \in Places
  <2>1. target - current \in Int
    BY TurnAssumption
  <2> QED BY <2>1, ModBounds
<1>2. Turn \div 2 \in Nat /\ 2 * (Turn \div 2) = Turn
  BY TurnAssumption
<1>3. way \in Int /\ 2 * Abs(way) <= Turn
  BY <1>1, <1>2, TurnAssumption DEF Abs, Places
<1>4. \/ getAbsolutePositionWithShortestPath(current, target) = way
      \/ getAbsolutePositionWithShortestPath(current, target) = -way
  BY DEF getAbsolutePositionWithShortestPath
<1> HIDE DEF way
<1> QED BY <1>3, <1>4 DEF Abs

LEMMA RelativeType ==
  ASSUME NEW current \in 0 .. Turn - 1, NEW by \in Int, NEW last \in Places
  PROVE /\ getRelativePosition(current, by, last).toMove \in Int
        /\ getRelativePosition(current, by, last).destination \in Places
<1> DEFINE near == IF Abs(current - last) > Near THEN current ELSE last
           from == IF Mod(near) = -1 THEN current ELSE Mod(near)
<1>1. near \in Int
  BY TurnAssumption DEF Places
<1>2. from \in Int
  BY <1>1, ModBounds, TurnAssumption DEF Places
<1>3. ((IF from >= 0 THEN from ELSE current) + by) \in Int
  BY <1>2, TurnAssumption
<1>4. Destination((IF from >= 0 THEN from ELSE current) + by) \in Places
  BY <1>3, DestinationType
<1>5. getRelativePosition(current, by, last).toMove
        = IF from = current THEN by
          ELSE IF Turn - current > Abs(from - current)
               THEN from + by - current
               ELSE from + Turn + by - current
  BY DEF getRelativePosition, GetRelativePosition
<1>6. getRelativePosition(current, by, last).destination
        = Destination((IF from >= 0 THEN from ELSE current) + by)
  BY DEF getRelativePosition, GetRelativePosition
<1> HIDE DEF from
<1> QED BY <1>2, <1>4, <1>5, <1>6, TurnAssumption

LEMMA ZeroType ==
  ASSUME NEW current \in 0 .. Turn - 1
  PROVE shortestPathToZero(current) \in Int
<1>1. Mod(current) \in Places
  BY ModBounds, TurnAssumption
<1>2. (-Mod(current)) \in Int /\ (Turn - Mod(current)) \in Int
  BY <1>1, TurnAssumption DEF Places
<1>3. Mod(-Mod(current)) \in Int /\ Mod(Turn - Mod(current)) \in Int
  BY <1>2, ModBounds, TurnAssumption DEF Places
<1> QED BY <1>3 DEF shortestPathToZero

IInv == TypeOK /\ WayIsRight

LEMMA InitIInv == Init => IInv
BY TurnAssumption DEF Init, IInv, TypeOK, WayIsRight, Idle, Places

LEMMA StepBegin ==
  ASSUME IInv, NEW angle \in Angles, Begin(angle) PROVE IInv'
<1> USE DEF IInv
<1> DEFINE s == status
           way == IF status.mode = "ABS"
             THEN GetAbsolutePosition(shaft, angle, status.shortestPathEnabled)
             ELSE getRelativePosition(shaft, angle, status.destinationPosition)
<1>1. shaft \in 0 .. Turn - 1 /\ angle \in Int /\ s.destinationPosition \in Places
      /\ s.mode \in {"ABS", "REL"} /\ s.shortestPathEnabled \in BOOLEAN
  BY SettingsAssumption DEF TypeOK
<1>2. way.toMove \in Int /\ way.destination \in Places
  BY <1>1, AbsolutePathBounds, ShortestPathBounds, RelativeType, DestinationType
     DEF GetAbsolutePosition
<1>3. s.mode = "ABS" => IF s.shortestPathEnabled THEN 2 * Abs(way.toMove) <= Turn
        ELSE /\ Abs(way.toMove) <= Turn
             /\ IF angle < 0 THEN way.toMove <= 0 ELSE way.toMove >= 0
  BY <1>1, AbsolutePathBounds, ShortestPathBounds DEF GetAbsolutePosition
<1>4. move' = [pc |-> "ecs", angle |-> angle, current |-> shaft,
              last |-> s.destinationPosition, mode |-> s.mode,
              shortest |-> s.shortestPathEnabled,
              toMove |-> way.toMove, destination |-> way.destination]
      /\ UNCHANGED <<shaft, cached, status, result>>
  BY DEF Begin
<1> HIDE DEF way
<1>5. TypeOK'
  BY <1>1, <1>2, <1>4 DEF TypeOK, Commands
<1>6. WayIsRight'
  BY <1>3, <1>4 DEF WayIsRight
<1> QED BY <1>5, <1>6

LEMMA StepEnds == ASSUME IInv, NoEcs \/ FastPath PROVE IInv'
BY DEF IInv, NoEcs, FastPath, TypeOK, WayIsRight, Idle

LEMMA StepDirection == ASSUME IInv, setDirection PROVE IInv'
<1> USE DEF IInv
<1> DEFINE turned == Turned(status, directionOf(status.shortestPathEnabled,
                                                move.toMove))
           way == move.toMove + getPitchError(move.destination) - status.backlash
<1>1. move \in Commands("ecs") /\ shaft \in 0 .. Turn - 1
  BY DEF TypeOK, setDirection, Idle
<1>2. way \in Int /\ move.current + way \in Int
  <2>1. /\ move.toMove \in Int /\ move.current \in 0 .. Turn - 1
        /\ move.destination \in Places /\ status.backlash \in {0, BackLash}
    BY <1>1 DEF TypeOK, Commands
  <2>2. Places \subseteq -Turn .. Turn
    BY TurnAssumption DEF Places
  <2>3. PitchError[move.destination] \in Int
    BY <2>1, <2>2, SettingsAssumption
  <2>4. getPitchError(move.destination) \in Int
    BY <2>3 DEF getPitchError
  <2>5. BackLash \in Int /\ Turn \in Int
    BY SettingsAssumption, TurnAssumption
  <2> QED BY <2>1, <2>4, <2>5
<1>3. status' = [turned EXCEPT !.destinationPosition = move.destination]
      /\ move' = [pc |-> "rotate", attempt |-> 1, way |-> way,
                 goal |-> move.current + way, backlash |-> status.backlash,
                 cmd |-> [move EXCEPT !.pc = "rotate"], from |-> shaft]
      /\ UNCHANGED <<shaft, cached, result>>
  BY DEF setDirection, Compensation
<1>4. [move EXCEPT !.pc = "rotate"] \in Commands("rotate")
  BY <1>1 DEF Commands
<1>5. status' \in [mode : {"ABS", "REL"}, shortestPathEnabled : BOOLEAN,
                 destinationPosition : Places, direction : -1 .. 1,
                 backlash : {0, BackLash}]
  <2>1. directionOf(status.shortestPathEnabled, move.toMove) \in -1 .. 1
    BY DEF directionOf
  <2>2. move.destination \in Places
    BY <1>1 DEF Commands
  <2> QED BY <2>1, <2>2, <1>3 DEF TypeOK, Turned
<1> HIDE DEF way
<1>6. TypeOK'
  BY <1>1, <1>2, <1>3, <1>4, <1>5 DEF TypeOK
<1>7. WayIsRight'
  BY <1>3 DEF WayIsRight
<1> QED BY <1>6, <1>7

LEMMA StepRotate ==
  ASSUME IInv, NEW slip \in Slips, doRotate(slip) PROVE IInv'
<1>1. shaft + move.way + slip \in Int
  BY ToleranceAssumption DEF IInv, doRotate, TypeOK, Idle, Commands
<1>2. OnShaft(shaft + move.way + slip) \in 0 .. Turn - 1
  BY <1>1, OnShaftType
<1> QED BY <1>2 DEF IInv, doRotate, TypeOK, WayIsRight, Idle

LEMMA StepRotateAgain ==
  ASSUME IInv, NEW part \in Parts, doRotateAgain(part) \/ doRotateFails(part)
  PROVE IInv'
<1>1. /\ move.pc = "rotate"
      /\ move \in [pc : {"rotate"}, attempt : 1 .. 3, way : Int, goal : Int,
                  backlash : {0, BackLash}, cmd : Commands("rotate"),
                  from : 0 .. Turn - 1]
  BY DEF IInv, doRotateAgain, doRotateFails, TypeOK, Idle, Commands
<1>2. part \in Int /\ shaft \in Int
  BY <1>1 DEF Parts, IInv, TypeOK
<1>3. OnShaft(shaft + part) \in 0 .. Turn - 1
  BY <1>2, OnShaftType
<1>4. CASE doRotateAgain(part)
  <2>1. move' = [move EXCEPT !.attempt = @ + 1,
                            !.way = move.goal - OnShaft(shaft + part)]
        /\ move.attempt < 3
        /\ shaft' = OnShaft(shaft + part) /\ UNCHANGED <<cached, status, result>>
    BY <1>4 DEF doRotateAgain, Remaining
  <2>2. move.goal - OnShaft(shaft + part) \in Int /\ move.attempt + 1 \in 1 .. 3
    BY <1>1, <1>3, <2>1
  <2>3. move' \in [pc : {"rotate"}, attempt : 1 .. 3, way : Int, goal : Int,
                  backlash : {0, BackLash}, cmd : Commands("rotate"),
                  from : 0 .. Turn - 1]
    BY <1>1, <2>1, <2>2
  <2> QED BY <1>3, <2>1, <2>3 DEF IInv, TypeOK, WayIsRight
<1>5. CASE doRotateFails(part)
  BY <1>3, <1>5 DEF IInv, doRotateFails, TypeOK, WayIsRight, Idle
<1> QED BY <1>4, <1>5

LEMMA StepJog == ASSUME IInv, NEW by \in Jogs, ManualJog(by) PROVE IInv'
<1>1. shaft + by \in Int
  BY SettingsAssumption DEF IInv, TypeOK
<1>2. OnShaft(shaft + by) \in 0 .. Turn - 1
  BY <1>1, OnShaftType
<1>3. status' \in [mode : {"ABS", "REL"}, shortestPathEnabled : BOOLEAN,
                 destinationPosition : Places, direction : -1 .. 1,
                 backlash : {0, BackLash}]
  <2>1. PICK dir \in {-1, 1} : status' = Turned(status, dir)
    BY DEF ManualJog
  <2>2. (IF dir > 0 THEN 0 ELSE BackLash) \in {0, BackLash} /\ dir \in -1 .. 1
    OBVIOUS
  <2>3. status' = [status EXCEPT !.direction = dir,
                                !.backlash = IF dir > 0 THEN 0 ELSE BackLash]
    BY <2>1 DEF Turned
  <2> QED BY <2>2, <2>3 DEF IInv, TypeOK
<1>4. shaft' = OnShaft(shaft + by) /\ UNCHANGED <<cached, move, result>>
  BY DEF ManualJog
<1> QED BY <1>2, <1>3, <1>4 DEF IInv, TypeOK, WayIsRight

LEMMA StepZero == ASSUME IInv, NEW slip \in Slips, moveToZero(slip) PROVE IInv'
<1> DEFINE way == shortestPathToZero(cached)
<1>1. way \in Int /\ shaft \in Int /\ slip \in Int
  BY ZeroType, ToleranceAssumption DEF IInv, TypeOK
<1>2. /\ OnShaft(shaft + way + slip) \in 0 .. Turn - 1
      /\ OnShaft(shaft + way \div 2) \in 0 .. Turn - 1
  <2>1. shaft + way + slip \in Int /\ shaft + way \div 2 \in Int
    BY <1>1
  <2> QED BY <2>1, OnShaftType
<1> HIDE DEF way
<1>3. shaft' \in 0 .. Turn - 1 /\ result' \in {"fin", "failed"}
  BY <1>2 DEF way, moveToZero, IInv, TypeOK
<1>4. 0 \in Places
  BY TurnAssumption DEF Places
<1> QED BY <1>3, <1>4 DEF IInv, moveToZero, TypeOK, WayIsRight

LEMMA StepRest ==
  ASSUME IInv, currentDriverPosition \/ SetStatus \/ UNCHANGED vars
  PROVE IInv'
<1>1. -1 \in Places \/ Turn = 1
  BY TurnAssumption DEF Places
<1>2. Turn # 1
  BY TurnAssumption
<1>3. CASE currentDriverPosition
  BY <1>3 DEF IInv, currentDriverPosition, TypeOK, WayIsRight
<1>4. CASE SetStatus
  <2>1. UNCHANGED <<shaft, move, result>> /\ cached' \in {cached, 0}
    BY <1>4 DEF SetStatus
  <2>2. CASE status' = Cleared(status)
    <3>1. status' \in [mode : {"ABS", "REL"}, shortestPathEnabled : BOOLEAN,
                        destinationPosition : Places, direction : -1 .. 1,
                        backlash : {0, BackLash}]
      BY <1>1, <1>2, <2>2 DEF IInv, Cleared, TypeOK
    <3>2. cached' \in 0 .. Turn - 1
      BY <2>1, TurnAssumption DEF IInv, TypeOK
    <3> QED BY <2>1, <3>1, <3>2 DEF IInv, TypeOK, WayIsRight
  <2>3. CASE \E m \in {"ABS", "REL"} : status' = [status EXCEPT !.mode = m]
    BY <2>1, <2>3, TurnAssumption DEF IInv, TypeOK, WayIsRight
  <2>4. CASE \E b \in BOOLEAN :
               status' = [status EXCEPT !.shortestPathEnabled = b]
    BY <2>1, <2>4, TurnAssumption DEF IInv, TypeOK, WayIsRight
  <2> QED BY <1>4, <2>2, <2>3, <2>4 DEF SetStatus
<1>5. CASE UNCHANGED vars
  BY <1>5 DEF IInv, vars, TypeOK, WayIsRight
<1> QED BY <1>3, <1>4, <1>5

LEMMA IInvHolds == Spec => []IInv
<1>1. IInv /\ [Next]_vars => IInv'
  BY StepBegin, StepEnds, StepDirection, StepRotate, StepRotateAgain, StepJog,
     StepZero, StepRest DEF Next
<1> QED BY <1>1, InitIInv, PTL DEF Spec

(* Types: every angle the arithmetic leads to is an angle of the shaft, a    *)
(* destination within a turn of zero, whatever the commands, in ABS and REL. *)
THEOREM TypeCorrect == Spec => []TypeOK
BY IInvHolds, PTL DEF IInv

(* Shortest moves stay within half a turn, the others follow the sign of     *)
(* their angle and take one turn at most, for every turn and every angle.    *)
THEOREM WayIsRightHolds == Spec => []WayIsRight
BY IInvHolds, PTL DEF IInv


(* Same place on the shaft.                                                 *)
Same(a, b) == \E k \in Int : a - b = k * Turn

LEMMA SameRefl == ASSUME NEW a \in Int PROVE Same(a, a)
<1>1. a - a = 0 * Turn
  BY TurnAssumption
<1> QED BY <1>1 DEF Same

LEMMA SameSym == ASSUME NEW a \in Int, NEW b \in Int, Same(a, b) PROVE Same(b, a)
<1>1. PICK k \in Int : a - b = k * Turn
  BY DEF Same
<1>2. b - a = (-k) * Turn
  BY <1>1, TurnAssumption
<1> QED BY <1>2 DEF Same

LEMMA SameTrans ==
  ASSUME NEW a \in Int, NEW b \in Int, NEW c \in Int, Same(a, b), Same(b, c)
  PROVE Same(a, c)
<1>1. PICK k \in Int : a - b = k * Turn
  BY DEF Same
<1>2. PICK m \in Int : b - c = m * Turn
  BY DEF Same
<1>3. a - c = (k + m) * Turn
  BY <1>1, <1>2, TurnAssumption
<1> QED BY <1>3 DEF Same

LEMMA SameAdd ==
  ASSUME NEW a \in Int, NEW b \in Int, NEW c \in Int, Same(a, b)
  PROVE Same(a + c, b + c)
<1>1. PICK k \in Int : a - b = k * Turn
  BY DEF Same
<1>2. (a + c) - (b + c) = k * Turn
  BY <1>1, TurnAssumption
<1> QED BY <1>2 DEF Same

LEMMA SameMod == ASSUME NEW n \in Int PROVE Same(Mod(n), n)
<1>1. ASSUME NEW m \in Int
      PROVE m \div Turn \in Int /\ m = (m \div Turn) * Turn + (m % Turn)
  BY TurnAssumption
<1>2. CASE n >= 0
  <2> DEFINE k == -(n \div Turn)
  <2>1. k \in Int
    BY <1>1
  <2>2. Mod(n) - n = k * Turn
    BY <1>1, <1>2, TurnAssumption DEF Mod
  <2> HIDE DEF k
  <2> QED BY <2>1, <2>2 DEF Same
<1>3. CASE n < 0
  <2> DEFINE k == (-n) \div Turn
  <2>1. -n \in Int
    OBVIOUS
  <2>2. k \in Int
    BY <1>1, <2>1
  <2>3. Mod(n) - n = k * Turn
    BY <1>1, <1>3, <2>1, TurnAssumption DEF Mod
  <2> HIDE DEF k
  <2> QED BY <2>2, <2>3 DEF Same
<1> QED BY <1>2, <1>3

LEMMA SameTurn == ASSUME NEW a \in Int PROVE Same(a + Turn, a) /\ Same(a - Turn, a)
<1>1. (a + Turn) - a = 1 * Turn /\ (a - Turn) - a = (-1) * Turn
  BY TurnAssumption
<1> QED BY <1>1 DEF Same

LEMMA SameUnique ==
  ASSUME NEW a \in 0 .. Turn - 1, NEW b \in 0 .. Turn - 1, Same(a, b)
  PROVE a = b
<1>1. PICK k \in Int : a - b = k * Turn
  BY DEF Same
<1>2. ~ k >= 1
  <2>1. k >= 1 => k * Turn >= Turn
    BY TurnAssumption
  <2> QED BY <1>1, <2>1, TurnAssumption
<1>3. ~ k <= -1
  <2>1. k <= -1 => k * Turn <= -Turn
    BY TurnAssumption
  <2> QED BY <1>1, <2>1, TurnAssumption
<1>4. k = 0
  BY <1>2, <1>3
<1> QED BY <1>1, <1>4, TurnAssumption

LEMMA SameOnShaft == ASSUME NEW n \in Int PROVE Same(OnShaft(n), n)
<1>1. Mod(n) \in Int /\ Same(Mod(n), n)
  BY ModBounds, SameMod, TurnAssumption DEF Places
<1>2. Same(Mod(n) + Turn, n)
  BY <1>1, SameTurn, SameTrans, TurnAssumption
<1> QED BY <1>1, <1>2 DEF OnShaft

LEMMA SameShaft ==
  ASSUME NEW a \in Int, NEW b \in Int, Same(a, b) PROVE OnShaft(a) = OnShaft(b)
<1>1. OnShaft(a) \in 0 .. Turn - 1 /\ OnShaft(b) \in 0 .. Turn - 1
  BY OnShaftType
<1>2. OnShaft(a) \in Int /\ OnShaft(b) \in Int
  BY <1>1, TurnAssumption
<1>3. Same(OnShaft(a), b)
  BY <1>2, SameOnShaft, SameTrans
<1>4. Same(b, OnShaft(b))
  BY <1>2, SameOnShaft, SameSym
<1>5. Same(OnShaft(a), OnShaft(b))
  BY <1>2, <1>3, <1>4, SameTrans
<1> QED BY <1>1, <1>5, SameUnique

LEMMA SameMinus == ASSUME NEW n \in Int PROVE Same(n + Turn, n) /\ Same(n, n + Turn)
<1>1. n + Turn \in Int
  BY TurnAssumption
<1> QED BY <1>1, SameTurn, SameSym

LEMMA DestinationSame ==
  ASSUME NEW n \in Int
  PROVE Same(Destination(n), n) /\ (n >= -Turn => Destination(n) >= 0)
<1>1. n + Turn \in Int
  BY TurnAssumption
<1>2. /\ Mod(n) \in Int /\ Mod(n + Turn) \in Int
      /\ n >= 0 => Mod(n) >= 0
      /\ n + Turn >= 0 => Mod(n + Turn) >= 0
  BY <1>1, ModBounds, TurnAssumption DEF Places
<1>3. Same(Mod(n), n) /\ Same(Mod(n + Turn), n + Turn)
  BY <1>1, SameMod
<1>4. Same(Mod(n + Turn), n)
  BY <1>1, <1>2, <1>3, SameTurn, SameTrans
<1> QED BY <1>2, <1>3, <1>4, TurnAssumption DEF Destination

LEMMA AbsolutePathSame ==
  ASSUME NEW current \in 0 .. Turn - 1, NEW target \in Int
  PROVE Same(current + getAbsolutePath(current, target), target)
<1> DEFINE far == Turn - (current - target)
           way == IF Abs(far) > Turn THEN Mod(far) ELSE far
<1>1. far \in Int /\ current \in Int /\ current + far = target + Turn
  BY TurnAssumption
<1>2. Mod(far) \in Int /\ Same(Mod(far), far)
  BY <1>1, ModBounds, SameMod, TurnAssumption DEF Places
<1>3. way \in Int /\ Same(way, far)
  BY <1>1, <1>2, SameRefl
<1>4. getAbsolutePath(current, target)
        = IF target < 0 /\ way > 0 THEN way - Turn ELSE way
  BY DEF getAbsolutePath
<1>5. PICK k \in Int : way - far = k * Turn
  BY <1>3 DEF Same
<1> HIDE DEF way
<1>6. (current + way) - target = (k + 1) * Turn
  BY <1>1, <1>3, <1>5, TurnAssumption
<1>7. (current + (way - Turn)) - target = k * Turn
  BY <1>1, <1>3, <1>5, TurnAssumption
<1>8. Same(current + way, target) /\ Same(current + (way - Turn), target)
  BY <1>6, <1>7 DEF Same
<1> QED BY <1>4, <1>8

LEMMA ModSmall ==
  ASSUME NEW n \in Places PROVE Mod(n) = n
<1>1. \A m \in 0 .. Turn - 1 : m % Turn = m
  BY TurnAssumption
<1>2. CASE n >= 0
  BY <1>1, <1>2, TurnAssumption DEF Mod, Places
<1>3. CASE n < 0
  <2>1. -n \in 0 .. Turn - 1
    BY <1>3, TurnAssumption DEF Places
  <2>2. (-n) % Turn = -n
    BY <1>1, <2>1
  <2> QED BY <2>2, <1>3, TurnAssumption DEF Mod, Places
<1> QED BY <1>2, <1>3, TurnAssumption DEF Places

LEMMA ModTurn ==
  ASSUME NEW n \in Places
  PROVE Mod(n + Turn) = IF n >= 0 THEN n ELSE n + Turn
<1>1. n \in Int /\ n + Turn \in Int /\ n + Turn >= 0
  BY TurnAssumption DEF Places
<1>2. Mod(n + Turn) \in 0 .. Turn - 1 /\ Same(Mod(n + Turn), n + Turn)
  BY <1>1, ModBounds, SameMod, TurnAssumption DEF Places
<1>3. Mod(n + Turn) \in Int
  BY <1>2, TurnAssumption
<1>4. Same(Mod(n + Turn), n)
  BY <1>1, <1>2, <1>3, SameTurn, SameTrans
<1>5. CASE n >= 0
  <2>1. n \in 0 .. Turn - 1
    BY <1>5, TurnAssumption DEF Places
  <2> QED BY <2>1, <1>2, <1>4, <1>5, SameUnique
<1>6. CASE n < 0
  <2>1. n + Turn \in 0 .. Turn - 1
    BY <1>6, TurnAssumption DEF Places
  <2> QED BY <2>1, <1>1, <1>2, <1>6, SameUnique
<1> QED BY <1>1, <1>5, <1>6

LEMMA ShortestPathSame ==
  ASSUME NEW current \in 0 .. Turn - 1, NEW target \in Int
  PROVE Same(current + getAbsolutePositionWithShortestPath(current, target),
             target)
<1> DEFINE diff == Mod(target - current)
           half == Turn \div 2
           way == half - Abs(Abs(diff) - half)
           w == getAbsolutePositionWithShortestPath(current, target)
<1>1. target - current \in Int /\ current \in Int
  BY TurnAssumption
<1>2. diff \in Places /\ Same(diff, target - current)
  BY <1>1, ModBounds, SameMod
<1>3. half \in Nat /\ 2 * half = Turn
  BY TurnAssumption
<1>4. Mod(diff + Turn) = IF diff >= 0 THEN diff ELSE diff + Turn
  BY <1>2, ModTurn
<1>5. w = IF Mod(diff + Turn) < half THEN way ELSE -way
  BY DEF getAbsolutePositionWithShortestPath
<1>6. PICK k \in Int : diff - (target - current) = k * Turn
  BY <1>2 DEF Same
<1> HIDE DEF diff, half
<1>7. w \in {diff, diff - Turn, diff + Turn}
  BY <1>2, <1>3, <1>4, <1>5 DEF Abs, Places
<1> HIDE DEF w
<1>8. diff \in Int
  BY <1>2, TurnAssumption DEF Places
<1>9. \E j \in {k, k - 1, k + 1} : (current + w) - target = j * Turn
  BY <1>1, <1>6, <1>7, <1>8, TurnAssumption
<1>10. Same(current + w, target)
  BY <1>9 DEF Same
<1> QED BY <1>10 DEF w

LEMMA RelativeSame ==
  ASSUME NEW current \in 0 .. Turn - 1, NEW by \in Int, by >= -Turn,
         NEW last \in Places, last >= -1
  PROVE LET way == getRelativePosition(current, by, last) IN
        /\ Same(current + way.toMove, way.destination)
        /\ way.destination >= 0
<1> DEFINE near == IF Abs(current - last) > Near THEN current ELSE last
           from == IF Mod(near) = -1 THEN current ELSE Mod(near)
           toMove == getRelativePosition(current, by, last).toMove
           dest == getRelativePosition(current, by, last).destination
<1>1. near \in Places /\ near >= -1 /\ current \in Int
  BY TurnAssumption DEF Places
<1>2. Mod(near) = near
  BY <1>1, ModSmall
<1>3. from \in 0 .. Turn - 1
  BY <1>1, <1>2, TurnAssumption DEF Places
<1>4. toMove = IF from = current THEN by
          ELSE IF Turn - current > Abs(from - current)
               THEN from + by - current
               ELSE from + Turn + by - current
  BY DEF getRelativePosition, GetRelativePosition
<1>5. dest = Destination((IF from >= 0 THEN from ELSE current) + by)
  BY DEF getRelativePosition, GetRelativePosition
<1> HIDE DEF from, toMove, dest
<1>6. from \in Int /\ from + by \in Int /\ from + by >= -Turn
  BY <1>3, TurnAssumption
<1>7. dest = Destination(from + by)
  BY <1>3, <1>5, TurnAssumption
<1>8. dest \in Int /\ dest >= 0 /\ Same(dest, from + by)
  BY <1>6, <1>7, DestinationSame, DestinationType, TurnAssumption DEF Places
<1>9. Same(from + by, dest)
  BY <1>6, <1>8, SameSym
<1>10. current + toMove = from + by \/ current + toMove = (from + by) + Turn
  BY <1>1, <1>4, <1>6, TurnAssumption
<1>11. (from + by) + Turn \in Int /\ Same((from + by) + Turn, dest)
  BY <1>6, <1>8, <1>9, SameTurn, SameTrans, TurnAssumption
<1>12. Same(current + toMove, dest)
  BY <1>9, <1>10, <1>11
<1> QED BY <1>8, <1>12 DEF toMove, dest

Compensated(m) ==
  m.cmd.destination + PitchError[m.cmd.destination] - m.backlash

Aimed ==
  /\ status.destinationPosition >= -1
  /\ move.pc = "ecs" =>
       /\ Same(move.current + move.toMove, move.destination)
       /\ move.destination >= 0
  /\ move.pc = "rotate" =>
       /\ Same(move.goal, Compensated(move))
       /\ move.cmd.destination >= 0
       /\ move.way = move.goal - (IF move.attempt = 1 THEN move.cmd.current
                                  ELSE shaft)
       /\ move.attempt = 1 => move.from = shaft

GInv == IInv /\ Aimed

LEMMA AimedBegin ==
  ASSUME \A a \in Angles : a >= -Turn, GInv, NEW angle \in Angles, Begin(angle)
  PROVE Aimed'
<1> DEFINE way == IF status.mode = "ABS"
             THEN GetAbsolutePosition(shaft, angle, status.shortestPathEnabled)
             ELSE getRelativePosition(shaft, angle, status.destinationPosition)
<1>1. /\ shaft \in 0 .. Turn - 1 /\ shaft \in Int
      /\ angle \in Int /\ angle >= -Turn
      /\ status.destinationPosition \in Places
      /\ status.destinationPosition >= -1
  BY SettingsAssumption, TurnAssumption DEF GInv, IInv, TypeOK, Aimed
<1>2. Same(shaft + way.toMove, way.destination) /\ way.destination >= 0
  <2>1. CASE status.mode = "ABS"
    <3> DEFINE w == IF status.shortestPathEnabled
                    THEN getAbsolutePositionWithShortestPath(shaft, angle)
                    ELSE getAbsolutePath(shaft, angle)
    <3>1. w \in Int /\ Same(shaft + w, angle)
      BY <1>1, AbsolutePathSame, ShortestPathSame, AbsolutePathBounds,
         ShortestPathBounds
    <3>2. Destination(angle) \in Int /\ Destination(angle) >= 0
          /\ Same(angle, Destination(angle))
      BY <1>1, DestinationSame, DestinationType, SameSym, TurnAssumption
         DEF Places
    <3>3. Same(shaft + w, Destination(angle))
      BY <1>1, <3>1, <3>2, SameTrans
    <3>4. way.toMove = w /\ way.destination = Destination(angle)
      BY <2>1 DEF GetAbsolutePosition
    <3> HIDE DEF w, way
    <3> QED BY <3>2, <3>3, <3>4
  <2>2. CASE status.mode # "ABS"
    BY <1>1, <2>2, RelativeSame
  <2> QED BY <2>1, <2>2
<1>3. move' = [pc |-> "ecs", angle |-> angle, current |-> shaft,
              last |-> status.destinationPosition, mode |-> status.mode,
              shortest |-> status.shortestPathEnabled,
              toMove |-> way.toMove, destination |-> way.destination]
      /\ UNCHANGED status
  BY DEF Begin
<1> HIDE DEF way
<1> QED BY <1>1, <1>2, <1>3 DEF Aimed

LEMMA AimedDirection == ASSUME GInv, setDirection PROVE Aimed'
<1> DEFINE way == move.toMove + getPitchError(move.destination) - status.backlash
<1>1. /\ move \in Commands("ecs") /\ shaft \in 0 .. Turn - 1
      /\ move.pc = "ecs"
      /\ Same(move.current + move.toMove, move.destination)
      /\ move.destination >= 0
  BY DEF GInv, IInv, Aimed, TypeOK, setDirection, Idle
<1>2. /\ move.toMove \in Int /\ move.current \in Int
      /\ move.destination \in Places /\ status.backlash \in {0, BackLash}
  BY <1>1, TurnAssumption DEF Commands, GInv, IInv, TypeOK
<1>3. move.destination \in -Turn .. Turn /\ move.destination \in Int
  BY <1>2, TurnAssumption DEF Places
<1>4. getPitchError(move.destination) \in Int
      /\ getPitchError(move.destination) = PitchError[move.destination]
  BY <1>3, SettingsAssumption DEF getPitchError
<1>5. status.backlash \in Int
  BY <1>2, SettingsAssumption
<1> DEFINE c == getPitchError(move.destination) - status.backlash
<1>6. c \in Int
  BY <1>4, <1>5
<1>7. move.current + move.toMove \in Int
  BY <1>2
<1>8. Same((move.current + move.toMove) + c, move.destination + c)
  BY <1>1, <1>3, <1>6, <1>7, SameAdd
<1>9. (move.current + move.toMove) + c = move.current + way
      /\ move.destination + c
           = move.destination + PitchError[move.destination] - status.backlash
  BY <1>2, <1>3, <1>4, <1>5
<1>10. /\ move' = [pc |-> "rotate", attempt |-> 1, way |-> way,
                  goal |-> move.current + way, backlash |-> status.backlash,
                  cmd |-> [move EXCEPT !.pc = "rotate"], from |-> shaft]
       /\ shaft' = shaft
       /\ status'.destinationPosition = move.destination
  <2>1. status' = [Turned(status, directionOf(status.shortestPathEnabled,
                                             move.toMove))
                   EXCEPT !.destinationPosition = move.destination]
    BY DEF setDirection
  <2>2. status \in [mode : {"ABS", "REL"}, shortestPathEnabled : BOOLEAN,
                 destinationPosition : Places, direction : -1 .. 1,
                 backlash : {0, BackLash}]
    BY DEF GInv, IInv, TypeOK
  <2>3. status'.destinationPosition = move.destination
    BY <2>1, <2>2 DEF Turned
  <2> QED BY <2>3 DEF setDirection, Compensation
<1>11. [move EXCEPT !.pc = "rotate"].destination = move.destination
       /\ [move EXCEPT !.pc = "rotate"].current = move.current
  BY <1>1 DEF Commands
<1>12. way \in Int /\ move.current + way \in Int
       /\ (move.current + way) - move.current = way
  BY <1>2, <1>4, <1>5
<1>13. Same(move.current + way, move.destination + PitchError[move.destination]
                                - status.backlash)
  BY <1>8, <1>9
<1> HIDE DEF way
<1>14. move'.cmd.destination = move.destination /\ move'.backlash = status.backlash
       /\ move'.goal = move.current + way
  BY <1>10, <1>11
<1>15. Compensated(move') = move.destination + PitchError[move.destination]
                            - status.backlash
  BY <1>14 DEF Compensated
<1>16. /\ move'.pc = "rotate" /\ move'.attempt = 1 /\ move'.way = way
       /\ move'.from = shaft' /\ move'.cmd.current = move.current
  BY <1>10, <1>11
<1>17. move'.way = move'.goal - move'.cmd.current
  BY <1>12, <1>14, <1>16
<1>18. Same(move'.goal, Compensated(move'))
  BY <1>13, <1>14, <1>15
<1>19. status'.destinationPosition >= -1
  BY <1>1, <1>3, <1>10
<1> QED BY <1>1, <1>14, <1>16, <1>17, <1>18, <1>19 DEF Aimed

LEMMA AimedAgain ==
  ASSUME GInv, NEW part \in Parts, doRotateAgain(part) PROVE Aimed'
<1>1. /\ move.pc = "rotate"
      /\ move \in [pc : {"rotate"}, attempt : 1 .. 3, way : Int, goal : Int,
                  backlash : {0, BackLash}, cmd : Commands("rotate"),
                  from : 0 .. Turn - 1]
  BY DEF GInv, IInv, doRotateAgain, TypeOK, Idle, Commands
<1>2. /\ move' = [move EXCEPT !.attempt = @ + 1,
                              !.way = move.goal - OnShaft(shaft + part)]
      /\ shaft' = OnShaft(shaft + part) /\ UNCHANGED status
  BY DEF doRotateAgain, Remaining
<1>3. /\ move'.pc = "rotate" /\ move'.goal = move.goal /\ move'.cmd = move.cmd
      /\ move'.backlash = move.backlash /\ move'.attempt = move.attempt + 1
      /\ move'.way = move'.goal - shaft'
  BY <1>1, <1>2
<1>4. move'.attempt # 1
  BY <1>1, <1>3
<1>5. Compensated(move') = Compensated(move)
  BY <1>3 DEF Compensated
<1> QED BY <1>1, <1>2, <1>3, <1>4, <1>5 DEF GInv, Aimed

LEMMA AimedRest ==
  ASSUME GInv,
         \/ NoEcs \/ FastPath
         \/ \E slip \in Slips : doRotate(slip) \/ moveToZero(slip)
         \/ \E part \in Parts : doRotateFails(part)
         \/ \E by \in Jogs : ManualJog(by)
         \/ currentDriverPosition \/ SetStatus
  PROVE Aimed'
<1> USE DEF GInv, IInv
<1>1. CASE NoEcs \/ FastPath \/ (\E slip \in Slips : doRotate(slip))
           \/ (\E part \in Parts : doRotateFails(part))
  BY <1>1 DEF NoEcs, FastPath, doRotate, doRotateFails, Aimed, Idle
<1>2. CASE \E slip \in Slips : moveToZero(slip)
  BY <1>2 DEF moveToZero, Aimed, Idle, TypeOK
<1>3. CASE \E by \in Jogs : ManualJog(by)
  <2>1. PICK dir \in {-1, 1} : status' = Turned(status, dir)
    BY <1>3 DEF ManualJog
  <2>2. status'.destinationPosition = status.destinationPosition
    BY <2>1 DEF Turned, TypeOK
  <2>3. move.pc # "rotate" /\ move' = move
    BY <1>3 DEF ManualJog, Idle
  <2> QED BY <2>2, <2>3 DEF Aimed
<1>4. CASE currentDriverPosition
  BY <1>4 DEF currentDriverPosition, Aimed
<1>5. CASE SetStatus
  <2>1. status'.destinationPosition \in {-1, status.destinationPosition}
    BY <1>5 DEF SetStatus, Cleared, TypeOK
  <2>2. move.pc # "rotate" /\ move' = move
    BY <1>5 DEF SetStatus
  <2> QED BY <2>1, <2>2 DEF Aimed
<1> QED BY <1>1, <1>2, <1>3, <1>4, <1>5

LEMMA GInvHolds ==
  ASSUME \A a \in Angles : a >= -Turn PROVE Spec => []GInv
<1>1. Init => GInv
  <2>1. Init => Aimed
    BY DEF Init, Aimed, Idle
  <2> QED BY <2>1, InitIInv DEF GInv
<1>2. GInv /\ [Next]_vars => GInv'
  <2> SUFFICES ASSUME GInv, [Next]_vars PROVE GInv'
    OBVIOUS
  <2>1. IInv'
    BY StepBegin, StepEnds, StepDirection, StepRotate, StepRotateAgain, StepJog,
       StepZero, StepRest DEF Next, GInv
  <2>2. CASE UNCHANGED vars
    BY <2>1, <2>2 DEF vars, GInv, Aimed, Compensated
  <2>3. CASE Next
    BY <2>1, <2>3, AimedBegin, AimedDirection, AimedAgain, AimedRest
       DEF Next, GInv
  <2> QED BY <2>2, <2>3
<1> QED BY <1>1, <1>2, PTL DEF Spec

(* GoalIsRight for every turn and every setting, for angles from -360        *)
(* degrees on.                                                              *)
THEOREM GoalIsRightHolds ==
  ASSUME \A a \in Angles : a >= -Turn PROVE Spec => []GoalIsRight
<1>1. GInv => GoalIsRight
  <2> SUFFICES ASSUME GInv, move.pc = "rotate",
                      ~ (move.attempt = 1 /\ move.from # move.cmd.current)
               PROVE OnShaft(shaft + move.way) =
                       OnShaft(Compensated(move))
    BY DEF GoalIsRight, Compensated
  <2>1. /\ move \in [pc : {"rotate"}, attempt : 1 .. 3, way : Int, goal : Int,
                   backlash : {0, BackLash}, cmd : Commands("rotate"),
                   from : 0 .. Turn - 1]
        /\ shaft \in Int
    BY TurnAssumption DEF GInv, IInv, TypeOK, Idle, Commands
  <2>2. shaft + move.way = move.goal
    BY <2>1 DEF GInv, Aimed
  <2>3. /\ move.cmd.destination \in Int /\ move.cmd.destination \in -Turn .. Turn
        /\ move.backlash \in Int
    <3>1. move.cmd \in Commands("rotate") /\ move.backlash \in {0, BackLash}
      BY <2>1
    <3>2. move.cmd.destination \in Places
      BY <3>1 DEF Commands
    <3>3. BackLash \in Int
      BY SettingsAssumption
    <3>4. Places \subseteq -Turn .. Turn /\ Places \subseteq Int
      BY TurnAssumption DEF Places
    <3>5. move.backlash \in Int
      BY <3>1, <3>3
    <3> QED BY <3>2, <3>4, <3>5
  <2>4. Compensated(move) \in Int
    BY <2>3, SettingsAssumption DEF Compensated
  <2>5. Same(move.goal, Compensated(move))
    BY DEF GInv, Aimed
  <2> QED BY <2>1, <2>2, <2>4, <2>5, SameShaft
<1> QED BY <1>1, GInvHolds, PTL

(* Arc is the shortest way between two places, in either direction.          *)
LEMMA ArcShortest ==
  ASSUME NEW a \in Int, NEW b \in Int, NEW c \in Int, Same(a - b, c)
  PROVE Arc(a, b) \in Nat /\ Arc(a, b) <= Abs(c)
<1> DEFINE d == (a - b) % Turn
<1>1. a - b \in Int
  OBVIOUS
<1>2. d \in 0 .. Turn - 1
  BY <1>1, TurnAssumption
<1>3. Same(d, a - b)
  <2>1. CASE a - b >= 0
    BY <1>1, <2>1, SameMod DEF Mod
  <2>2. CASE a - b < 0
    <3>1. PICK k \in Int : k = (a - b) \div Turn
      BY <1>1, TurnAssumption
    <3>2. (a - b) = k * Turn + d
      BY <1>1, <3>1, TurnAssumption
    <3>3. d - (a - b) = (-k) * Turn
      BY <1>1, <1>2, <3>2, TurnAssumption
    <3> QED BY <3>3 DEF Same
  <2> QED BY <1>1, <2>1, <2>2
<1>4. Arc(a, b) = IF 2 * d > Turn THEN Turn - d ELSE d
  BY DEF Arc
<1> HIDE DEF d
<1>5. d \in Int /\ Same(d, c)
  BY <1>1, <1>2, <1>3, SameTrans, TurnAssumption
<1>6. CASE 2 * Abs(c) >= Turn
  BY <1>2, <1>4, <1>6, TurnAssumption DEF Abs
<1>7. CASE 2 * Abs(c) < Turn /\ c >= 0
  <2>1. c \in 0 .. Turn - 1
    BY <1>7, TurnAssumption DEF Abs
  <2>2. d = c
    BY <1>2, <1>5, <2>1, SameUnique
  <2> QED BY <1>2, <1>4, <1>7, <2>2, TurnAssumption DEF Abs
<1>8. CASE 2 * Abs(c) < Turn /\ c < 0
  <2>1. c + Turn \in 0 .. Turn - 1 /\ c + Turn \in Int
    BY <1>8, TurnAssumption DEF Abs
  <2>2. Same(c, c + Turn)
    BY SameMinus
  <2>3. Same(d, c + Turn)
    BY <1>5, <2>1, <2>2, SameTrans
  <2>4. d = c + Turn
    BY <1>2, <2>1, <2>3, SameUnique
  <2> QED BY <1>2, <1>4, <1>8, <2>4, TurnAssumption DEF Abs
<1>9. Abs(c) \in Int
  BY DEF Abs
<1> QED BY <1>6, <1>7, <1>8, <1>9, TurnAssumption

LEMMA ArcAttained ==
  ASSUME NEW a \in Int, NEW b \in Int
  PROVE \E c \in Int : Same(a - b, c) /\ Abs(c) = Arc(a, b)
<1> DEFINE d == (a - b) % Turn
<1>1. a - b \in Int
  OBVIOUS
<1>2. d \in 0 .. Turn - 1 /\ d \in Int
  BY <1>1, TurnAssumption
<1>3. Same(a - b, d)
  <2>1. PICK k \in Int : k = (a - b) \div Turn
    BY <1>1, TurnAssumption
  <2>2. (a - b) - d = k * Turn
    BY <1>1, <2>1, TurnAssumption
  <2> QED BY <2>2 DEF Same
<1>4. Arc(a, b) = IF 2 * d > Turn THEN Turn - d ELSE d
  BY DEF Arc
<1> HIDE DEF d
<1>5. d - Turn \in Int /\ Same(d, d - Turn)
  BY <1>2, SameTurn, SameSym, TurnAssumption
<1>6. Same(a - b, d - Turn)
  BY <1>1, <1>2, <1>3, <1>5, SameTrans
<1>7. CASE 2 * d > Turn
  <2>1. Abs(d - Turn) = Arc(a, b)
    BY <1>2, <1>4, <1>7, TurnAssumption DEF Abs
  <2> QED BY <1>5, <1>6, <2>1
<1>8. CASE ~ (2 * d > Turn)
  <2>1. Abs(d) = Arc(a, b)
    BY <1>2, <1>4, <1>8, TurnAssumption DEF Abs
  <2> QED BY <1>2, <1>3, <2>1
<1> QED BY <1>7, <1>8

(* Off by at most r, on the shaft.                                           *)
Within(a, b, r) == \E c \in Int : Same(a - b, c) /\ Abs(c) <= r

LEMMA WithinAdd ==
  ASSUME NEW x \in Int, NEW y \in Int, NEW z \in Int, NEW r \in Nat, NEW t \in Nat,
         Within(x, y, r), Within(y, z, t)
  PROVE Arc(x, z) <= r + t
<1>1. PICK c \in Int : Same(x - y, c) /\ Abs(c) <= r
  BY DEF Within
<1>2. PICK e \in Int : Same(y - z, e) /\ Abs(e) <= t
  BY DEF Within
<1>3. PICK k \in Int : (x - y) - c = k * Turn
  BY <1>1 DEF Same
<1>4. PICK m \in Int : (y - z) - e = m * Turn
  BY <1>2 DEF Same
<1>5. (x - z) - (c + e) = (k + m) * Turn
  BY <1>3, <1>4, TurnAssumption
<1>6. c + e \in Int /\ Same(x - z, c + e)
  BY <1>5 DEF Same
<1>7. Arc(x, z) \in Nat /\ Arc(x, z) <= Abs(c + e)
  BY <1>6, ArcShortest
<1>8. Abs(c + e) <= r + t /\ Abs(c + e) \in Int
  BY <1>1, <1>2 DEF Abs
<1> QED BY <1>7, <1>8

LEMMA NotBlocked ==
  ASSUME NEW now \in Int, move.cmd.destination \in Int, ~ BlockedAt(now)
  PROVE Within(now, move.cmd.destination, Tolerance)
<1> DEFINE x == now - move.cmd.destination
           off == Abs(x) % Turn
           v == IF 2 * off > Turn THEN Turn - off ELSE off
<1>1. x \in Int /\ Abs(x) \in Nat
  BY DEF Abs
<1>2. v <= Tolerance
  <2>1. BlockedAt(now) <=> v > Tolerance
    BY DEF BlockedAt
  <2>2. off \in Int
    BY <1>1, TurnAssumption
  <2> HIDE DEF off
  <2> QED BY <2>1, <2>2, TurnAssumption, ToleranceAssumption
<1>3. off \in 0 .. Turn - 1 /\ Same(off, Abs(x))
  BY <1>1, SameMod, TurnAssumption DEF Mod
<1> HIDE DEF off, x
<1>4. PICK k \in Int : off - Abs(x) = k * Turn
  BY <1>3 DEF Same
<1>5. off \in Int
  BY <1>3, TurnAssumption
<1> DEFINE w == IF 2 * off > Turn THEN off - Turn ELSE off
<1>6. w \in Int /\ Abs(w) <= Tolerance
  BY <1>2, <1>3, TurnAssumption DEF Abs
<1>7. \E j \in Int : Abs(x) - w = j * Turn
  <2>1. CASE 2 * off > Turn
    <3>1. w = off - Turn
      BY <2>1
    <3>2. Abs(x) - w = Turn - k * Turn
      BY <1>1, <1>4, <1>5, <3>1, TurnAssumption
    <3>3. Turn - k * Turn = (1 - k) * Turn
      BY TurnAssumption
    <3> QED BY <3>2, <3>3
  <2>2. CASE ~ (2 * off > Turn)
    <3>1. Abs(x) - w = (-k) * Turn
      BY <1>1, <1>4, <1>5, <2>2, TurnAssumption
    <3> QED BY <3>1
  <2> QED BY <2>1, <2>2
<1>8. PICK j \in Int : Abs(x) - w = j * Turn
  BY <1>7
<1> HIDE DEF w
<1>9. CASE x >= 0
  <2>1. x - w = j * Turn
    BY <1>1, <1>8, <1>9 DEF Abs
  <2> QED BY <1>6, <2>1 DEF Within, Same, x
<1>10. CASE x < 0
  <2>1. x - (-w) = (-j) * Turn
    BY <1>1, <1>6, <1>8, <1>10, TurnAssumption DEF Abs
  <2>2. -w \in Int /\ Abs(-w) <= Tolerance
    BY <1>6 DEF Abs
  <2> QED BY <2>1, <2>2 DEF Within, Same, x
<1> QED BY <1>1, <1>9, <1>10

LEMMA NotBlockedFast ==
  ASSUME NEW now \in Int, NEW d \in Int, Abs(now - d) <= Tolerance
  PROVE Within(now, d, Tolerance)
<1>1. now - d \in Int /\ Same(now - d, now - d)
  BY SameRefl
<1> QED BY <1>1 DEF Within

DriftOf(m) == Within(m.destination, Told(m), Drift(m))

LEMMA ToldAbsolute ==
  ASSUME NEW m, m.mode = "ABS", m.angle \in Int, m.destination \in Int,
         Same(m.destination, m.angle)
  PROVE DriftOf(m) /\ Told(m) \in Int /\ Drift(m) \in Nat
<1>1. PICK k \in Int : m.destination - m.angle = k * Turn
  BY DEF Same
<1>2. (m.destination - m.angle) - 0 = k * Turn
  BY <1>1, TurnAssumption
<1>3. Same(m.destination - m.angle, 0)
  BY <1>2 DEF Same
<1> QED BY <1>3 DEF DriftOf, Within, Told, Drift, Abs

LEMMA ToldRelative ==
  ASSUME NEW m, m.mode = "REL", m.angle \in Int, m.current \in 0 .. Turn - 1,
         m.last \in Places, m.last >= -1,
         m.destination = getRelativePosition(m.current, m.angle, m.last).destination
  PROVE DriftOf(m) /\ Told(m) \in Int /\ Drift(m) \in Nat
<1> DEFINE near == IF Abs(m.current - m.last) > Near THEN m.current ELSE m.last
           from == IF Mod(near) = -1 THEN m.current ELSE Mod(near)
           base == IF m.last # -1 /\ Arc(m.last, m.current) <= Near
                   THEN m.last ELSE m.current
<1>1. m.current \in Int /\ m.last \in Int /\ near \in Places /\ near \in Int
      /\ near >= -1
  BY TurnAssumption DEF Places
<1>2. Mod(near) = near
  BY <1>1, ModSmall
<1>3. from = IF near = -1 THEN m.current ELSE near
  BY <1>2
<1>4. from \in 0 .. Turn - 1 /\ from \in Int
  BY <1>1, <1>3, TurnAssumption DEF Places
<1>5. m.destination = Destination(from + m.angle)
  <2>1. m.destination
          = Destination((IF from >= 0 THEN from ELSE m.current) + m.angle)
    BY DEF getRelativePosition, GetRelativePosition
  <2> QED BY <2>1, <1>4, TurnAssumption
<1> HIDE DEF from
<1>6. from + m.angle \in Int
  BY <1>4
<1>7. m.destination \in Int /\ Same(m.destination, from + m.angle)
  BY <1>5, <1>6, DestinationSame, DestinationType, TurnAssumption DEF Places
<1>8. Told(m) = m.angle + base
  BY DEF Told
<1>9. base \in Int
  BY <1>1
<1>10. Arc(m.last, m.current) \in Nat
       /\ Arc(m.last, m.current) <= Abs(m.last - m.current)
  <2>1. m.last - m.current \in Int
    BY <1>1
  <2>2. Same(m.last - m.current, m.last - m.current)
    BY <2>1, SameRefl
  <2> QED BY <1>1, <2>1, <2>2, ArcShortest
<1>11. \E c \in Int : Same(from - base, c) /\ Abs(c) <= Drift(m)
  <2>1. CASE from = base
    <3>1. Same(from - base, 0)
      <4>1. (from - base) - 0 = 0 * Turn
        BY <2>1, <1>4, <1>9, TurnAssumption
      <4> QED BY <4>1 DEF Same
    <3>2. Abs(0) <= Drift(m)
      BY ToleranceAssumption DEF Abs, Drift
    <3> QED BY <3>1, <3>2
  <2>2. CASE from # base
    <3>1. m.last # -1 /\ Arc(m.last, m.current) <= Near /\ base = m.last
          /\ from = m.current /\ Abs(m.current - m.last) > Near
      <4>1. CASE Abs(m.current - m.last) > Near
        <5>1. from = m.current
          BY <4>1, <1>3, <1>1
        <5> QED BY <4>1, <5>1, <2>2
      <4>2. CASE ~ (Abs(m.current - m.last) > Near)
        <5>1. from = IF m.last = -1 THEN m.current ELSE m.last
          BY <4>2, <1>3
        <5>2. Abs(m.last - m.current) <= Near
          BY <4>2, <1>1, ToleranceAssumption DEF Abs
        <5>3. Abs(m.last - m.current) \in Int
          BY <1>1 DEF Abs
        <5>4. Arc(m.last, m.current) <= Near
          BY <1>10, <5>2, <5>3, ToleranceAssumption
        <5> QED BY <2>2, <5>1, <5>4
      <4> QED BY <4>1, <4>2
    <3>2. PICK c \in Int : Same(m.last - m.current, c)
                           /\ Abs(c) = Arc(m.last, m.current)
      BY <1>1, ArcAttained
    <3>3. PICK k \in Int : (m.last - m.current) - c = k * Turn
      BY <3>2 DEF Same
    <3>4. (from - base) - (-c) = (-k) * Turn
      BY <1>1, <3>1, <3>3, TurnAssumption
    <3>5. -c \in Int /\ Same(from - base, -c) /\ Abs(-c) <= Near
      BY <3>1, <3>2, <3>4 DEF Same, Abs
    <3>6. k # 0
      <4>1. k = 0 => m.last - m.current = c
        BY <1>1, <3>2, <3>3, TurnAssumption
      <4>2. Abs(m.last - m.current) > Near
        BY <1>1, <3>1, ToleranceAssumption DEF Abs
      <4>3. Abs(c) <= Near /\ Abs(c) \in Int
        BY <3>1, <3>2 DEF Abs
      <4>4. ~ (Abs(m.last - m.current) = Abs(c))
        BY <4>2, <4>3, <1>1, ToleranceAssumption DEF Abs
      <4> QED BY <4>1, <4>4
    <3>7. Turn <= Abs((m.last - m.current) - c)
      <4>1. k >= 1 => k * Turn >= Turn
        BY TurnAssumption
      <4>2. k <= -1 => k * Turn <= -Turn
        BY TurnAssumption
      <4> QED BY <1>1, <3>3, <3>6, <4>1, <4>2, TurnAssumption DEF Abs
    <3>8. Abs(c) <= Near
      BY <3>1, <3>2
    <3>9. Abs(m.last - m.current) > Turn \div 2
      BY <1>1, <3>7, <3>8, TurnAssumption, ToleranceAssumption DEF Abs
    <3>10. Drift(m) = Near
      BY <3>9 DEF Drift
    <3> QED BY <3>5, <3>10
  <2> QED BY <2>1, <2>2
<1>12. PICK c \in Int : Same(from - base, c) /\ Abs(c) <= Drift(m)
  BY <1>11
<1>13. PICK k \in Int : (from - base) - c = k * Turn
  BY <1>12 DEF Same
<1>14. PICK j \in Int : m.destination - (from + m.angle) = j * Turn
  BY <1>7 DEF Same
<1> HIDE DEF base
<1>15. (m.destination - (m.angle + base)) - c = (k + j) * Turn
  BY <1>4, <1>7, <1>9, <1>13, <1>14, TurnAssumption
<1>16. Same(m.destination - (m.angle + base), c)
  BY <1>15 DEF Same
<1>17. DriftOf(m)
  BY <1>8, <1>12, <1>16 DEF DriftOf, Within, base
<1>18. Drift(m) \in Nat
  BY ToleranceAssumption DEF Drift
<1> QED BY <1>8, <1>9, <1>17, <1>18 DEF base

WellTold(m) == DriftOf(m) /\ Told(m) \in Int /\ Drift(m) \in Nat

AsTold ==
  /\ move.pc = "ecs" => WellTold(move)
  /\ move.pc = "rotate" => WellTold(move.cmd)

LEMMA AsToldBegin ==
  ASSUME GInv, NEW angle \in Angles, Begin(angle) PROVE AsTold'
<1> DEFINE way == IF status.mode = "ABS"
             THEN GetAbsolutePosition(shaft, angle, status.shortestPathEnabled)
             ELSE getRelativePosition(shaft, angle, status.destinationPosition)
           m == [pc |-> "ecs", angle |-> angle, current |-> shaft,
                 last |-> status.destinationPosition, mode |-> status.mode,
                 shortest |-> status.shortestPathEnabled,
                 toMove |-> way.toMove, destination |-> way.destination]
<1>1. /\ shaft \in 0 .. Turn - 1 /\ angle \in Int
      /\ status.mode \in {"ABS", "REL"}
      /\ status.destinationPosition \in Places
      /\ status.destinationPosition >= -1
  BY SettingsAssumption DEF GInv, IInv, TypeOK, Aimed
<1>2. move' = m
  BY DEF Begin
<1>3. CASE status.mode = "ABS"
  <2>1. way.destination = Destination(angle)
    BY <1>3 DEF GetAbsolutePosition
  <2>2. Destination(angle) \in Int /\ Same(Destination(angle), angle)
    BY <1>1, DestinationSame, DestinationType, TurnAssumption DEF Places
  <2> HIDE DEF way
  <2>3. m.mode = "ABS" /\ m.angle = angle /\ m.destination = Destination(angle)
    BY <1>3, <2>1
  <2> HIDE DEF m
  <2>4. WellTold(m)
    BY <1>1, <2>2, <2>3, ToldAbsolute DEF WellTold
  <2>5. m.pc = "ecs"
    BY DEF m
  <2> QED BY <1>2, <2>4, <2>5 DEF AsTold
<1>4. CASE status.mode # "ABS"
  <2>1. way = getRelativePosition(shaft, angle, status.destinationPosition)
    BY <1>4
  <2> HIDE DEF way
  <2>2. /\ m.mode = "REL" /\ m.angle = angle /\ m.current = shaft
        /\ m.last = status.destinationPosition
        /\ m.destination = way.destination /\ m.pc = "ecs"
    BY <1>1, <1>4
  <2> HIDE DEF m
  <2>3. m.destination
          = getRelativePosition(m.current, m.angle, m.last).destination
    BY <2>1, <2>2
  <2>4. WellTold(m)
    BY <1>1, <2>2, <2>3, ToldRelative DEF WellTold
  <2> QED BY <1>2, <2>2, <2>4 DEF AsTold
<1> QED BY <1>3, <1>4

LEMMA AsToldDirection == ASSUME GInv, AsTold, setDirection PROVE AsTold'
<1>1. move \in Commands("ecs") /\ move.pc = "ecs"
  BY DEF GInv, IInv, TypeOK, setDirection, Idle
<1>2. move'.pc = "rotate" /\ move'.cmd = [move EXCEPT !.pc = "rotate"]
  BY DEF setDirection
<1>3. /\ move'.cmd.mode = move.mode /\ move'.cmd.angle = move.angle
      /\ move'.cmd.current = move.current /\ move'.cmd.last = move.last
      /\ move'.cmd.destination = move.destination
  BY <1>1, <1>2 DEF Commands
<1>4. WellTold(move)
  BY <1>1 DEF AsTold
<1>5. WellTold(move'.cmd)
  BY <1>3, <1>4 DEF WellTold, DriftOf, Told, Drift
<1> QED BY <1>2, <1>5 DEF AsTold

LEMMA AsToldRest ==
  ASSUME GInv, AsTold, [Next]_vars,
         ~ \E angle \in Angles : Begin(angle), ~ setDirection
  PROVE AsTold'
<1>1. CASE \E part \in Parts : doRotateAgain(part)
  <2>1. /\ move.pc = "rotate"
        /\ move \in [pc : {"rotate"}, attempt : 1 .. 3, way : Int, goal : Int,
                    backlash : {0, BackLash}, cmd : Commands("rotate"),
                    from : 0 .. Turn - 1]
    BY <1>1 DEF GInv, IInv, doRotateAgain, TypeOK, Idle, Commands
  <2>2. move'.pc = "rotate" /\ move'.cmd = move.cmd
    BY <1>1, <2>1 DEF doRotateAgain
  <2> QED BY <2>1, <2>2 DEF AsTold
<1>2. CASE move' = Idle
  BY <1>2 DEF AsTold, Idle
<1>3. CASE move' = move
  BY <1>3 DEF AsTold
<1>4. \/ \E part \in Parts : doRotateAgain(part)
      \/ move' = Idle \/ move' = move
  BY DEF Next, vars, NoEcs, FastPath, doRotate, doRotateFails, ManualJog,
         moveToZero, currentDriverPosition, SetStatus
<1> QED BY <1>1, <1>2, <1>3, <1>4

(* A move that sends its finish signal stands where it was told to.          *)
LEMMA FinishedStep ==
  ASSUME GInv, AsTold, [Next]_vars,
         move # Idle, move' = Idle, result' \in {"fin", "dup"}
  PROVE LET m == IF move.pc = "rotate" THEN move.cmd ELSE move IN
        Arc(shaft', Told(m)) <= Tolerance + Drift(m)
<1>1. \/ FastPath
      \/ \E slip \in Slips : doRotate(slip)
  BY DEF Next, vars, Begin, NoEcs, setDirection, doRotateAgain, doRotateFails,
         ManualJog, moveToZero, currentDriverPosition, SetStatus, Idle
<1>2. CASE FastPath
  <2>1. move \in Commands("ecs") /\ move.pc = "ecs" /\ shaft' = shaft
        /\ Abs(shaft - move.destination) <= Tolerance
    BY <1>2 DEF GInv, IInv, TypeOK, FastPath, AtTarget, Idle
  <2>2. move.destination \in Int /\ shaft \in Int
    BY <2>1, TurnAssumption DEF Commands, Places, GInv, IInv, TypeOK
  <2>3. Within(shaft, move.destination, Tolerance)
    BY <2>1, <2>2, NotBlockedFast
  <2>4. WellTold(move)
    BY <2>1 DEF AsTold
  <2>5. Arc(shaft, Told(move)) <= Tolerance + Drift(move)
    BY <2>2, <2>3, <2>4, WithinAdd, ToleranceAssumption DEF WellTold, DriftOf
  <2> QED BY <2>1, <2>5
<1>3. CASE \E slip \in Slips : doRotate(slip)
  <2>1. PICK slip \in Slips : doRotate(slip)
    BY <1>3
  <2>2. /\ move.pc = "rotate" /\ move.cmd \in Commands("rotate")
        /\ move.way \in Int /\ slip \in Int /\ shaft \in Int
    BY <2>1, ToleranceAssumption, TurnAssumption
       DEF GInv, IInv, TypeOK, doRotate, Idle, Commands
  <2>3. shaft + move.way + slip \in Int
    BY <2>2
  <2>4. shaft' \in Int
    BY <2>1, <2>3, OnShaftType, TurnAssumption DEF doRotate
  <2>5. ~ BlockedAt(shaft')
    BY <2>1 DEF doRotate
  <2>6. move.cmd.destination \in Int
    BY <2>2, TurnAssumption DEF Commands, Places
  <2>7. Within(shaft', move.cmd.destination, Tolerance)
    BY <2>4, <2>5, <2>6, NotBlocked
  <2>8. WellTold(move.cmd)
    BY <2>2 DEF AsTold
  <2>9. Arc(shaft', Told(move.cmd)) <= Tolerance + Drift(move.cmd)
    BY <2>4, <2>6, <2>7, <2>8, WithinAdd, ToleranceAssumption
       DEF WellTold, DriftOf
  <2> QED BY <2>2, <2>9
<1> QED BY <1>1, <1>2, <1>3

(* MovesWhereTold for every turn, tolerance and setting, for angles from     *)
(* -360 degrees on.                                                         *)
THEOREM MovesWhereToldHolds ==
  ASSUME \A a \in Angles : a >= -Turn PROVE Spec => MovesWhereTold
<1>1. Init => AsTold
  BY DEF Init, AsTold, Idle
<1>2. GInv /\ AsTold /\ [Next]_vars => AsTold'
  BY AsToldBegin, AsToldDirection, AsToldRest
<1>3. Spec => []GInv
  BY GInvHolds
<1>4. GInv /\ AsTold /\ [Next]_vars =>
        [LET m == IF move.pc = "rotate" THEN move.cmd ELSE move IN
         move # Idle /\ move' = Idle /\ result' \in {"fin", "dup"}
         => Arc(shaft', Told(m)) <= Tolerance + Drift(m)]_vars
  BY FinishedStep
<1> QED BY <1>1, <1>2, <1>3, <1>4, PTL DEF Spec, MovesWhereTold
==============================================================================
