------------------------ MODULE FaultHistory_proofs ------------------------
(***************************************************************************)
(* Theorems about FaultHistory for every number of drives, pollers, error  *)
(* codes and slots.                                                        *)
(***************************************************************************)
EXTENDS FaultHistory, SequenceTheorems, TLAPS

----------------------------------------------------------------------------
\* Where the entries are.

\* The slot of the i-th entry when count = c and head = h.
SlotOf(h, c, i) ==
  IF c < Capacity THEN i - 1
  ELSE IF h + i - 1 < Capacity THEN h + i - 1
  ELSE h + i - 1 - Capacity

\* A remainder by Capacity, for the range in which the code takes one.
LEMMA Modulo ==
  ASSUME NEW a \in 0 .. 2 * Capacity - 1
  PROVE  a % Capacity = IF a < Capacity THEN a ELSE a - Capacity
<1>1. Capacity \in Nat \ {0}
  BY CapacityAssumption
<1>2. CASE a < Capacity
  BY <1>1, <1>2, Z3
<1>3. CASE a >= Capacity
  BY <1>1, <1>3, Z3
<1> QED
  BY <1>1, <1>2, <1>3

\* The index that GetFaultHistory computes with two remainders is SlotOf.
LEMMA SlotOfEntry ==
  ASSUME NEW h \in Slots, NEW c \in 0 .. Capacity, c < Capacity => h = c,
         NEW i \in 1 .. c
  PROVE  /\ (((h - c + Capacity) % Capacity) + i - 1) % Capacity = SlotOf(h, c, i)
         /\ SlotOf(h, c, i) \in Slots
         /\ c < Capacity => SlotOf(h, c, i) < c
<1> DEFINE start == (h - c + Capacity) % Capacity
<1>1. Capacity \in Nat \ {0}
  BY CapacityAssumption
<1>2. h - c + Capacity \in 0 .. 2 * Capacity - 1
  BY <1>1 DEF Slots
<1>3. start = IF c < Capacity THEN 0 ELSE h
  <2>1. start = IF h - c + Capacity < Capacity THEN h - c + Capacity ELSE h - c
    BY <1>1, <1>2, Modulo DEF Slots
  <2> QED
    BY <2>1, <1>1 DEF Slots
<1> HIDE DEF start
<1>4. start + i - 1 \in 0 .. 2 * Capacity - 1
  BY <1>1, <1>3 DEF Slots
<1>5. (start + i - 1) % Capacity =
        IF start + i - 1 < Capacity THEN start + i - 1
                                    ELSE start + i - 1 - Capacity
  BY <1>1, <1>3, <1>4, Modulo DEF Slots
<1>6. (start + i - 1) % Capacity = SlotOf(h, c, i)
  BY <1>1, <1>3, <1>5 DEF SlotOf, Slots
<1>7. SlotOf(h, c, i) \in Slots /\ (c < Capacity => SlotOf(h, c, i) < c)
  BY <1>1 DEF SlotOf, Slots
<1> QED
  BY <1>6, <1>7 DEF start

\* What GetFaultHistory returns, for a ring r in the shape of RingShape.
Shaped(r, h, c) ==
  /\ r \in [Slots -> Entry \cup {Blank}]
  /\ h \in Slots
  /\ c \in 0 .. Capacity
  /\ c < Capacity => h = c
  /\ \A s \in Slots : s < c => r[s] # Blank

ReadRing(r, h, c) ==
  [i \in 1 .. c |-> r[(((h - c + Capacity) % Capacity) + i - 1) % Capacity]]

LEMMA ReadSlots ==
  ASSUME NEW r, NEW h, NEW c, Shaped(r, h, c)
  PROVE  /\ ReadRing(r, h, c) = [i \in 1 .. c |-> r[SlotOf(h, c, i)]]
         /\ ReadRing(r, h, c) \in [1 .. c -> Entry]
<1>1. Capacity \in Nat \ {0} /\ h \in Slots /\ c \in 0 .. Capacity
      /\ (c < Capacity => h = c)
  BY CapacityAssumption DEF Shaped
<1>2. ASSUME NEW i \in 1 .. c
      PROVE  /\ (((h - c + Capacity) % Capacity) + i - 1) % Capacity
                   = SlotOf(h, c, i)
             /\ r[SlotOf(h, c, i)] \in Entry
  <2>1. /\ (((h - c + Capacity) % Capacity) + i - 1) % Capacity
              = SlotOf(h, c, i)
        /\ SlotOf(h, c, i) \in Slots
        /\ c < Capacity => SlotOf(h, c, i) < c
    BY <1>1, SlotOfEntry
  <2>2. SlotOf(h, c, i) < c
    BY <1>1, <2>1 DEF Slots
  <2>3. r[SlotOf(h, c, i)] # Blank
    BY <2>1, <2>2 DEF Shaped
  <2>4. r[SlotOf(h, c, i)] \in Entry \cup {Blank}
    BY <2>1 DEF Shaped
  <2> QED
    BY <2>1, <2>3, <2>4
<1>3. ReadRing(r, h, c) = [i \in 1 .. c |-> r[SlotOf(h, c, i)]]
  BY <1>2 DEF ReadRing
<1> QED
  BY <1>2, <1>3

\* A history of c entries is one of the bounded Histories, of length c.
LEMMA BoundedHistory ==
  ASSUME NEW c \in 0 .. Capacity, NEW h \in [1 .. c -> Entry]
  PROVE  h \in Histories /\ Len(h) = c
  BY CapacityAssumption DEF Histories

LEMMA EmptyHistory == << >> \in Histories
<1>1. << >> \in [1 .. 0 -> Entry]
  OBVIOUS
<1>2. 0 \in 0 .. Capacity
  BY CapacityAssumption
<1>3. \E n \in 0 .. Capacity : << >> \in [1 .. n -> Entry]
  BY <1>1, <1>2
<1> QED
  BY <1>3 DEF Histories

LEMMA HistoryLength ==
  ASSUME NEW h \in Histories
  PROVE  Len(h) \in 0 .. Capacity /\ h \in [1 .. Len(h) -> Entry]
<1> PICK n \in 0 .. Capacity : h \in [1 .. n -> Entry]
  BY DEF Histories
<1> QED
  BY BoundedHistory

----------------------------------------------------------------------------
\* The ring keeps its shape.

RingOK == TypeOK /\ RingShape

LEMMA ShapedRing == RingOK => Shaped(ring, head, count)
  BY DEF RingOK, TypeOK, RingShape, Shaped

LEMMA HistoryTyped == RingOK => GetFaultHistory \in Histories
<1> SUFFICES ASSUME RingOK PROVE GetFaultHistory \in Histories
  OBVIOUS
<1>1. GetFaultHistory = ReadRing(ring, head, count)
  BY DEF GetFaultHistory, ReadRing
<1>2. GetFaultHistory \in [1 .. count -> Entry]
  BY <1>1, ShapedRing, ReadSlots
<1> QED
  BY <1>2, BoundedHistory DEF RingOK, TypeOK

LEMMA InitRing == Init => RingOK
<1> SUFFICES ASSUME Init PROVE RingOK
  OBVIOUS
<1>1. << >> \in Histories
  BY EmptyHistory
<1>2. 0 \in Slots
  BY CapacityAssumption DEF Slots
<1>3. ring \in [Slots -> Entry \cup {Blank}]
  BY DEF Init
<1>4. TypeOK
  BY <1>1, <1>2, <1>3, CapacityAssumption, MaxFaultsAssumption DEF Init, TypeOK
<1>5. RingShape
  BY DEF Init, RingShape, Slots
<1> QED
  BY <1>4, <1>5 DEF RingOK

\* Entering a fault: the slot at head is written, head and count follow.
LEMMA EnterRing ==
  ASSUME RingOK, clock < MaxFaults,
         NEW d \in Devices, NEW c \in Codes, Enter(d, c)
  PROVE  /\ ring' \in [Slots -> Entry \cup {Blank}]
         /\ head' \in Slots /\ count' \in 0 .. Capacity
         /\ RingShape'
         /\ [dev |-> d, code |-> c, at |-> clock] \in Entry
         /\ head' = IF head = Capacity - 1 THEN 0 ELSE head + 1
<1>1. /\ Capacity \in Nat \ {0} /\ head \in Slots /\ count \in 0 .. Capacity
      /\ ring \in [Slots -> Entry \cup {Blank}]
      /\ count < Capacity => head = count
      /\ \A s \in Slots : s < count => ring[s] # Blank
  BY CapacityAssumption DEF RingOK, TypeOK, RingShape
<1>2. [dev |-> d, code |-> c, at |-> clock] \in Entry
  BY MaxFaultsAssumption DEF RingOK, TypeOK, Entry
<1>3. [dev |-> d, code |-> c, at |-> clock] # Blank
  BY <1>2, BlankAssumption
<1>4. head' = IF head = Capacity - 1 THEN 0 ELSE head + 1
  <2>1. head + 1 \in 0 .. 2 * Capacity - 1
    BY <1>1 DEF Slots
  <2>2. head' = IF head + 1 < Capacity THEN head + 1 ELSE head + 1 - Capacity
    <3>1. head' = (head + 1) % Capacity
      BY DEF Enter
    <3>2. head \in Int
      BY <1>1 DEF Slots
    <3> QED
      BY <1>1, <2>1, <3>1, <3>2, Modulo
  <2> QED
    BY <1>1, <2>2 DEF Slots
<1>5. head' \in Slots
  BY <1>1, <1>4 DEF Slots
<1>6. count' \in 0 .. Capacity
  BY <1>1 DEF Enter
<1>7. ring' \in [Slots -> Entry \cup {Blank}]
  BY <1>1, <1>2 DEF Enter
<1>8. count' < Capacity => head' = count'
  BY <1>1, <1>4 DEF Enter, Slots
<1>9. ASSUME NEW s \in Slots, s < count' PROVE ring'[s] # Blank
  <2>1. CASE s = head
    BY <1>1, <1>3, <2>1 DEF Enter
  <2>2. CASE s # head
    BY <1>1, <2>2, <1>9 DEF Enter, Slots
  <2> QED
    BY <2>1, <2>2
<1> QED
  BY <1>2, <1>4, <1>5, <1>6, <1>7, <1>8, <1>9 DEF RingShape

LEMMA NextRing == RingOK /\ [Next]_vars => RingOK'
<1> SUFFICES ASSUME RingOK, [Next]_vars PROVE RingOK'
  OBVIOUS
<1> USE DEF RingOK
<1>1. << >> \in Histories
  BY EmptyHistory
<1>2. ASSUME NEW p \in Pollers, NEW c \in Codes, RecordFault(p, c) PROVE RingOK'
  <2>1. DeviceOf[p] \in Devices
    BY PollersAssumption
  <2>2. clock' \in 0 .. MaxFaults
    BY <1>2, MaxFaultsAssumption DEF RecordFault, TypeOK
  <2>3. /\ ring' \in [Slots -> Entry \cup {Blank}]
        /\ head' \in Slots /\ count' \in 0 .. Capacity /\ RingShape'
    BY <1>2, <2>1, EnterRing DEF RecordFault
  <2> QED
    BY <1>2, <2>2, <2>3 DEF RecordFault, TypeOK
<1>3. ASSUME NEW p \in Pollers, TakeSnapshot(p) PROVE RingOK'
  BY <1>3, HistoryTyped DEF TakeSnapshot, historyVars, TypeOK, RingShape
<1>4. ASSUME NEW p \in Pollers, TruncateFile(p) PROVE RingOK'
  BY <1>1, <1>4 DEF TruncateFile, historyVars, TypeOK, RingShape
<1>5. ASSUME NEW p \in Pollers, WriteFile(p) PROVE RingOK'
  BY <1>1, <1>5 DEF WriteFile, historyVars, TypeOK, RingShape
<1>6. CASE ClearRing
  BY <1>6, CapacityAssumption DEF ClearRing, TypeOK, RingShape, Slots
<1>7. CASE RemoveFile
  BY <1>1, <1>7 DEF RemoveFile, historyVars, TypeOK, RingShape
<1>8. CASE Restart
  <2>1. Len(disk) \in 0 .. Capacity /\ disk \in [1 .. Len(disk) -> Entry]
    BY HistoryLength DEF TypeOK
  <2>2. ASSUME NEW s \in Slots, s < Len(disk) PROVE disk[s + 1] \in Entry
    BY <2>1, <2>2 DEF Slots
  <2>3. /\ ring' \in [Slots -> Entry \cup {Blank}]
        /\ \A s \in Slots : s < Len(disk) => ring'[s] # Blank
    BY <1>8, <2>2, BlankAssumption DEF Restart
  <2>4. /\ head' \in Slots
        /\ Len(disk) < Capacity => head' = Len(disk)
    BY <1>8, <2>1, CapacityAssumption, Modulo DEF Restart, Slots
  <2> QED
    BY <1>1, <1>8, <2>1, <2>3, <2>4 DEF Restart, TypeOK, RingShape
<1>9. CASE UNCHANGED vars
  BY <1>9 DEF vars, TypeOK, RingShape
<1> QED
  BY <1>2, <1>3, <1>4, <1>5, <1>6, <1>7, <1>8, <1>9 DEF Next, Poller

\* Every variable of the fault history keeps its type.
THEOREM TypeCorrect == Spec => []TypeOK
<1>1. Spec => []RingOK
  BY InitRing, NextRing, PTL DEF Spec
<1>2. RingOK => TypeOK
  BY DEF RingOK
<1> QED
  BY <1>1, <1>2, PTL

\* head and count agree on where the valid slots are, after any number of
\* faults, clears and restarts: RecordFault and LoadFaultHistory.
THEOREM RingShapeHolds == Spec => []RingShape
<1>1. Spec => []RingOK
  BY InitRing, NextRing, PTL DEF Spec
<1>2. RingOK => RingShape
  BY DEF RingOK
<1> QED
  BY <1>1, <1>2, PTL
----------------------------------------------------------------------------
\* What a reader of the history sees of RecordFault.

\* Enter appends the fault and, when the ring is full, drops the oldest entry.
LEMMA EnterHistory ==
  ASSUME RingOK, clock < MaxFaults,
         NEW d \in Devices, NEW c \in Codes, Enter(d, c)
  PROVE  GetFaultHistory' =
           [i \in 1 .. count' |->
              IF i = count' THEN [dev |-> d, code |-> c, at |-> clock]
              ELSE IF count < Capacity THEN GetFaultHistory[i]
              ELSE GetFaultHistory[i + 1]]
<1> DEFINE e == [dev |-> d, code |-> c, at |-> clock]
<1>1. /\ Capacity \in Nat \ {0} /\ head \in Slots /\ count \in 0 .. Capacity
      /\ ring \in [Slots -> Entry \cup {Blank}]
      /\ count < Capacity => head = count
  BY CapacityAssumption DEF RingOK, TypeOK, RingShape
<1>2. /\ ring' \in [Slots -> Entry \cup {Blank}]
      /\ head' \in Slots /\ count' \in 0 .. Capacity /\ RingShape'
      /\ head' = IF head = Capacity - 1 THEN 0 ELSE head + 1
  BY EnterRing
<1>3. Shaped(ring', head', count')
  BY <1>2 DEF Shaped, RingShape
<1>4. GetFaultHistory' = [i \in 1 .. count' |-> ring'[SlotOf(head', count', i)]]
  BY <1>3, ReadSlots DEF GetFaultHistory, ReadRing
<1>5. GetFaultHistory = [i \in 1 .. count |-> ring[SlotOf(head, count, i)]]
  BY ShapedRing, ReadSlots DEF GetFaultHistory, ReadRing
<1>6. count' = IF count < Capacity THEN count + 1 ELSE count
  BY DEF Enter
<1>7. ASSUME NEW i \in 1 .. count'
      PROVE  ring'[SlotOf(head', count', i)] =
               IF i = count' THEN e
               ELSE IF count < Capacity THEN GetFaultHistory[i]
               ELSE GetFaultHistory[i + 1]
  <2>1. CASE i = count'
    <3>1. SlotOf(head', count', i) = head
      BY <1>1, <1>2, <1>6, <2>1 DEF SlotOf, Slots
    <3> QED
      BY <1>1, <2>1, <3>1 DEF Enter
  <2>2. CASE i # count' /\ count < Capacity
    <3>1. i \in 1 .. count /\ SlotOf(head', count', i) = i - 1
      BY <1>1, <1>2, <1>6, <2>2 DEF SlotOf, Slots
    <3>2. i - 1 \in Slots /\ i - 1 # head
      BY <1>1, <2>2, <3>1 DEF Slots
    <3>3. ring'[i - 1] = ring[i - 1]
      BY <1>1, <3>2 DEF Enter
    <3>4. GetFaultHistory[i] = ring[i - 1]
      BY <1>5, <2>2, <3>1 DEF SlotOf
    <3> QED
      BY <2>2, <3>1, <3>3, <3>4
  <2>3. CASE i # count' /\ ~ (count < Capacity)
    <3>1. i + 1 \in 1 .. count
          /\ SlotOf(head', count', i) = SlotOf(head, count, i + 1)
      BY <1>1, <1>2, <1>6, <2>3 DEF SlotOf, Slots
    <3>2. SlotOf(head, count, i + 1) \in Slots
          /\ SlotOf(head, count, i + 1) # head
      BY <1>1, <2>3, <1>6 DEF SlotOf, Slots
    <3>3. ring'[SlotOf(head, count, i + 1)] = ring[SlotOf(head, count, i + 1)]
      BY <1>1, <3>2 DEF Enter
    <3>4. GetFaultHistory[i + 1] = ring[SlotOf(head, count, i + 1)]
      BY <1>5, <3>1
    <3> QED
      BY <2>3, <3>1, <3>3, <3>4
  <2> QED
    BY <2>1, <2>2, <2>3
<1> QED
  BY <1>4, <1>7

\* Repeats looks at the newest entry of the history.
LEMMA NewestEntry ==
  ASSUME RingOK, count > 0
  PROVE  ring[(head - 1 + Capacity) % Capacity] = GetFaultHistory[count]
<1>1. /\ Capacity \in Nat \ {0} /\ head \in Slots /\ count \in 0 .. Capacity
      /\ count < Capacity => head = count
  BY CapacityAssumption DEF RingOK, TypeOK, RingShape
<1>2. head - 1 + Capacity \in 0 .. 2 * Capacity - 1 /\ head \in Int
  BY <1>1 DEF Slots
<1>3. (head - 1 + Capacity) % Capacity =
        IF head - 1 + Capacity < Capacity THEN head - 1 + Capacity
        ELSE head - 1 + Capacity - Capacity
  BY <1>1, <1>2, Modulo
<1>4. (head - 1 + Capacity) % Capacity = SlotOf(head, count, count)
  BY <1>1, <1>3 DEF SlotOf, Slots
<1>5. GetFaultHistory = [i \in 1 .. count |-> ring[SlotOf(head, count, i)]]
  BY ShapedRing, ReadSlots DEF GetFaultHistory, ReadRing
<1> QED
  BY <1>1, <1>4, <1>5

----------------------------------------------------------------------------
\* Every copy of the history, in memory, on disk or about to be written.

Sound(h) ==
  /\ Increasing(h)
  /\ NoRepeatsIn(h)
  /\ \A i \in DOMAIN h : h[i].at < clock

\* Chronological and NoRepeats together are inductive once the pending writes
\* and the age of the entries are taken along.
HistoryOK ==
  /\ RingOK
  /\ Sound(GetFaultHistory)
  /\ Sound(disk)
  /\ \A p \in Pollers : Sound(snapshot[p])

LEMMA EmptySound == Sound(<< >>)
  BY DEF Sound, Increasing, NoRepeatsIn

\* Time passes: an old copy stays as it is.
LEMMA SoundLater ==
  ASSUME RingOK, clock' = clock + 1, NEW h \in Histories, Sound(h)
  PROVE  Sound(h)'
<1>1. h \in [1 .. Len(h) -> Entry] /\ Len(h) \in Nat
  BY HistoryLength, CapacityAssumption
<1>2. \A i \in DOMAIN h : h[i].at \in Int
  BY <1>1, MaxFaultsAssumption DEF Entry
<1>3. clock \in Int
  BY MaxFaultsAssumption DEF RingOK, TypeOK
<1> QED
  BY <1>2, <1>3 DEF Sound, Increasing, NoRepeatsIn

LEMMA InitHistory == Init => HistoryOK
<1> SUFFICES ASSUME Init PROVE HistoryOK
  OBVIOUS
<1>1. RingOK
  BY InitRing
<1>2. GetFaultHistory = << >>
  BY DEF Init, GetFaultHistory
<1>3. disk = << >> /\ \A p \in Pollers : snapshot[p] = << >>
  BY DEF Init
<1> QED
  BY <1>1, <1>2, <1>3, EmptySound DEF HistoryOK

\* A fault that does not repeat the newest one keeps the history sound.
LEMMA RecordSound ==
  ASSUME HistoryOK, NEW p \in Pollers, NEW c \in Codes, RecordFault(p, c)
  PROVE  Sound(GetFaultHistory)'
<1> DEFINE h == GetFaultHistory
           e == [dev |-> DeviceOf[p], code |-> c, at |-> clock]
           old(i) == IF count < Capacity THEN i ELSE i + 1
<1>1. /\ RingOK /\ Sound(h) /\ clock < MaxFaults /\ clock' = clock + 1
      /\ DeviceOf[p] \in Devices /\ Enter(DeviceOf[p], c)
      /\ ~ Repeats(DeviceOf[p], c)
  BY PollersAssumption DEF HistoryOK, RecordFault
<1>2. /\ Capacity \in Nat \ {0} /\ count \in 0 .. Capacity /\ clock \in Int
      /\ count' = IF count < Capacity THEN count + 1 ELSE count
  BY <1>1, CapacityAssumption, MaxFaultsAssumption DEF RingOK, TypeOK, Enter
<1>3. h' = [i \in 1 .. count' |-> IF i = count' THEN e
              ELSE IF count < Capacity THEN h[i] ELSE h[i + 1]]
  BY <1>1, EnterHistory
<1>4. h \in [1 .. count -> Entry]
  BY <1>1, ShapedRing, ReadSlots DEF GetFaultHistory, ReadRing
<1>5. count > 0 => ~ (h[count].dev = e.dev /\ h[count].code = e.code)
  BY <1>1, NewestEntry DEF Repeats
<1> HIDE DEF h
<1>6. \A i \in 1 .. count : h[i].at \in Int /\ h[i].at < clock
  BY <1>1, <1>4, MaxFaultsAssumption DEF Sound, Entry
<1>7. \A i \in 1 .. count' : i # count' =>
        /\ old(i) \in 1 .. count /\ h'[i] = h[old(i)]
        /\ i + 1 # count' => old(i + 1) = old(i) + 1
        /\ i + 1 = count' => old(i) = count
        /\ \A j \in 1 .. count' : i < j => old(i) < old(j)
  BY <1>2, <1>3
<1>8. DOMAIN h = 1 .. count /\ DOMAIN h' = 1 .. count' /\ count' \in Nat
  BY <1>2, <1>3, <1>4
<1>9. count' > 0 /\ h'[count'] = e
  BY <1>2, <1>3
<1> HIDE DEF e, old
<1>10. e.at = clock
  BY DEF e
<1>11. \A i, j \in 1 .. count' : i < j => h'[i].at < h'[j].at
  <2> SUFFICES ASSUME NEW i \in 1 .. count', NEW j \in 1 .. count', i < j
               PROVE  h'[i].at < h'[j].at
    OBVIOUS
  <2>1. i # count' /\ old(i) \in 1 .. count /\ h'[i] = h[old(i)]
    BY <1>7, <1>8
  <2>2. CASE j = count'
    BY <1>6, <1>9, <1>10, <2>1, <2>2
  <2>3. CASE j # count'
    <3>1. old(j) \in 1 .. count /\ h'[j] = h[old(j)] /\ old(i) < old(j)
      BY <1>7, <2>1, <2>3
    <3> QED
      BY <1>1, <1>8, <2>1, <3>1 DEF Sound, Increasing
  <2> QED
    BY <2>2, <2>3
<1>12. \A i \in 1 .. count' : i + 1 \in 1 .. count' =>
         ~ (h'[i].dev = h'[i + 1].dev /\ h'[i].code = h'[i + 1].code)
  <2> SUFFICES ASSUME NEW i \in 1 .. count', i + 1 \in 1 .. count'
               PROVE  ~ (h'[i].dev = h'[i + 1].dev /\ h'[i].code = h'[i + 1].code)
    OBVIOUS
  <2>1. i # count' /\ old(i) \in 1 .. count /\ h'[i] = h[old(i)]
    BY <1>7, <1>8
  <2>2. CASE i + 1 = count'
    <3>1. old(i) = count /\ count > 0
      BY <1>2, <1>7, <2>1, <2>2
    <3> QED
      BY <1>5, <1>9, <2>1, <2>2, <3>1
  <2>3. CASE i + 1 # count'
    <3>1. old(i + 1) \in 1 .. count /\ h'[i + 1] = h[old(i) + 1]
          /\ old(i) + 1 \in 1 .. count
      BY <1>7, <2>1, <2>3
    <3> QED
      BY <1>1, <1>8, <2>1, <3>1 DEF Sound, NoRepeatsIn
  <2> QED
    BY <2>2, <2>3
<1>13. \A i \in 1 .. count' : h'[i].at < clock'
  <2> SUFFICES ASSUME NEW i \in 1 .. count' PROVE h'[i].at < clock'
    OBVIOUS
  <2>1. CASE i = count'
    BY <1>1, <1>2, <1>9, <1>10, <2>1
  <2>2. CASE i # count'
    <3>1. h'[i].at \in Int /\ h'[i].at < clock
      BY <1>6, <1>7, <2>2
    <3> QED
      BY <1>1, <1>2, <3>1
  <2> QED
    BY <2>1, <2>2
<1> QED
  BY <1>8, <1>11, <1>12, <1>13 DEF Sound, Increasing, NoRepeatsIn, h

\* LoadFaultHistory puts the entries of the file where GetFaultHistory reads
\* them.
LEMMA RestartHistory ==
  ASSUME RingOK, Restart
  PROVE  GetFaultHistory' = disk
<1> DEFINE n == Len(disk)
<1>1. n \in 0 .. Capacity /\ disk \in [1 .. n -> Entry]
  BY HistoryLength DEF RingOK, TypeOK
<1>2. RingOK'
  BY NextRing DEF Next
<1>3. Shaped(ring', head', count')
  BY <1>2 DEF RingOK, TypeOK, RingShape, Shaped
<1>4. GetFaultHistory' = [i \in 1 .. count' |-> ring'[SlotOf(head', count', i)]]
  BY <1>3, ReadSlots DEF GetFaultHistory, ReadRing
<1>5. count' = n /\ head' = n % Capacity
      /\ ring' = [s \in Slots |-> IF s < n THEN disk[s + 1] ELSE Blank]
  BY DEF Restart
<1> HIDE DEF n
<1>6. head' = IF n < Capacity THEN n ELSE 0
  <2>1. n \in 0 .. 2 * Capacity - 1
    BY <1>1, CapacityAssumption
  <2>2. n % Capacity = IF n < Capacity THEN n ELSE n - Capacity
    BY <2>1, Modulo
  <2> QED
    BY <1>1, <1>5, <2>2, CapacityAssumption
<1>7. ASSUME NEW i \in 1 .. n PROVE ring'[SlotOf(head', n, i)] = disk[i]
  <2>1. SlotOf(head', n, i) = i - 1 /\ i - 1 \in Slots /\ i - 1 < n
    BY <1>1, <1>6, CapacityAssumption DEF SlotOf, Slots
  <2> QED
    BY <1>1, <1>5, <2>1
<1>8. disk = [i \in 1 .. n |-> disk[i]]
  BY <1>1
<1> QED
  BY <1>4, <1>5, <1>7, <1>8

LEMMA NextHistory == HistoryOK /\ [Next]_vars => HistoryOK'
<1> SUFFICES ASSUME HistoryOK, [Next]_vars PROVE HistoryOK'
  OBVIOUS
<1>1. RingOK /\ RingOK'
  BY NextRing DEF HistoryOK
<1>2. GetFaultHistory \in Histories /\ disk \in Histories
      /\ \A p \in Pollers : snapshot[p] \in Histories
  BY <1>1, HistoryTyped DEF RingOK, TypeOK
<1>3. Sound(GetFaultHistory) /\ Sound(disk)
      /\ \A p \in Pollers : Sound(snapshot[p])
  BY DEF HistoryOK
<1>4. ASSUME NEW h, Sound(h), clock' = clock PROVE Sound(h)'
  BY <1>4 DEF Sound, Increasing, NoRepeatsIn
<1>5. ASSUME UNCHANGED historyVars PROVE GetFaultHistory' = GetFaultHistory
  BY <1>5 DEF historyVars, GetFaultHistory
<1>6. ASSUME NEW p \in Pollers, NEW c \in Codes, RecordFault(p, c)
      PROVE  HistoryOK'
  <2>1. clock' = clock + 1 /\ UNCHANGED <<disk, snapshot>>
    BY <1>6 DEF RecordFault
  <2>2. Sound(GetFaultHistory)'
    BY <1>6, RecordSound
  <2>3. Sound(disk)'
    BY <1>1, <1>2, <1>3, <2>1, SoundLater DEF Sound, Increasing, NoRepeatsIn
  <2>4. ASSUME NEW q \in Pollers PROVE Sound(snapshot[q])'
    BY <1>1, <1>2, <1>3, <2>1, SoundLater DEF Sound, Increasing, NoRepeatsIn
  <2> QED
    BY <1>1, <2>2, <2>3, <2>4 DEF HistoryOK
<1>7. ASSUME NEW p \in Pollers, TakeSnapshot(p) PROVE HistoryOK'
  <2>1. UNCHANGED historyVars /\ UNCHANGED <<clock, disk>>
    BY <1>7 DEF TakeSnapshot
  <2>2. \A q \in Pollers : snapshot'[q] \in {snapshot[q], GetFaultHistory}
    BY <1>1, <1>7 DEF TakeSnapshot, RingOK, TypeOK
  <2>3. \A q \in Pollers : Sound(snapshot[q])'
    BY <1>3, <2>1, <2>2 DEF Sound, Increasing, NoRepeatsIn
  <2> QED
    BY <1>1, <1>3, <1>5, <2>1, <2>3 DEF HistoryOK, Sound, Increasing, NoRepeatsIn
<1>8. ASSUME NEW p \in Pollers, TruncateFile(p) PROVE HistoryOK'
  <2>1. UNCHANGED historyVars /\ UNCHANGED <<clock, snapshot>> /\ disk' = << >>
    BY <1>8 DEF TruncateFile
  <2> QED
    BY <1>1, <1>3, <1>5, <2>1, EmptySound
    DEF HistoryOK, Sound, Increasing, NoRepeatsIn
<1>9. ASSUME NEW p \in Pollers, WriteFile(p) PROVE HistoryOK'
  <2>1. UNCHANGED historyVars /\ UNCHANGED clock /\ disk' = snapshot[p]
    BY <1>9 DEF WriteFile
  <2>2. \A q \in Pollers : snapshot'[q] \in {snapshot[q], << >>}
    BY <1>1, <1>9 DEF WriteFile, RingOK, TypeOK
  <2>3. \A q \in Pollers : Sound(snapshot[q])'
    BY <1>3, <2>1, <2>2, EmptySound DEF Sound, Increasing, NoRepeatsIn
  <2> QED
    BY <1>1, <1>3, <1>5, <2>1, <2>3
    DEF HistoryOK, Sound, Increasing, NoRepeatsIn
<1>10. CASE ClearRing
  <2>1. UNCHANGED <<clock, disk, snapshot>> /\ count' = 0
    BY <1>10 DEF ClearRing
  <2>2. GetFaultHistory' = << >>
    BY <2>1 DEF GetFaultHistory
  <2> QED
    BY <1>1, <1>3, <2>1, <2>2, EmptySound
    DEF HistoryOK, Sound, Increasing, NoRepeatsIn
<1>11. CASE RemoveFile
  <2>1. UNCHANGED historyVars /\ UNCHANGED <<clock, snapshot>> /\ disk' = << >>
    BY <1>11 DEF RemoveFile
  <2> QED
    BY <1>1, <1>3, <1>5, <2>1, EmptySound
    DEF HistoryOK, Sound, Increasing, NoRepeatsIn
<1>12. CASE Restart
  <2>1. GetFaultHistory' = disk
    BY <1>1, <1>12, RestartHistory
  <2>2. UNCHANGED <<clock, disk>> /\ \A q \in Pollers : snapshot'[q] = << >>
    BY <1>12 DEF Restart
  <2> QED
    BY <1>1, <1>3, <2>1, <2>2, EmptySound
    DEF HistoryOK, Sound, Increasing, NoRepeatsIn
<1>13. CASE UNCHANGED vars
  BY <1>1, <1>3, <1>5, <1>13
  DEF vars, historyVars, HistoryOK, Sound, Increasing, NoRepeatsIn
<1> QED
  BY <1>6, <1>7, <1>8, <1>9, <1>10, <1>11, <1>12, <1>13 DEF Next, Poller

\* The history and its file are in chronological order, oldest fault first, and
\* so is what any poller is about to write: GetFaultHistory and
\* persistFaultHistory.
THEOREM ChronologicalHolds == Spec => []Chronological
<1>1. Spec => []HistoryOK
  BY InitHistory, NextHistory, PTL DEF Spec
<1>2. HistoryOK => Chronological
  BY DEF HistoryOK, Sound, Chronological
<1> QED
  BY <1>1, <1>2, PTL

\* A fault that lasts is entered once, across wrap-around, clears and restarts:
\* the comparison at the top of RecordFault.
THEOREM NoRepeatsHolds == Spec => []NoRepeats
<1>1. Spec => []HistoryOK
  BY InitHistory, NextHistory, PTL DEF Spec
<1>2. HistoryOK => NoRepeats
  BY DEF HistoryOK, Sound, NoRepeats
<1> QED
  BY <1>1, <1>2, PTL

----------------------------------------------------------------------------
\* The ring implements the bounded log.

LEMMA HistoryIsSeq == ASSUME NEW h \in Histories PROVE h \in Seq(Entry)
  BY HistoryLength, CapacityAssumption

\* What Enter does to the history is to append and to keep the newest entries.
LEMMA EnterNewest ==
  ASSUME RingOK, clock < MaxFaults,
         NEW d \in Devices, NEW c \in Codes, Enter(d, c)
  PROVE  GetFaultHistory' =
           Log!Newest(Append(GetFaultHistory,
                             [dev |-> d, code |-> c, at |-> clock]))
<1> DEFINE h == GetFaultHistory
           e == [dev |-> d, code |-> c, at |-> clock]
           n == Log!Newest(Append(h, e))
<1>1. /\ Capacity \in Nat \ {0} /\ count \in 0 .. Capacity
      /\ count' = IF count < Capacity THEN count + 1 ELSE count
  BY CapacityAssumption DEF RingOK, TypeOK, Enter
<1>2. h' = [i \in 1 .. count' |-> IF i = count' THEN e
              ELSE IF count < Capacity THEN h[i] ELSE h[i + 1]]
  BY EnterHistory
<1>3. h \in [1 .. count -> Entry]
  BY ShapedRing, ReadSlots DEF GetFaultHistory, ReadRing
<1>4. h \in Seq(Entry) /\ Len(h) = count
  BY <1>1, <1>3, BoundedHistory, HistoryIsSeq
<1>5. e \in Entry
  BY EnterRing
<1>6. h' \in [1 .. count' -> Entry]
  <2> SUFFICES ASSUME NEW i \in 1 .. count' PROVE h'[i] \in Entry
    BY <1>2
  <2> QED
    BY <1>1, <1>2, <1>3, <1>5
<1>7. h' \in Seq(Entry) /\ Len(h') = count'
  BY <1>1, <1>6
<1> HIDE DEF h, e
<1>8. /\ Append(h, e) \in Seq(Entry) /\ Len(Append(h, e)) = count + 1
      /\ \A i \in 1 .. count : Append(h, e)[i] = h[i]
      /\ Append(h, e)[count + 1] = e
      /\ Append(h, e) # << >>
  BY <1>4, <1>5, AppendProperties
<1>9. n \in Seq(Entry) /\ Len(n) = count'
      /\ \A i \in 1 .. count' : n[i] = h'[i]
  <2>1. CASE count < Capacity
    <3>1. n = Append(h, e)
      BY <1>1, <1>8, <2>1 DEF Log!Newest
    <3> QED
      BY <1>1, <1>2, <1>8, <2>1, <3>1
  <2>2. CASE ~ (count < Capacity)
    <3>1. n = Tail(Append(h, e))
      BY <1>1, <1>8, <2>2 DEF Log!Newest
    <3>2. /\ n \in Seq(Entry) /\ Len(n) = count
          /\ \A i \in 1 .. count : n[i] = Append(h, e)[i + 1]
      BY <1>1, <1>8, <3>1, HeadTailProperties
    <3> QED
      BY <1>1, <1>2, <1>8, <2>2, <3>2
  <2> QED
    BY <2>1, <2>2
<1>10. h' = n
  BY <1>7, <1>9, SeqEqual
<1> QED
  BY <1>10 DEF h, e

LEMMA InitLog == Init => Log!LogInit
  BY DEF Init, GetFaultHistory, Log!LogInit

LEMMA NextLog ==
  HistoryOK /\ [Next]_vars
    => [Log!LogNext]_<<GetFaultHistory, disk, clock>>
<1> SUFFICES ASSUME HistoryOK, [Next]_vars
             PROVE  [Log!LogNext]_<<GetFaultHistory, disk, clock>>
  OBVIOUS
<1>1. RingOK /\ TypeOK
  BY DEF HistoryOK, RingOK
<1>2. ASSUME UNCHANGED historyVars PROVE GetFaultHistory' = GetFaultHistory
  BY <1>2 DEF historyVars, GetFaultHistory
<1>3. ASSUME NEW h \in Histories, Sound(h), disk' = h,
             UNCHANGED historyVars, UNCHANGED clock
      PROVE  Log!LogSave
  BY <1>2, <1>3 DEF Log!LogSave, Sound, Histories
<1>4. ASSUME NEW p \in Pollers, NEW c \in Codes, RecordFault(p, c)
      PROVE  Log!LogRecord
  <2> DEFINE e == [dev |-> DeviceOf[p], code |-> c, at |-> clock]
  <2>1. /\ clock < MaxFaults /\ clock' = clock + 1 /\ UNCHANGED disk
        /\ DeviceOf[p] \in Devices /\ Enter(DeviceOf[p], c)
        /\ ~ Repeats(DeviceOf[p], c)
    BY <1>4, PollersAssumption DEF RecordFault
  <2>2. e \in Entry
    BY <1>1, <2>1, EnterRing
  <2>3. GetFaultHistory' = Log!Newest(Append(GetFaultHistory, e))
    BY <1>1, <2>1, EnterNewest
  <2>4. GetFaultHistory # << >> =>
          ~ Log!SameFault(GetFaultHistory[Len(GetFaultHistory)], e)
    <3> SUFFICES ASSUME GetFaultHistory # << >>
                 PROVE  ~ Log!SameFault(GetFaultHistory[Len(GetFaultHistory)], e)
      OBVIOUS
    <3>1. GetFaultHistory \in [1 .. count -> Entry]
      BY <1>1, ShapedRing, ReadSlots DEF GetFaultHistory, ReadRing
    <3> count \in 0 .. Capacity
      BY <1>1 DEF TypeOK
    <3>2. GetFaultHistory \in Seq(Entry) /\ Len(GetFaultHistory) = count
      BY <3>1, BoundedHistory, HistoryIsSeq
    <3>3. count > 0
      BY <3>1, <3>2, EmptySeq, CapacityAssumption
    <3>4. ring[(head - 1 + Capacity) % Capacity]
            = GetFaultHistory[Len(GetFaultHistory)]
      BY <1>1, <3>2, <3>3, NewestEntry
    <3> QED
      BY <2>1, <3>3, <3>4 DEF Repeats, Log!SameFault
  <2> QED
    BY <2>1, <2>2, <2>3, <2>4 DEF Log!LogRecord
<1>5. ASSUME NEW p \in Pollers, TakeSnapshot(p)
      PROVE  UNCHANGED <<GetFaultHistory, disk, clock>>
  BY <1>2, <1>5 DEF TakeSnapshot
<1>6. ASSUME NEW p \in Pollers, TruncateFile(p) PROVE Log!LogSave
  BY <1>3, <1>6, EmptyHistory, EmptySound DEF TruncateFile
<1>7. ASSUME NEW p \in Pollers, WriteFile(p) PROVE Log!LogSave
  <2>1. snapshot[p] \in Histories /\ Sound(snapshot[p])
    BY <1>1 DEF HistoryOK, TypeOK
  <2> QED
    BY <1>3, <1>7, <2>1 DEF WriteFile
<1>8. ASSUME ClearRing PROVE Log!LogClear
  <2>1. GetFaultHistory' = << >>
    BY <1>8 DEF ClearRing, GetFaultHistory
  <2> QED
    BY <1>8, <2>1 DEF ClearRing, Log!LogClear
<1>9. ASSUME RemoveFile PROVE Log!LogSave
  BY <1>3, <1>9, EmptyHistory, EmptySound DEF RemoveFile
<1>10. ASSUME Restart PROVE Log!LogRestart
  BY <1>1, <1>10, RestartHistory DEF Restart, Log!LogRestart
<1>11. ASSUME UNCHANGED vars
      PROVE  UNCHANGED <<GetFaultHistory, disk, clock>>
  BY <1>2, <1>11 DEF vars, historyVars
<1> QED
  BY <1>4, <1>5, <1>6, <1>7, <1>8, <1>9, <1>10, <1>11
  DEF Next, Poller, Log!LogNext

\* The ring buffer of poll_driver_alarm.go implements the bounded log: it drops
\* the oldest fault and no other, and reads back what the file held.
THEOREM RingImplementsLog == Spec => ImplementsLog
<1>1. Spec => []HistoryOK
  BY InitHistory, NextHistory, PTL DEF Spec
<1> QED
  BY <1>1, InitLog, NextLog, PTL DEF Spec, ImplementsLog, Log!LogSpec
=============================================================================
