---------------------------- MODULE FaultHistory ----------------------------
(***************************************************************************)
(* The fault history of motordriver/poll_driver_alarm.go: a ring buffer of *)
(* the last Capacity faults, filled by one polling goroutine per drive,    *)
(* saved to disk after every new fault, emptied by the REST interface and  *)
(* loaded when the process starts.  faultHistoryMu guards the ring; the    *)
(* file is written outside of it, so that taking the snapshot and the two  *)
(* halves of os.WriteFile (truncate, write) are steps of their own.        *)
(***************************************************************************)
EXTENDS Integers, Sequences

CONSTANTS Devices,      \* the drives
          Pollers,      \* pollDriveErrWorker goroutines
          DeviceOf,     \* the drive each of them polls
          Codes,        \* the error codes a drive can report
          Capacity,     \* faultHistoryCapacity
          MaxFaults,    \* bound: the number of faults that are recorded
          Blank         \* the zero FaultEntry of an unused slot

ASSUME PollersAssumption == DeviceOf \in [Pollers -> Devices]
ASSUME CapacityAssumption == Capacity \in Nat \ {0}
ASSUME MaxFaultsAssumption == MaxFaults \in Nat

VARIABLES
  ring,         \* faultRing
  head,         \* faultRingHead, the next slot to write
  count,        \* faultRingCount, the number of valid slots
  clock,        \* the Time the next entry gets
  disk,         \* the entries the file holds; << >> when absent or truncated
  saver,        \* what persistFaultHistory does for each poller
  snapshot,     \* the entries it is about to write
  clearing      \* ClearFaultHistory emptied the ring, the file is still there

historyVars == <<ring, head, count>>
vars == <<ring, head, count, clock, disk, saver, snapshot, clearing>>

Entry == [dev : Devices, code : Codes, at : 0 .. MaxFaults]
ASSUME BlankAssumption == Blank \notin Entry

Slots == 0 .. Capacity - 1
Histories == UNION {[1 .. n -> Entry] : n \in 0 .. Capacity}

\* TypeOK: the ring, its head and count, the file and every write under way are
\* what poll_driver_alarm.go can hold.
TypeOK ==
  /\ ring \in [Slots -> Entry \cup {Blank}]
  /\ head \in Slots
  /\ count \in 0 .. Capacity
  /\ clock \in 0 .. MaxFaults
  /\ disk \in Histories
  /\ saver \in [Pollers -> {"idle", "due", "truncate", "write"}]
  /\ snapshot \in [Pollers -> Histories]
  /\ clearing \in BOOLEAN

----------------------------------------------------------------------------

\* Slip: read backwards from head.
NewestFirst ==
  [i \in 1 .. count |-> ring[(head - i + Capacity) % Capacity]]

\* The entries in chronological order.
GetFaultHistory ==
  LET start == (head - count + Capacity) % Capacity
  IN  [i \in 1 .. count |-> ring[(start + i - 1) % Capacity]]

\* Slip: the slot to be written is compared.
RepeatsHead(d, c) ==
  /\ count > 0
  /\ LET prev == ring[head] IN prev # Blank /\ prev.dev = d /\ prev.code = c

\* The slot before head holds this very fault: RecordFault ignores it.
Repeats(d, c) ==
  /\ count > 0
  /\ LET prev == ring[(head - 1 + Capacity) % Capacity]
     IN  prev.dev = d /\ prev.code = c

Init ==
  /\ ring = [s \in Slots |-> Blank]
  /\ head = 0
  /\ count = 0
  /\ clock = 0
  /\ disk = << >>
  /\ saver = [p \in Pollers |-> "idle"]
  /\ snapshot = [p \in Pollers |-> << >>]
  /\ clearing = FALSE

\* Slips: head runs off the end, the count wraps with it.
EnterUnwrapped(d, c) ==
  /\ ring' = [ring EXCEPT ![head] = [dev |-> d, code |-> c, at |-> clock]]
  /\ head' = head + 1
  /\ count' = IF count < Capacity THEN count + 1 ELSE count

EnterWrapped(d, c) ==
  /\ ring' = [ring EXCEPT ![head] = [dev |-> d, code |-> c, at |-> clock]]
  /\ head' = (head + 1) % Capacity
  /\ count' = (count + 1) % (Capacity + 1)

\* The part of RecordFault under faultHistoryMu: error c of drive d is entered.
Enter(d, c) ==
  /\ ring' = [ring EXCEPT ![head] = [dev |-> d, code |-> c, at |-> clock]]
  /\ head' = (head + 1) % Capacity
  /\ count' = IF count < Capacity THEN count + 1 ELSE count

\* A poller is inside RecordFault until persistFaultHistory returns, hence
\* the guard on saver.
RecordFault(p, c) ==
  /\ saver[p] = "idle"
  /\ clock < MaxFaults
  /\ ~ Repeats(DeviceOf[p], c)
  /\ Enter(DeviceOf[p], c)
  /\ clock' = clock + 1
  /\ saver' = [saver EXCEPT ![p] = "due"]
  /\ UNCHANGED <<disk, snapshot, clearing>>

\* persistFaultHistory, line by line: GetFaultHistory under the read lock ...
TakeSnapshot(p) ==
  /\ saver[p] = "due"
  /\ snapshot' = [snapshot EXCEPT ![p] = GetFaultHistory]
  /\ saver' = [saver EXCEPT ![p] = "truncate"]
  /\ UNCHANGED <<historyVars, clock, disk, clearing>>

\* ... then os.WriteFile without a lock: the file is truncated,
TruncateFile(p) ==
  /\ saver[p] = "truncate"
  /\ disk' = << >>
  /\ saver' = [saver EXCEPT ![p] = "write"]
  /\ UNCHANGED <<historyVars, clock, snapshot, clearing>>

\* and written.
WriteFile(p) ==
  /\ saver[p] = "write"
  /\ disk' = snapshot[p]
  /\ saver' = [saver EXCEPT ![p] = "idle"]
  /\ snapshot' = [snapshot EXCEPT ![p] = << >>]
  /\ UNCHANGED <<historyVars, clock, clearing>>

\* Slip: head is not reset.
ClearCountOnly ==
  /\ ~ clearing
  /\ count' = 0
  /\ clearing' = TRUE
  /\ UNCHANGED <<ring, head, clock, disk, saver, snapshot>>

\* ClearFaultHistory empties the ring under the lock; the slots keep their
\* entries, only head and count are zeroed.
ClearRing ==
  /\ ~ clearing
  /\ head' = 0
  /\ count' = 0
  /\ clearing' = TRUE
  /\ UNCHANGED <<ring, clock, disk, saver, snapshot>>

\* It removes the file after it gave the lock back.
RemoveFile ==
  /\ clearing
  /\ disk' = << >>
  /\ clearing' = FALSE
  /\ UNCHANGED <<historyVars, clock, saver, snapshot>>

\* The process dies anywhere and LoadFaultHistory reads what the file holds.
\* The entries beyond Capacity are cut off, which the file never needs.
Restart ==
  /\ ring' = [s \in Slots |-> IF s < Len(disk) THEN disk[s + 1] ELSE Blank]
  /\ count' = Len(disk)
  /\ head' = Len(disk) % Capacity
  /\ saver' = [p \in Pollers |-> "idle"]
  /\ snapshot' = [p \in Pollers |-> << >>]
  /\ clearing' = FALSE
  /\ UNCHANGED <<clock, disk>>

Poller(p) ==
  \/ \E c \in Codes : RecordFault(p, c)
  \/ TakeSnapshot(p)
  \/ TruncateFile(p)
  \/ WriteFile(p)

Next ==
  \/ \E p \in Pollers : Poller(p)
  \/ ClearRing
  \/ RemoveFile
  \/ Restart

Spec == Init /\ [][Next]_vars

----------------------------------------------------------------------------

(* RingShape: head and count agree on where the valid slots are.  The ring  *)
(* grows from slot 0 until it is full, only then does head run ahead, and   *)
(* every slot a reader would visit holds an entry, also after a clear or    *)
(* after a restart from a shorter file.                                     *)
RingShape ==
  /\ count < Capacity => head = count
  /\ \A s \in Slots : s < count => ring[s] # Blank

(* Chronological: "all recorded faults in chronological order (oldest      *)
(* first)", poll_driver_alarm.go:182, for memory, file and every pending    *)
(* write.                                                                   *)
Increasing(h) == \A i, j \in DOMAIN h : i < j => h[i].at < h[j].at
Chronological ==
  /\ Increasing(GetFaultHistory)
  /\ Increasing(disk)
  /\ \A p \in Pollers : Increasing(snapshot[p])

(* NoRepeats: a drive that sits in a fault does not fill the history, "Con- *)
(* secutive identical (device + errorCode) entries are deduplicated": this  *)
(* holds across wrap-around, clears and restarts.                           *)
NoRepeatsIn(h) ==
  \A i \in DOMAIN h : i + 1 \in DOMAIN h =>
     ~ (h[i].dev = h[i + 1].dev /\ h[i].code = h[i + 1].code)
NoRepeats == NoRepeatsIn(GetFaultHistory) /\ NoRepeatsIn(disk)

(* ImplementsLog: the ring, read with GetFaultHistory, is the bounded log   *)
(* of FaultLog: recording drops the oldest entry and no other, and a        *)
(* restart reads back what the file held, in its order.                     *)
Log == INSTANCE FaultLog WITH log <- GetFaultHistory, file <- disk,
                              recorded <- clock
ImplementsLog == Log!LogSpec
=============================================================================
