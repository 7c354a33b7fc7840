------------------------------ MODULE FaultLog ------------------------------
(***************************************************************************)
(* What the fault history of the motor driver promises, whatever keeps it: *)
(* a log of at most Capacity faults, oldest first, in which a fault equal  *)
(* to the newest one is not entered again, and a file from which it comes  *)
(* back after a restart.  FaultHistory implements it with a ring buffer.   *)
(***************************************************************************)
EXTENDS Integers, Sequences

CONSTANTS Capacity,     \* faultHistoryCapacity
          Entry         \* the entries that can be recorded

VARIABLES log,          \* the faults a reader of the history sees
          file,         \* the faults a restart brings back
          recorded      \* how many faults were recorded so far

----------------------------------------------------------------------------

\* The newest Capacity entries of a sequence with one entry more at most.
Newest(s) == IF Len(s) > Capacity THEN Tail(s) ELSE s

\* Two entries that the history takes for one fault.
SameFault(e, f) == e.dev = f.dev /\ e.code = f.code

LogInit == log = << >> /\ file = << >> /\ recorded = 0

LogRecord ==
  \E e \in Entry :
    /\ e.at = recorded
    /\ log # << >> => ~ SameFault(log[Len(log)], e)
    /\ log' = Newest(Append(log, e))
    /\ recorded' = recorded + 1
    /\ UNCHANGED file

LogClear == log' = << >> /\ UNCHANGED <<file, recorded>>

\* The file never holds more than the bound, and nothing that did not happen.
LogSave ==
  /\ file' \in UNION {[1 .. n -> Entry] : n \in 0 .. Capacity}
  /\ \A i \in DOMAIN file' : file'[i].at < recorded
  /\ UNCHANGED <<log, recorded>>

LogRestart == log' = file /\ UNCHANGED <<file, recorded>>

LogNext == LogRecord \/ LogClear \/ LogSave \/ LogRestart

LogSpec == LogInit /\ [][LogNext]_<<log, file, recorded>>
=============================================================================
