----------------------------- MODULE MC_Program -----------------------------
(***************************************************************************)
(* Programs of two to five lines for the runs of ProgramControl.           *)
(***************************************************************************)
EXTENDS ProgramControl, TLC

Cmd(op) == [op |-> op, n |-> 0, child |-> "none"]
CmdN(op, n) == [op |-> op, n |-> n, child |-> "none"]
CmdWith(op, child) == [op |-> op, n |-> 0, child |-> child]

\* Loops, a division, and both ways to end; lines that are never reached.
LoopPrograms ==
  "table" :> <<CmdN("loop", 2), Cmd("move"), Cmd("endloop"), Cmd("end"),
               Cmd("move")>>
  @@ "twice" :> <<Cmd("rel"), CmdN("divide", 1), CmdN("divide", 2)>>
  @@ "again" :> <<Cmd("move"), Cmd("restart")>>

\* No loops: what a stop and a resume must keep.
StopPrograms == "moves" :> <<Cmd("move"), Cmd("move")>>

\* Commands behind others on a line, and a program that fails its trial.
MixedPrograms ==
  "mixed" :> <<CmdWith("linear", "feed"), CmdWith("offset", "move")>>
  @@ "wrong" :> <<Cmd("path"), CmdN("divide", 2)>>

MovePrograms == "pair" :> <<Cmd("abs"), Cmd("move"), Cmd("move")>>

\* The programs of every run are of the kind the proofs are about.
ASSUME ProgramsStructured == \A f \in Files : Structured(Program[f])
=============================================================================
