----------------------------- MODULE MC_Alarms -----------------------------
(***************************************************************************)
(* The instance of Alarms for TLC; the drives are alike.                   *)
(***************************************************************************)
EXTENDS Alarms, TLC

Budget(errors, panels, complaints, executes, resets) ==
  [k \in Kinds |-> CASE k = "error" -> errors [] k = "panel" -> panels
                     [] k = "complaint" -> complaints
                     [] k = "execute" -> executes [] k = "reset" -> resets]

\* What can meet: errors with executes and resets, panels with any of these, and
\* two panels with each other.
Few ==
  {Budget(2, 0, 0, 1, 0), Budget(2, 0, 0, 0, 1), Budget(1, 0, 0, 1, 1),
   Budget(1, 0, 0, 0, 2), Budget(1, 0, 0, 2, 0), Budget(1, 1, 0, 1, 0),
   Budget(0, 1, 1, 1, 1), Budget(0, 2, 1, 0, 0)}

Symmetry ==
  Permutations(Drives) \cup Permutations(Clients) \cup Permutations(Gens)
    \cup Permutations(Runs)

\* What a panel shows decides nothing, nor what a poller that is no more
\* remembered.
AllButShows ==
  <<drive, [p \in Pollers |-> IF poller[p] = "off" /\ p[2] # cur THEN Clear
                              ELSE last[p]],
    poller, cur, watching, pdo, cached, hasCode, going, mail, link, held,
    listed, torn, inputs, running, stopped, complaining, resetting, left,
    fresh, skipped, disturbed, alarmed, wiped, late>>
=============================================================================
