------------------------------- MODULE JobPool -------------------------------
(***************************************************************************)
(* What the task scheduler promises about the jobs it accepts: an accepted *)
(* job waits, runs at most once, never with more than MaxJobs others, and  *)
(* is discarded only while it is still waiting.  Every accepted job is     *)
(* eventually run to its end or discarded.                                 *)
(***************************************************************************)
EXTENDS Naturals, FiniteSets

CONSTANTS Jobs, MaxJobs

VARIABLE state

States  == {"new", "waiting", "running", "finished", "discarded"}
Running == {j \in Jobs : state[j] = "running"}

Init == state = [j \in Jobs |-> "new"]

Move(j, from, to) ==
  /\ state[j] = from
  /\ state' = [state EXCEPT ![j] = to]

Submit(j)  == Move(j, "new", "waiting")
Discard(j) == Move(j, "waiting", "discarded")
Start(j)   == Cardinality(Running) < MaxJobs /\ Move(j, "waiting", "running")
Finish(j)  == Move(j, "running", "finished")

Next == \E j \in Jobs : Submit(j) \/ Discard(j) \/ Start(j) \/ Finish(j)

Spec == Init /\ [][Next]_state

FairSpec ==
  /\ Spec
  /\ \A j \in Jobs : SF_state(Start(j) \/ Discard(j)) /\ WF_state(Finish(j))
=============================================================================
