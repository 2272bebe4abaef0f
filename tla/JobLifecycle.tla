---------------------------- MODULE JobLifecycle ----------------------------
(***************************************************************************)
(* What the Dispatcher promises about each job, with no word about         *)
(* dispatchers, sessions or errors: a job submitted to Piazza is claimed   *)
(* once, and is then launched once or dropped; a launched job finishes; no *)
(* job ever goes back, and at most Capacity jobs run at a time.            *)
(***************************************************************************)
EXTENDS Naturals, FiniteSets

CONSTANTS Jobs,      \* the jobs
          Capacity   \* the most jobs that run at a time

VARIABLE state       \* how far each job has come

States == {"absent", "waiting", "claimed", "launched", "finished", "dropped"}

Launched == {j \in Jobs : state[j] = "launched"}

Init == state = [j \in Jobs |-> "absent"]

Become(j, from, to) ==
    /\ state[j] \in from
    /\ state' = [state EXCEPT ![j] = to]

Submit(j) == Become(j, {"absent"}, "waiting")
Claim(j)  == Become(j, {"waiting"}, "claimed")
Drop(j)   == Become(j, {"waiting", "claimed"}, "dropped")
Finish(j) == Become(j, {"launched"}, "finished")

Launch(j) ==
    /\ Cardinality(Launched) < Capacity
    /\ Become(j, {"claimed"}, "launched")

Next == \E j \in Jobs : Submit(j) \/ Claim(j) \/ Drop(j) \/ Launch(j) \/ Finish(j)

Spec == Init /\ [][Next]_state

=============================================================================
