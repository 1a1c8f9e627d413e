---------------------------- MODULE JobLifecycle ----------------------------
(***************************************************************************)
(* What a job promises to whoever reads its log: it is asked for, started, *)
(* launched and judged, round after round.  No daemon, queue or runner is  *)
(* visible here; JobDaemon implements this specification.                  *)
(***************************************************************************)
EXTENDS Naturals

CONSTANT Jobs

VARIABLE job  \* [Jobs -> [state, rounds, handle]], as the log's fold says

Put(j, state, rounds, handle) ==
  job' = [job EXCEPT ![j] = [state |-> state, rounds |-> rounds, handle |-> handle]]

Init == job = [j \in Jobs |-> [state |-> "Pending", rounds |-> 0, handle |-> 0]]

\* A first request, or a revise of a job that has its verdict.
Ask(j) ==
  /\ job[j].state \in {"Pending", "Passed", "Failed"}
  /\ Put(j, "Queued", job[j].rounds, 0)

\* The round asked for starts: the job's next, under no handle yet.
Start(j) ==
  /\ job[j].state = "Queued"
  /\ Put(j, "Running", job[j].rounds + 1, 0)

\* It is on its runner, once, to be found by its own handle.
Launch(j) ==
  /\ job[j].state = "Running"
  /\ job[j].handle = 0
  /\ Put(j, "Running", job[j].rounds, job[j].rounds)

\* Only a launched round can pass.
Pass(j) ==
  /\ job[j].state = "Running"
  /\ job[j].handle = job[j].rounds
  /\ Put(j, "Passed", job[j].rounds, job[j].handle)

\* Cancelled in line, given up, lost, or judged to have failed.
Fail(j) ==
  /\ job[j].state \in {"Queued", "Running"}
  /\ Put(j, "Failed", job[j].rounds, job[j].handle)

Next == \E j \in Jobs : Ask(j) \/ Start(j) \/ Launch(j) \/ Pass(j) \/ Fail(j)

Spec == Init /\ [][Next]_job
=============================================================================
