----------------------------- MODULE DockerRound -----------------------------
(***************************************************************************)
(* A round in a Docker container, through clients of the Docker daemon:    *)
(* its creation, the `docker logs -f` its stream is read from, the `docker *)
(* stop` of a cancel, and what is made of its end.                         *)
(*                                                                         *)
(* A client can fail after the daemon has done what it was asked, and its  *)
(* connection can drop.  What a client says for itself is left out, and so *)
(* is a request that is acted on after the removal that follows it.        *)
(***************************************************************************)
EXTENDS RoundBounds, Sequences, Functions

VARIABLES
  \* the container
  container,
  ending,      \* of one that has exited: "zero", "nonzero" or "oom"
  log,         \* the pipe each line of its log was printed on
  \* the daemon's DockerRound
  pc,
  stopping,    \* its `docker stop`: "none", "sent" or, at its end, "done"
  termination, \* what it came to: "none" yet, "exited" or "killed"
  code,        \* the same, before the container is removed
  passed,      \* the lines handed on, each by its number
  \* history and bounds
  cut,         \* whether its follow was cut off
  unwaited,    \* whether its `docker wait` failed
  restarts

engine == <<container, ending, log>>
vars == <<engine, pc, stopping, termination, code, passed, cut, unwaited, restarts>>

Pipes == {"out", "err"}
Launching == {"creating", "starting", "cleaning", "started"}
Collecting == {"following", "stopping", "waiting", "inspecting", "removing"}
Over == {"launchFailed", "lost", "over"}

-----------------------------------------------------------------------------
(* Slips to check the properties against; no definition below uses them.   *)

\* Ends with its container, whatever is still to come of the log.
EndsWithTheContainer ==
  /\ container # "running"
  /\ pc' = "stopping"
  /\ UNCHANGED <<passed, cut>>

\* Removes the container of a follow that has ended, without waiting for it.
RemovesAtOnce ==
  /\ pc = "stopping" /\ stopping # "sent"
  /\ code' = "killed" /\ pc' = "removing"
  /\ UNCHANGED unwaited

-----------------------------------------------------------------------------

InitAt(place) ==
  /\ container = "none" /\ ending = "zero" /\ log = <<>>
  /\ pc = place /\ stopping = "none" /\ termination = "none" /\ code = "none"
  /\ passed = <<>> /\ cut = FALSE /\ unwaited = FALSE /\ restarts = 0

Init == InitAt("creating")

-----------------------------------------------------------------------------
(* The Docker daemon.                                                      *)

Prints ==
  /\ container = "running" /\ Len(log) < MaxLines
  /\ \E pipe \in Pipes : log' = Append(log, pipe)
  /\ UNCHANGED <<container, ending>>

Exits ==
  /\ container = "running"
  /\ container' = "exited"
  /\ ending' \in {"zero", "nonzero", "oom"}
  /\ UNCHANGED <<log>>

\* By hand.
Pruned ==
  /\ container \in {"created", "exited"}
  /\ container' = "removed"
  /\ UNCHANGED <<ending, log>>

EngineStep ==
  /\ Prints \/ Exits \/ Pruned
  /\ UNCHANGED <<pc, stopping, termination, code, passed, cut, unwaited, restarts>>

\* `docker stop` is at its end when the container is, or fails before.
StopEnds ==
  /\ stopping = "sent"
  /\ stopping' = "done"
  /\ UNCHANGED <<engine, pc, termination, code, passed, cut, unwaited, restarts>>

-----------------------------------------------------------------------------
(* Launching and reattaching.                                              *)

\* `docker create`; its failure may be the client's.
Create ==
  /\ pc = "creating"
  /\ \/ container' = "created" /\ pc' = "starting"
     \/ container' \in {"none", "created"} /\ pc' = "cleaning"
  /\ UNCHANGED <<ending, log>>

\* The client is abandoned, and what it may have created removed.
CancelLaunch ==
  /\ pc = "creating"
  /\ container' \in {"none", "created"}
  /\ pc' = "cleaning"
  /\ UNCHANGED <<ending, log>>

Start ==
  /\ pc = "starting"
  /\ \/ container = "created" /\ container' = "running" /\ pc' = "started"
     \/ container' \in {container} \cup (IF container = "created" THEN {"running"} ELSE {})
        /\ pc' = "cleaning"
  /\ UNCHANGED <<ending, log>>

\* `docker rm -f`, which may fail, and nobody asks.
RemoveContainer ==
  /\ container' \in {container} \cup (IF container = "none" THEN {} ELSE {"removed"})
  /\ UNCHANGED <<ending, log>>

CleanUp ==
  /\ pc = "cleaning"
  /\ RemoveContainer
  /\ pc' = "launchFailed"

\* `docker logs -f`, always from the start of the log.
Follow ==
  /\ passed' = <<>> /\ cut' = FALSE
  /\ stopping' = "none" /\ unwaited' = FALSE /\ code' = "none"

\* Without a process for the client, the container is left as it is.
FollowStarted ==
  /\ pc = "started"
  /\ \/ pc' = "following" /\ Follow
     \/ pc' = "launchFailed" /\ UNCHANGED <<passed, cut, stopping, unwaited, code>>
  /\ UNCHANGED <<engine, termination, restarts>>

LaunchStep ==
  /\ Create \/ CancelLaunch \/ Start \/ CleanUp
  /\ UNCHANGED <<stopping, termination, code, passed, cut, unwaited, restarts>>

\* A `docker stop` goes on without the daemon that sent it.
Killed ==
  /\ pc \notin Over \cup {"down"} /\ restarts < MaxRestarts
  /\ restarts' = restarts + 1
  /\ pc' = IF pc \in Launching THEN "lost" ELSE "down"
  /\ UNCHANGED <<engine, stopping, termination, code, passed, cut, unwaited>>

Reattach ==
  /\ pc = "down"
  /\ \/ pc' = "following" /\ Follow
     \/ pc' = "lost" /\ UNCHANGED <<passed, cut, stopping, unwaited, code>>
  /\ UNCHANGED <<engine, termination, restarts>>

-----------------------------------------------------------------------------
(* The stream.                                                             *)

\* The lines that come next: the client has a pipe for each of the
\* container's, and ChildLines a task for each.
NextLines ==
  {n \in DOMAIN log \ Range(passed) :
     \A m \in 1 .. n - 1 : log[m] = log[n] => m \in Range(passed)}

PassLine ==
  /\ \E n \in NextLines : passed' = Append(passed, n)
  /\ UNCHANGED <<pc, cut>>

\* Its pipes close at the end of the container, once it has been read.
FollowEnds ==
  /\ container # "running" /\ NextLines = {}
  /\ pc' = "stopping"
  /\ UNCHANGED <<passed, cut>>

\* Or before, within a line or not, and that looks the same.
FollowDrops ==
  /\ pc' = "stopping" /\ cut' = TRUE
  /\ passed' \in {passed} \cup {Append(passed, n) : n \in NextLines}

NextLine ==
  /\ pc = "following"
  /\ PassLine \/ FollowEnds \/ FollowDrops
  /\ UNCHANGED <<engine, stopping, termination, code, unwaited, restarts>>

-----------------------------------------------------------------------------
(* Its end.                                                                *)

\* `docker stop` is started, if it can be; one of an earlier cancel is lost
\* sight of.
Cancel ==
  /\ pc = "following"
  /\ stopping' \in {"none", "sent"}
  /\ UNCHANGED <<engine, pc, termination, code, passed, cut, unwaited, restarts>>

\* termination waits for the `docker stop` ...
WaitForStop ==
  /\ pc = "stopping" /\ stopping # "sent"
  /\ pc' = "waiting"
  /\ UNCHANGED <<code, unwaited>>

\* ... and with `docker wait`, which returns at the container's end or fails.
DockerWait ==
  /\ pc = "waiting"
  /\ \/ /\ container = "exited"
        /\ code' = "exited"
        /\ pc' = IF ending = "zero" THEN "removing" ELSE "inspecting"
        /\ UNCHANGED unwaited
     \/ /\ code' = "killed" /\ unwaited' = TRUE
        /\ pc' = "removing"

\* was_oom_killed: not, if it cannot be told.
Inspect ==
  /\ pc = "inspecting"
  /\ code' \in IF ending = "oom" THEN {"exited", "killed"} ELSE {"exited"}
  /\ pc' = "removing"
  /\ UNCHANGED unwaited

TerminationStep ==
  /\ WaitForStop \/ DockerWait \/ Inspect
  /\ UNCHANGED <<engine, stopping, termination, passed, cut, restarts>>

Terminate ==
  /\ pc = "removing"
  /\ RemoveContainer
  /\ termination' = code
  /\ pc' = "over"
  /\ UNCHANGED <<stopping, code, passed, cut, unwaited, restarts>>

-----------------------------------------------------------------------------

Next ==
  \/ EngineStep \/ StopEnds
  \/ LaunchStep \/ FollowStarted \/ Killed \/ Reattach
  \/ NextLine \/ Cancel \/ TerminationStep \/ Terminate

Spec == Init /\ [][Next]_vars

\* Clients come to an end, with a result or without: of those that wait for
\* the container, at its end.
Fairness ==
  /\ WF_vars(LaunchStep) /\ WF_vars(FollowStarted) /\ WF_vars(Reattach)
  /\ WF_vars(container # "running" /\ NextLine)
  /\ WF_vars(StopEnds) /\ WF_vars(container # "running" /\ TerminationStep) /\ WF_vars(Terminate)
  /\ WF_vars(pc = "stopping" /\ TerminationStep)

-----------------------------------------------------------------------------

TypeOK ==
  /\ container \in {"none", "created", "running", "exited", "removed"}
  /\ ending \in {"zero", "nonzero", "oom"}
  /\ log \in Seq(Pipes) /\ Len(log) <= MaxLines
  /\ pc \in Launching \cup Collecting \cup Over \cup {"down"}
  /\ stopping \in {"none", "sent", "done"}
  /\ termination \in {"none", "exited", "killed"} /\ code \in {"none", "exited", "killed"}
  /\ passed \in Seq(1 .. MaxLines)
  /\ cut \in BOOLEAN /\ unwaited \in BOOLEAN /\ restarts \in 0 .. MaxRestarts

Stream == INSTANCE RoundStream WITH
  printed <- log,
  ended <- container \in {"exited", "removed"},
  told <- termination

\* A container that runs is removed only as its launch failed or was cancelled,
\* or as `docker wait` could not say how it ended: never for its follow to drop.
RunningContainersAreNotRemoved ==
  [][container = "running" /\ container' = "removed" => pc = "cleaning" \/ unwaited]_vars
=============================================================================
