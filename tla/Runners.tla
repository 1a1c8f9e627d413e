------------------------------ MODULE Runners ------------------------------
(***************************************************************************)
(* What runs outside of the program: a round on one of the three runners,  *)
(* behind one trait, or a command of a round, which its `run` supervises.  *)
(* A step is one of it; the others have nothing.  Whoever collects a round *)
(* sees only what RoundStream says, and each runner is shown to keep that. *)
(***************************************************************************)
EXTENDS FollowedLog

VARIABLES
  \* LocalRound
  pid, frames, local_pc, ours, writer_alive, at, partial, local_handed, cancels,
  local_termination, unread, signalled, local_restarts,
  \* DockerRound
  container, docker_ending, docker_log, docker_pc, stopping, docker_termination, code,
  passed, cut, unwaited, docker_restarts,
  \* SupervisedCommand
  leader, left, printed, command_pc, outcome, forwarders, command_frames,
  command_cancelled, aborted

local_vars ==
  <<pid, frames, local_pc, ours, writer_alive, at, partial, local_handed, cancels,
    local_termination, unread, signalled, local_restarts>>
docker_vars ==
  <<container, docker_ending, docker_log, docker_pc, stopping, docker_termination, code,
    passed, cut, unwaited, docker_restarts>>
command_vars ==
  <<leader, left, printed, command_pc, outcome, forwarders, command_frames,
    command_cancelled, aborted>>

L == INSTANCE LocalRound WITH
  pc <- local_pc, handed <- local_handed, termination <- local_termination,
  restarts <- local_restarts

D == INSTANCE DockerRound WITH
  ending <- docker_ending, log <- docker_log, pc <- docker_pc,
  termination <- docker_termination, restarts <- docker_restarts

C == INSTANCE SupervisedCommand WITH
  pc <- command_pc, frames <- command_frames, cancelled <- command_cancelled

InitOn(runner) ==
  /\ InitAt(IF runner = "k8s" THEN "creatingJob" ELSE "over")
  /\ L!InitAt(IF runner = "local" THEN "launching" ELSE "over")
  /\ D!InitAt(IF runner = "docker" THEN "creating" ELSE "over")
  /\ C!InitAt(IF runner = "none" THEN "spawning" ELSE "over")

RunnersInit == \E runner \in {"local", "docker", "k8s", "none"} : InitOn(runner)

RunnersNext ==
  \/ L!Next /\ UNCHANGED <<docker_vars, command_vars, vars>>
  \/ D!Next /\ UNCHANGED <<local_vars, command_vars, vars>>
  \/ Next /\ UNCHANGED <<local_vars, docker_vars, command_vars>>
  \/ C!Next /\ UNCHANGED <<local_vars, docker_vars, vars>>

RunnersSpec == RunnersInit /\ [][RunnersNext]_<<vars, local_vars, docker_vars, command_vars>>

\* Each part's own; the others have nothing to do.
RunnersFairSpec == RunnersSpec /\ Fairness /\ L!Fairness /\ D!Fairness /\ C!Fairness

-----------------------------------------------------------------------------

RunnersTypeOK == TypeOK /\ L!TypeOK /\ D!TypeOK /\ C!TypeOK

\* What a runner passes on is the round's stream, whole and each line once, in
\* whatever order files grow, connections drop, daemons restart; and no round
\* is said to have exited that has not, or of which something is left to read.
StreamsAreTheRounds == L!Stream!Spec /\ D!Stream!Spec /\ Stream!Spec

\* A round that runs is ended only for cause: it was cancelled, its launch
\* failed, or what watched it failed -- `docker wait`; a status that cannot be
\* read, a `kubectl` that cannot be spawned, the last reconnect without a line.
\* A connection that drops is not that, nor a pod that is quiet.  And no other
\* process is.
RoundsAreEndedForCause ==
  /\ QuietPodsAreFollowed /\ LivePodsAreNotDeleted
  /\ D!RunningContainersAreNotRemoved
  /\ L!SignalsReachOnlyTheRound

\* Nothing of a command outlives it in its group, and what it printed is framed
\* before what the round says of it.
CommandsAreSupervised == C!NothingIsLeftRunning /\ C!OutputPrecedesTheEvent

RoundHasEnded ==
  \/ pod \in {"finished", "gone"} \/ (cancelled /\ "Job" \notin objects)
  \/ L!RoundIsOver \/ "round" \in signalled
  \/ container \in {"exited", "removed"}

RoundIsCollected ==
  pc \in Over /\ (local_pc \in L!Over \/ pid = "leader") /\ docker_pc \in D!Over

\* A round that has ended, or was told to, is over for its daemon too, or for
\* the next; unless the pid of a local one leads another session.  And so is a
\* command for its round, also if what it started holds its pipes for good.
EndsAreSeen ==
  RoundHasEnded \/ C!CommandIsToEnd ~> RoundIsCollected /\ command_pc = "over"
=============================================================================
