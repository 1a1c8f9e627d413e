------------------------- MODULE SupervisedCommand -------------------------
(***************************************************************************)
(* A command that a round runs -- the agent, verify, a provision step --   *)
(* from its spawn to the round's next event: exec.rs.  Its processes end   *)
(* with it or are killed, and what they printed becomes frames.            *)
(*                                                                         *)
(* Two processes stand for any it starts: one that stays in its group, and *)
(* one that leaves for a session of its own.  That a group's id is given   *)
(* away once its leader is reaped is left out, and so is an output whose   *)
(* frames cannot be written.                                               *)
(***************************************************************************)
EXTENDS RoundBounds, Sequences, Functions

VARIABLES
  \* the command
  leader,
  left,       \* what it started: of "inside" and "outside" its group, those alive
  printed,    \* the pipe of each line they printed
  \* the round
  pc,
  outcome,    \* ShellOutcome, "none" yet
  forwarders, \* of each pipe: "forwarding", "aborting" or "done"
  frames,     \* what was framed: a line by its number, the round's next event as 0
  cancelled,
  \* history
  aborted     \* whether forwarding was given up

processes == <<leader, left, printed>>
vars == <<processes, pc, outcome, forwarders, frames, cancelled, aborted>>

Pipes == {"out", "err"}
Lives == leader = "running" \/ left # {}
Framed == Range(frames) \ {0}

-----------------------------------------------------------------------------
(* Slips to check the properties against; no definition below uses them.   *)

\* Kills the group of a command that is stopped, and of no other.
KillsTheStoppedOnly ==
  IF outcome = "exited" THEN UNCHANGED <<leader, left>>
  ELSE leader' = (IF leader = "running" THEN "exited" ELSE leader) /\ left' = left \ {"inside"}

\* Waits for the pipes to close for as long as it takes.
DrainsForEver == FALSE

\* Returns without what is still in the pipes.
ReturnsUndrained ==
  /\ pc = "draining"
  /\ pc' = "returned"
  /\ UNCHANGED <<forwarders, frames, aborted>>

-----------------------------------------------------------------------------

InitAt(place) ==
  /\ leader = "none" /\ left = {} /\ printed = <<>>
  /\ pc = place /\ outcome = "none"
  /\ forwarders = [pipe \in Pipes |-> "done"]
  /\ frames = <<>> /\ cancelled = FALSE /\ aborted = FALSE

Init == InitAt("spawning")

-----------------------------------------------------------------------------
(* The command and what it starts.                                         *)

Prints ==
  /\ Lives /\ Len(printed) < MaxLines
  /\ \E pipe \in Pipes : printed' = Append(printed, pipe)
  /\ UNCHANGED <<leader, left>>

Forks ==
  /\ leader = "running" \/ "inside" \in left
  /\ \E where \in {"inside", "outside"} : left' = left \cup {where}
  /\ UNCHANGED <<leader, printed>>

Exits ==
  /\ \/ leader = "running" /\ leader' = "exited" /\ UNCHANGED left
     \/ \E where \in left : left' = left \ {where} /\ UNCHANGED leader
  /\ UNCHANGED printed

CommandStep ==
  /\ Prints \/ Forks \/ Exits
  /\ UNCHANGED <<pc, outcome, forwarders, frames, cancelled, aborted>>

-----------------------------------------------------------------------------
(* supervise.                                                              *)

\* Or the spawn fails, and there is neither an outcome nor a command.
Spawn ==
  /\ pc = "spawning"
  /\ \/ /\ pc' = "waiting" /\ leader' = "running"
        /\ forwarders' = [pipe \in Pipes |-> "forwarding"]
     \/ pc' = "over" /\ UNCHANGED <<leader, forwarders>>
  /\ UNCHANGED <<left, printed, outcome, frames, cancelled, aborted>>

\* SIGKILL to the group; what has left it is not reached.
KillGroup ==
  /\ leader' = (IF leader = "running" THEN "exited" ELSE leader)
  /\ left' = left \ {"inside"}

SeesExit ==
  /\ pc = "waiting" /\ leader = "exited"
  /\ leader' = "reaped" /\ outcome' = "exited"
  /\ pc' = "ended"
  /\ UNCHANGED left

\* The deadline, or the token: whichever of the three select! finds.
Stops ==
  /\ pc = "waiting"
  /\ \/ outcome' = "timedOut"
     \/ cancelled /\ outcome' = "cancelled"
  /\ KillGroup
  /\ pc' = "stopping"

Reap ==
  /\ pc = "stopping" /\ leader = "exited"
  /\ leader' = "reaped"
  /\ pc' = "ended"
  /\ UNCHANGED <<left, outcome>>

\* Again, or for the first time, however it ended.
KillsWhatIsLeft ==
  /\ pc = "ended"
  /\ KillGroup
  /\ pc' = "draining"
  /\ UNCHANGED outcome

\* A line from its pipe to the frames; one forwarder to a pipe.
Forward(pipe) ==
  /\ forwarders[pipe] # "done"
  /\ \E n \in DOMAIN printed \ Framed :
       /\ printed[n] = pipe /\ \A m \in 1 .. n - 1 : printed[m] = pipe => m \in Framed
       /\ frames' = Append(frames, n)
  /\ UNCHANGED <<processes, pc, outcome, forwarders, cancelled, aborted>>

\* The pipe is closed with the last process that has it.
Close(pipe) ==
  /\ forwarders[pipe] = "forwarding"
  /\ ~ Lives /\ \A n \in DOMAIN printed : printed[n] = pipe => n \in Framed
  /\ forwarders' = [forwarders EXCEPT ![pipe] = "done"]
  /\ UNCHANGED <<processes, pc, outcome, frames, cancelled, aborted>>

\* An aborted forwarder ends where it waits next, and frames on until it does.
Aborts(pipe) ==
  /\ forwarders[pipe] = "aborting"
  /\ forwarders' = [forwarders EXCEPT ![pipe] = "done"]
  /\ UNCHANGED <<processes, pc, outcome, frames, cancelled, aborted>>

Drained ==
  /\ pc = "draining"
  /\ \A pipe \in Pipes : forwarders[pipe] = "done"
  /\ pc' = "returned"
  /\ UNCHANGED <<forwarders, frames, aborted>>

\* OUTPUT_DRAIN_GRACE may be over whatever still holds the pipes.
GraceEnds == pc = "draining"

DrainGraceOver ==
  /\ GraceEnds
  /\ forwarders' = [pipe \in Pipes |-> IF forwarders[pipe] = "done" THEN "done" ELSE "aborting"]
  /\ aborted' = TRUE
  /\ pc' = "returned"
  /\ UNCHANGED frames

NextEvent ==
  /\ pc = "returned"
  /\ frames' = Append(frames, 0)
  /\ pc' = "over"
  /\ UNCHANGED <<forwarders, aborted>>

CancelFires ==
  /\ pc # "over" /\ ~ cancelled
  /\ cancelled' = TRUE
  /\ UNCHANGED <<processes, pc, outcome, forwarders, frames, aborted>>

ProcessStep ==
  /\ SeesExit \/ Stops \/ Reap \/ KillsWhatIsLeft
  /\ UNCHANGED <<printed, forwarders, frames, cancelled, aborted>>

DrainStep ==
  /\ Drained \/ DrainGraceOver \/ NextEvent
  /\ UNCHANGED <<processes, outcome, cancelled>>

ForwardStep == \E pipe \in Pipes : Forward(pipe) \/ Close(pipe) \/ Aborts(pipe)

Next == CommandStep \/ Spawn \/ ProcessStep \/ DrainStep \/ ForwardStep \/ CancelFires

Spec == Init /\ [][Next]_vars

\* The round's tasks are scheduled, and time passes for a grace that is begun;
\* a deadline there may not be, and a command need not end.
Fairness ==
  /\ WF_vars(Spawn)
  /\ WF_vars((pc # "waiting" \/ leader = "exited" \/ cancelled) /\ ProcessStep)
  /\ WF_vars(DrainStep) /\ WF_vars(ForwardStep)

-----------------------------------------------------------------------------

TypeOK ==
  /\ leader \in {"none", "running", "exited", "reaped"}
  /\ left \subseteq {"inside", "outside"}
  /\ printed \in Seq(Pipes) /\ Len(printed) <= MaxLines
  /\ pc \in {"spawning", "waiting", "stopping", "ended", "draining", "returned", "over"}
  /\ outcome \in {"none", "exited", "timedOut", "cancelled"}
  /\ forwarders \in [Pipes -> {"forwarding", "aborting", "done"}]
  /\ frames \in Seq(0 .. MaxLines)
  /\ cancelled \in BOOLEAN /\ aborted \in BOOLEAN

\* "The group is killed however the command ends": once a command is drained
\* nothing of it runs in a checkout that is about to be judged or deleted, but
\* what has left its session.
NothingIsLeftRunning ==
  pc \in {"draining", "returned", "over"} => leader \in {"none", "reaped"} /\ "inside" \notin left

\* "Every line the command printed is framed before the round's next event",
\* each once and in the order of its pipe, unless forwarding was given up.
OutputPrecedesTheEvent ==
  /\ \A i, k \in DOMAIN frames :
       i < k /\ frames[i] # 0 /\ frames[k] # 0 =>
         frames[i] # frames[k] /\ (printed[frames[i]] = printed[frames[k]] => frames[i] < frames[k])
  /\ \A k \in DOMAIN frames :
       frames[k] = 0 /\ ~ aborted => DOMAIN printed \subseteq {frames[i] : i \in 1 .. k - 1}

CommandIsToEnd == pc = "waiting" /\ (cancelled \/ leader = "exited")
=============================================================================
