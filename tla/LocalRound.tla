----------------------------- MODULE LocalRound -----------------------------
(***************************************************************************)
(* A round as a process of this machine: its frames file, the tail that    *)
(* reads it while it is written, and the daemons that launch the process   *)
(* and find it again by its pid, which the system may have given away.     *)
(*                                                                         *)
(* The file grows by halves of lines; a line's newline is in its second.   *)
(* Asking whose the pid is and signalling it is one step.                  *)
(***************************************************************************)
EXTENDS RoundBounds, Sequences

VARIABLES
  \* the machine
  pid,         \* whose the round's pid is
  frames,      \* the halves of lines in its frames file
  \* the daemon's LocalRound
  pc,
  ours,        \* its child: "none", "child" or, waited for, "reaped"
  writer_alive,
  at,          \* the halves its reader is past
  partial,     \* those of them that are not handed on
  handed,      \* the lines handed on, each the halves it consists of
  cancels,     \* times this daemon has cancelled it
  termination, \* what it came to: "none" yet, "exited" or "killed"
  \* history and bounds
  unread,      \* whether a read that failed ended the stream
  signalled,   \* who was sent a SIGTERM
  restarts

machine == <<pid, frames>>
tail    == <<writer_alive, at, partial, handed, unread>>
ends    == <<cancels, termination, signalled>>
vars    == <<machine, tail, pc, ours, ends, restarts>>

\* There is none yet; it is of the round, running, or exited and not waited for;
\* of nobody; of another process, which leads a session of its own or does not.
Holders == {"none", "round", "exited", "nobody", "ordinary", "leader"}
Reading == {"asking", "reading"}
Over == {"launchFailed", "lost", "over"}

-----------------------------------------------------------------------------
(* Slips to check the properties against; no definition below uses them.   *)

\* Takes the end of the process for the end of its file.
EndsWithTheProcess ==
  /\ pc = "asking"
  /\ pc' = IF pid = "round" THEN "reading" ELSE "ended"
  /\ writer_alive' = (pid = "round")
  /\ UNCHANGED <<machine, ours, at, partial, handed, unread, ends, restarts>>

\* A tail that keeps what it has of a line in the future that reads it.
TailForgets ==
  /\ pc' = "asking"
  /\ partial' = <<>>
  /\ UNCHANGED <<writer_alive, at, handed, unread>>

\* Signals the pid it once launched, whose ever it is.
SignalsThePid == TRUE

\* Takes a pid in use for a round that runs.
AnyProcessRuns == pid \notin {"exited", "nobody"}

-----------------------------------------------------------------------------

InitAt(place) ==
  /\ pid = "none" /\ frames = 0
  /\ pc = place /\ ours = "none" /\ writer_alive = FALSE
  /\ at = 0 /\ partial = <<>> /\ handed = <<>> /\ cancels = 0 /\ termination = "none"
  /\ unread = FALSE /\ signalled = {} /\ restarts = 0

Init == InitAt("launching")

-----------------------------------------------------------------------------
(* The machine.                                                            *)

Writes ==
  /\ pid = "round" /\ frames < 2 * MaxLines
  /\ frames' = frames + 1
  /\ UNCHANGED pid

\* By itself or killed; an orphan is waited for by the system.
Exits ==
  /\ pid = "round"
  /\ pid' = IF ours = "child" THEN "exited" ELSE "nobody"
  /\ UNCHANGED frames

PidReused ==
  /\ pid = "nobody"
  /\ pid' \in {"ordinary", "leader"}
  /\ UNCHANGED frames

StrangerExits ==
  /\ pid \in {"ordinary", "leader"}
  /\ pid' = "nobody"
  /\ UNCHANGED frames

MachineStep ==
  /\ Writes \/ Exits \/ PidReused \/ StrangerExits
  /\ UNCHANGED <<tail, pc, ours, ends, restarts>>

-----------------------------------------------------------------------------
(* Launching and reattaching.                                              *)

OpenTail ==
  /\ at' = 0 /\ partial' = <<>> /\ handed' = <<>> /\ unread' = FALSE
  /\ pc' = "asking"
  /\ UNCHANGED writer_alive

\* spawn_run.
Launch ==
  /\ pc = "launching"
  /\ \/ pid' = "round" /\ ours' = "child" /\ OpenTail
     \/ pc' = "launchFailed" /\ UNCHANGED <<pid, ours, tail>>
  /\ UNCHANGED <<frames, ends, restarts>>

Killed ==
  /\ pc \in Reading \cup {"ended"} /\ restarts < MaxRestarts
  /\ restarts' = restarts + 1
  /\ pc' = "down"
  /\ ours' = "none"
  /\ cancels' = 0
  /\ pid' = IF pid = "exited" THEN "nobody" ELSE pid
  /\ UNCHANGED <<frames, tail, termination, signalled>>

\* The file may be unreadable, or the handle another runner's.
Reattach ==
  /\ pc = "down"
  /\ \/ OpenTail
     \/ pc' = "lost" /\ UNCHANGED tail
  /\ UNCHANGED <<machine, ours, ends, restarts>>

-----------------------------------------------------------------------------
(* The tail.                                                               *)

LeadsItsOwnSession == pid \in {"round", "leader"}

\* still_running; a child that has exited is waited for by asking.
StillRunning == IF ours = "none" THEN LeadsItsOwnSession ELSE pid = "round" /\ ours = "child"

AskIfWriting ==
  /\ pc = "asking"
  /\ writer_alive' = StillRunning
  /\ IF ours = "child" /\ pid = "exited"
     THEN ours' = "reaped" /\ pid' = "nobody"
     ELSE UNCHANGED <<ours, pid>>
  /\ pc' = "reading"
  /\ UNCHANGED <<frames, at, partial, handed, unread, ends, restarts>>

\* The end of the line the reader is in.
LineEnd == 2 * (at \div 2) + 2

ReadLine ==
  /\ LineEnd <= frames
  /\ handed' = Append(handed, partial \o [i \in 1 .. LineEnd - at |-> at + i])
  /\ at' = LineEnd /\ partial' = <<>>
  /\ pc' = "asking"
  /\ UNCHANGED unread

ReadPart ==
  /\ at < frames /\ frames < LineEnd
  /\ partial' = Append(partial, frames)
  /\ at' = frames
  /\ pc' = "asking"
  /\ UNCHANGED <<handed, unread>>

WaitForMore ==
  /\ writer_alive
  /\ pc' = "asking"
  /\ UNCHANGED <<at, partial, handed, unread>>

\* The last line may have no newline.
Drained ==
  /\ ~ writer_alive
  /\ IF partial # <<>>
     THEN handed' = Append(handed, partial) /\ partial' = <<>> /\ pc' = "asking"
     ELSE pc' = "ended" /\ UNCHANGED <<handed, partial>>
  /\ UNCHANGED at

ReadNothing ==
  /\ at = frames
  /\ WaitForMore \/ (Drained /\ UNCHANGED unread)

ReadFails == WaitForMore \/ (Drained /\ unread' = TRUE)

\* read_until, and what next_line makes of its result.
Read ==
  /\ pc = "reading"
  /\ ReadLine \/ ReadPart \/ ReadNothing \/ ReadFails
  /\ UNCHANGED <<machine, writer_alive, ours, ends, restarts>>

\* A cancel drops the future that reads; the tail keeps what it has.
TailKeeps ==
  /\ pc' = "asking"
  /\ UNCHANGED <<writer_alive, at, partial, handed, unread>>

-----------------------------------------------------------------------------
(* Its end.                                                                *)

StillOurs == IF ours = "none" THEN LeadsItsOwnSession ELSE ours = "child"

\* By its token once, and once as a log cannot be written.
Cancel ==
  /\ pc \in Reading /\ cancels < 2
  /\ cancels' = cancels + 1
  /\ signalled' = IF StillOurs THEN signalled \cup {pid} ELSE signalled
  /\ TailKeeps
  /\ UNCHANGED <<machine, ours, termination, restarts>>

\* An exit status is its parent's to learn.
Terminate ==
  /\ pc = "ended"
  /\ termination' = IF ours = "none" THEN "killed" ELSE "exited"
  /\ pc' = "over"
  /\ UNCHANGED <<machine, tail, ours, cancels, signalled, restarts>>

-----------------------------------------------------------------------------

DaemonStep == Launch \/ Reattach \/ AskIfWriting \/ Read \/ Terminate

Next == MachineStep \/ DaemonStep \/ Cancel \/ Killed

Spec == Init /\ [][Next]_vars

\* The daemon's own steps are taken; a round that is told to stop does.
Fairness == WF_vars(DaemonStep) /\ WF_vars("round" \in signalled /\ Exits /\ MachineStep)

-----------------------------------------------------------------------------

TypeOK ==
  /\ pid \in Holders /\ frames \in 0 .. 2 * MaxLines
  /\ pc \in Reading \cup Over \cup {"launching", "ended", "down"}
  /\ ours \in {"none", "child", "reaped"} /\ writer_alive \in BOOLEAN
  /\ at \in 0 .. frames /\ partial \in Seq(1 .. frames)
  /\ handed \in Seq(Seq(1 .. frames))
  /\ cancels \in 0 .. 2 /\ termination \in {"none", "exited", "killed"}
  /\ unread \in BOOLEAN /\ signalled \subseteq Holders
  /\ restarts \in 0 .. MaxRestarts

RoundIsOver == pid \notin {"none", "round"}

\* The line of the file that those halves are: both, or the first, if the file
\* ends there or a read failed there.  Any others are none.
LineOf(halves) ==
  LET n == (halves[1] + 1) \div 2
  IN  IF \/ halves = <<2 * n - 1, 2 * n>>
         \/ halves = <<2 * n - 1>> /\ (frames = 2 * n - 1 \/ unread)
      THEN n ELSE 0

\* A line is printed once it is begun.
Stream == INSTANCE RoundStream WITH
  printed <- [i \in 1 .. (frames + 1) \div 2 |-> "out"],
  ended <- RoundIsOver,
  passed <- [i \in DOMAIN handed |-> LineOf(handed[i])],
  cut <- unread,
  told <- termination

\* Cancelling signals the round and nobody else, however its pid was reused:
\* a process that has it now is signalled only if it leads a session, and the
\* round is one that an earlier daemon launched.
SignalsReachOnlyTheRound ==
  [][\A holder \in signalled' \ signalled :
       holder \in {"round", "exited"} \/ (holder = "leader" /\ ours = "none")]_vars
=============================================================================
