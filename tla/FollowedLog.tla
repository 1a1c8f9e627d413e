---------------------------- MODULE FollowedLog ----------------------------
(***************************************************************************)
(* A round as a Kubernetes Job, from its creation to its deletion: its pod, *)
(* the log of that followed through `kubectl` connections that drop, and    *)
(* the daemons that launch it and reattach to it.                           *)
(*                                                                         *)
(* A line of the log is its timestamp; its text is the round's.  A         *)
(* connection starts at a second and instants are finer, so it repeats     *)
(* lines, and nothing but their timestamps says which.                     *)
(***************************************************************************)
EXTENDS RoundBounds, Sequences, FiniteSets

CONSTANTS
  PerSecond,         \* instants to a second
  ReconnectsAllowed, \* FRUITLESS_RECONNECTS_ALLOWED
  MaxInstant         \* bound: the timestamps of lines

ASSUME FollowedLogAssumption ==
  PerSecond \in Nat \ {0} /\ ReconnectsAllowed \in Nat /\ MaxInstant \in Nat

VARIABLES
  \* the cluster
  objects,     \* of "Job" and "Secret", what exists
  pod,
  ending,      \* of a finished pod: "exit", or another "reason"
  log,         \* the timestamps of its lines
  \* the daemon's KubernetesRound
  pc,
  position,    \* LogReadPosition
  fruitless_reconnects,
  abandoned,   \* whether it is stream_abandoned_because of something
  cancelled,   \* whether it was cancelled
  termination, \* what it came to: "none" yet, "exited" or "killed"
  \* the connection, and what was made of it
  shown,       \* lines of the log it is past
  handed,      \* the lines handed on, each by its number
  \* history and bounds
  brought,     \* whether this connection has brought a new line
  barren,      \* connections in a row that dropped at once and brought none
  missed,      \* whether a line was cut off, or the last drain
  restarts

cluster == <<objects, pod, ending, log>>
reading == <<position, fruitless_reconnects, abandoned, shown, handed, brought, barren, missed>>
vars == <<cluster, reading, pc, cancelled, termination, restarts>>

Instant == 1 .. MaxInstant
Position == [stamp : 0 .. MaxInstant, lines : 0 .. MaxLines, shown_at_that_stamp : 0 .. MaxLines]

\* Nothing read: an instant before all.
NothingRead == [stamp |-> 0, lines |-> 0, shown_at_that_stamp |-> 0]

Launching == {"creatingJob", "creatingSecret", "waiting"}
Collecting == {"following", "cut", "dropped", "draining", "ended"}
Over == {"launchFailed", "lost", "over"}

-----------------------------------------------------------------------------
(* LogReadPosition.                                                        *)

\* A slip for Resumed: goes on counting where the last connection stopped.
KeepsCounting(p) == p

Resumed(p) == [p EXCEPT !.shown_at_that_stamp = 0]

AfterLine(p, stamp) ==
  LET nth == p.shown_at_that_stamp + 1
  IN  CASE stamp < p.stamp -> [position |-> p, unread |-> FALSE]
        [] stamp = p.stamp ->
             [position |-> [stamp |-> stamp, lines |-> IF nth > p.lines THEN nth ELSE p.lines,
                            shown_at_that_stamp |-> nth],
              unread |-> nth > p.lines]
        [] stamp > p.stamp ->
             [position |-> [stamp |-> stamp, lines |-> 1, shown_at_that_stamp |-> 1],
              unread |-> TRUE]

Second(instant) == instant \div PerSecond

\* `--since-time`: all lines from the second of that instant on.
PastLinesBefore(p) == Cardinality({i \in DOMAIN log : Second(log[i]) < Second(p.stamp)})

-----------------------------------------------------------------------------
(* Slips to check the properties against; no definition below uses them.   *)

\* Takes the end of the pod for the end of its log.
EndsWithThePod ==
  /\ pod = "finished"
  /\ pc' = "ended"
  /\ UNCHANGED <<fruitless_reconnects, abandoned, shown, brought, missed>>

\* Counts every reconnect since the first.
CountsAllReconnects(unread) == fruitless_reconnects

\* Takes a connection that dropped for the end of the round.
TakesADropForTheEnd ==
  /\ pod # "finished"
  /\ pc' = "ended"
  /\ UNCHANGED <<fruitless_reconnects, abandoned, shown, brought, missed>>

\* Reconnects once more than is allowed.
ReconnectsOnceMore ==
  /\ pod = "running" /\ fruitless_reconnects <= ReconnectsAllowed
  /\ fruitless_reconnects' = fruitless_reconnects + 1
  /\ shown' = PastLinesBefore(position) /\ brought' = FALSE
  /\ pc' = "following"
  /\ UNCHANGED <<abandoned, missed>>

\* Follows a pod that has come to its end again.
FollowsTheEnded ==
  /\ pod = "finished"
  /\ shown' = PastLinesBefore(position) /\ brought' = FALSE
  /\ pc' = "following"
  /\ UNCHANGED <<fruitless_reconnects, abandoned, missed>>

-----------------------------------------------------------------------------

InitAt(place) ==
  /\ objects = {} /\ pod = "none" /\ ending = "exit" /\ log = <<>>
  /\ pc = place /\ position = NothingRead /\ fruitless_reconnects = 0
  /\ abandoned = FALSE /\ cancelled = FALSE /\ termination = "none"
  /\ shown = 0 /\ handed = <<>>
  /\ brought = FALSE /\ barren = 0 /\ missed = FALSE /\ restarts = 0

Init == InitAt("creatingJob")

-----------------------------------------------------------------------------
(* The cluster.                                                            *)

PodCreated ==
  /\ pod = "none" /\ "Job" \in objects
  /\ pod' = "waiting"
  /\ UNCHANGED <<objects, ending, log>>

\* Its environment is the Secret.
PodStarts ==
  /\ pod = "waiting" /\ "Secret" \in objects
  /\ pod' = "running"
  /\ UNCHANGED <<objects, ending, log>>

\* The kubelet stamps lines in their order.
PodPrints ==
  /\ pod = "running" /\ Len(log) < MaxLines
  /\ \E stamp \in Instant :
       /\ \A i \in DOMAIN log : log[i] <= stamp
       /\ log' = Append(log, stamp)
  /\ UNCHANGED <<objects, pod, ending>>

\* By itself; or past the Job's deadline, evicted, out of memory.
PodFinishes ==
  /\ pod \in {"waiting", "running"}
  /\ pod' = "finished"
  /\ ending' \in IF pod = "running" THEN {"exit", "reason"} ELSE {"reason"}
  /\ UNCHANGED <<objects, log>>

PodDeleted ==
  /\ pod \in {"waiting", "running", "finished"}
  /\ pod' = "gone"
  /\ UNCHANGED <<objects, ending, log>>

\* The Job's time to live after it has finished; the Secret has an owner.
Expires ==
  \/ pod = "finished" /\ "Job" \in objects /\ objects' = objects \ {"Job"}
     /\ UNCHANGED <<pod, ending, log>>
  \/ objects = {"Secret"} /\ objects' = {} /\ UNCHANGED <<pod, ending, log>>

ClusterStep ==
  /\ PodCreated \/ PodStarts \/ PodPrints \/ PodFinishes \/ PodDeleted \/ Expires
  /\ UNCHANGED <<reading, pc, cancelled, termination, restarts>>

-----------------------------------------------------------------------------
(* The daemon: launching and reattaching.                                  *)

\* delete_job_and_secret: each may fail, and nobody asks.
DeleteJobAndSecret ==
  /\ objects' \in SUBSET objects
  /\ UNCHANGED <<pod, ending, log>>

\* A creation that fails may have been made.
Create(object, next) ==
  \/ objects' = objects \cup {object} /\ pc' = next
  \/ objects' \in {objects, objects \cup {object}} /\ pc' = "cleaning"

LaunchCreates ==
  /\ \/ pc = "creatingJob" /\ Create("Job", "creatingSecret")
     \/ pc = "creatingSecret" /\ Create("Secret", "waiting")
  /\ UNCHANGED <<pod, ending, log, reading, cancelled, termination, restarts>>

\* The log from a position, on a connection of its own.
Connect(p) ==
  /\ shown' = PastLinesBefore(p)
  /\ position' = Resumed(p)
  /\ brought' = FALSE

\* From the beginning: the collector drops what it already has.
StartFollowing ==
  /\ Connect(NothingRead)
  /\ pc' = "following"
  /\ handed' = <<>> /\ fruitless_reconnects' = 0 /\ abandoned' = FALSE
  /\ barren' = 0 /\ missed' = FALSE

PodHasStarted ==
  /\ pc \in {"waiting", "waitingAgain"} /\ pod \in {"running", "finished"}
  /\ StartFollowing
  /\ UNCHANGED <<cluster, cancelled, termination, restarts>>

\* The scheduling deadline, a status that cannot be read, no `kubectl`.
PodNeverStarts ==
  /\ pc \in {"waiting", "waitingAgain"}
  /\ pc' = IF pc = "waiting" THEN "cleaning" ELSE "lost"
  /\ UNCHANGED <<cluster, reading, cancelled, termination, restarts>>

CancelLaunch ==
  /\ pc = "waiting"
  /\ cancelled' = TRUE
  /\ pc' = "cleaning"
  /\ UNCHANGED <<cluster, reading, termination, restarts>>

CleanUp ==
  /\ pc = "cleaning"
  /\ DeleteJobAndSecret
  /\ pc' = "launchFailed"
  /\ UNCHANGED <<reading, cancelled, termination, restarts>>

\* The handle is on record once a launch is done, and gone without.
Killed ==
  /\ pc \notin Over \cup {"down"} /\ restarts < MaxRestarts
  /\ restarts' = restarts + 1
  /\ pc' = IF pc \in Launching \cup {"cleaning"} THEN "lost" ELSE "down"
  /\ cancelled' = FALSE
  /\ UNCHANGED <<cluster, reading, termination>>

\* A round that cannot be reattached is nobody's.
Reattach ==
  /\ pc = "down"
  /\ \/ pod \in {"running", "finished"} /\ StartFollowing
     \/ pod = "waiting" /\ pc' = "waitingAgain" /\ UNCHANGED reading
     \/ pc' = "lost" /\ UNCHANGED reading
  /\ UNCHANGED <<cluster, cancelled, termination, restarts>>

-----------------------------------------------------------------------------
(* next_line.                                                              *)

FruitlessAfter(unread) == IF unread THEN 0 ELSE fruitless_reconnects

\* text_unless_replayed, of the next line of the log.
TakeLine ==
  LET after == AfterLine(position, log[shown + 1])
  IN  /\ shown < Len(log)
      /\ shown' = shown + 1
      /\ position' = after.position
      /\ handed' = IF after.unread THEN Append(handed, shown + 1) ELSE handed
      /\ fruitless_reconnects' = FruitlessAfter(after.unread)
      /\ brought' = (brought \/ after.unread)

ReadLine ==
  /\ pc \in {"following", "draining"}
  /\ TakeLine
  /\ UNCHANGED <<cluster, pc, abandoned, barren, missed, cancelled, termination, restarts>>

\* A connection may drop within a line: what there is of it is a line.  (Cut
\* within its timestamp it is none of the round's, and comes again.)
CutLine ==
  /\ pc \in {"following", "draining"}
  /\ TakeLine
  /\ pc' = IF pc = "following" THEN "cut" ELSE "ended"
  /\ missed' = (missed \/ handed' # handed \/ pc = "draining")
  /\ UNCHANGED <<cluster, abandoned, barren, cancelled, termination, restarts>>

\* It ends with its pod, or drops at any time, after it has held for
\* LIVE_CONNECTION or before.
FollowEnds ==
  /\ pc \in {"following", "cut"}
  /\ pc' = "dropped"
  /\ \E held \in BOOLEAN :
       /\ fruitless_reconnects' = IF held THEN 0 ELSE fruitless_reconnects
       /\ barren' = IF held \/ brought THEN 0
                    ELSE IF barren < ReconnectsAllowed THEN barren + 1 ELSE barren
  /\ UNCHANGED <<cluster, position, abandoned, shown, handed, brought, missed, cancelled,
                 termination, restarts>>

Abandon ==
  /\ abandoned' = TRUE
  /\ pc' = "ended"
  /\ UNCHANGED <<fruitless_reconnects, shown, brought, missed>>

\* stream_after_follow_ended.
Reconnect ==
  /\ pod = "running" /\ fruitless_reconnects < ReconnectsAllowed
  /\ fruitless_reconnects' = fruitless_reconnects + 1
  /\ shown' = PastLinesBefore(position) /\ brought' = FALSE
  /\ pc' = "following"
  /\ UNCHANGED <<abandoned, missed>>

GiveUpReconnecting ==
  /\ pod = "running" /\ fruitless_reconnects >= ReconnectsAllowed
  /\ Abandon

Drain ==
  /\ pod = "finished"
  /\ shown' = PastLinesBefore(position)
  /\ \/ pc' = "draining" /\ UNCHANGED missed
     \/ pc' = "ended" /\ missed' = TRUE
  /\ UNCHANGED <<fruitless_reconnects, abandoned, brought>>

NothingToRead ==
  /\ pod \in {"waiting", "gone"}
  /\ pc' = "ended"
  /\ UNCHANGED <<fruitless_reconnects, abandoned, shown, brought, missed>>

AfterFollow ==
  /\ pc = "dropped"
  /\ Reconnect \/ GiveUpReconnecting \/ Drain \/ NothingToRead \/ Abandon
  /\ position' = Resumed(position)
  /\ UNCHANGED <<cluster, handed, barren, cancelled, termination, restarts>>

\* There is no second drain.
DrainEnds ==
  /\ pc = "draining"
  /\ pc' = "ended"
  /\ missed' = (missed \/ shown < Len(log))
  /\ UNCHANGED <<cluster, position, fruitless_reconnects, abandoned, shown, handed, brought,
                 barren, cancelled, termination, restarts>>

\* By its token, or as a log cannot be written; the collector goes on reading.
Cancel ==
  /\ pc \in Collecting \ {"ended"}
  /\ cancelled' = TRUE
  /\ DeleteJobAndSecret
  /\ UNCHANGED <<reading, pc, termination, restarts>>

\* The pod is asked for once more; then the deletion, whatever it said.
Terminate ==
  /\ pc = "ended"
  /\ \/ ~ abandoned /\ pod = "finished" /\ ending = "exit" /\ termination' = "exited"
     \/ termination' = "killed"
  /\ DeleteJobAndSecret
  /\ pc' = "over"
  /\ UNCHANGED <<reading, cancelled, restarts>>

-----------------------------------------------------------------------------

LaunchStep ==
  LaunchCreates \/ PodHasStarted \/ PodNeverStarts \/ CancelLaunch \/ CleanUp \/ Reattach

ReadStep == ReadLine \/ CutLine \/ FollowEnds \/ AfterFollow \/ DrainEnds \/ Cancel \/ Terminate

Next == ClusterStep \/ LaunchStep \/ Killed \/ ReadStep

Spec == Init /\ [][Next]_vars

\* A follow ends with its pod; a pod without a Job does; and the daemon's own
\* steps are taken, those of `kubectl` with a result or without.
Fairness ==
  /\ WF_vars(LaunchStep) /\ WF_vars(ReadLine)
  /\ WF_vars(pod # "running" /\ FollowEnds) /\ WF_vars(pc = "cut" /\ FollowEnds)
  /\ WF_vars(AfterFollow) /\ WF_vars(DrainEnds) /\ WF_vars(Terminate)
  /\ WF_vars("Job" \notin objects /\ PodDeleted /\ ClusterStep)

-----------------------------------------------------------------------------

TypeOK ==
  /\ objects \subseteq {"Job", "Secret"}
  /\ pod \in {"none", "waiting", "running", "finished", "gone"} /\ ending \in {"exit", "reason"}
  /\ log \in Seq(Instant) /\ Len(log) <= MaxLines
  /\ pc \in Launching \cup Collecting \cup Over \cup {"cleaning", "down", "waitingAgain"}
  /\ position \in Position /\ fruitless_reconnects \in 0 .. ReconnectsAllowed
  /\ abandoned \in BOOLEAN /\ cancelled \in BOOLEAN
  /\ termination \in {"none", "exited", "killed"}
  /\ shown \in 0 .. Len(log) /\ handed \in Seq(1 .. MaxLines)
  /\ brought \in BOOLEAN /\ barren \in 0 .. ReconnectsAllowed /\ missed \in BOOLEAN
  /\ restarts \in 0 .. MaxRestarts

\* "Tells those from lines that are new": each line is handed on once, in its
\* place, and none before what a connection is at is left out -- lines of one
\* instant, of one second, any number of connections that drop anywhere.
LinesAreReadOnce ==
  /\ \A i \in DOMAIN handed : handed[i] = i
  /\ pc \in Collecting => shown <= Len(handed)

\* "Loses nothing: a last drain reads what it missed": what the runner passes
\* on is the stream that every runner promises.
Stream == INSTANCE RoundStream WITH
  printed <- [i \in DOMAIN log |-> "out"],
  ended <- pod \in {"finished", "gone"},
  passed <- handed,
  cut <- missed,
  told <- termination

\* A pod is not given up on for being quiet: only after as many connections in
\* a row as are allowed have dropped at once and brought nothing.
QuietPodsAreFollowed ==
  [][AfterFollow /\ GiveUpReconnecting => barren >= ReconnectsAllowed]_vars

\* A Job whose pod runs is deleted only when its launch failed, when it was
\* cancelled, or when its stream was abandoned: the reconnects used up, the
\* pod's status unreadable, no `kubectl` to be spawned.  A connection that
\* drops is none of these, nor taken for the end of the pod.
LivePodsAreNotDeleted ==
  [][pod = "running" /\ "Job" \in objects \ objects' =>
       pc = "cleaning" \/ cancelled' \/ abandoned]_vars
=============================================================================
