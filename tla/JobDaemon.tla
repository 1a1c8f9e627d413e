------------------------------ MODULE JobDaemon ------------------------------
(***************************************************************************)
(* The daemon's scheduler: submits, the queue and its cap, the cancel      *)
(* table, one task per round, shutdown, crash and resume.                  *)
(*                                                                         *)
(* A job's log is represented by its fold, `report` (module JobReport):    *)
(* nothing in the daemon reads a log in any other way, and every append is *)
(* one step of that fold.  The round itself runs outside the daemon -- a   *)
(* process, a container, a Kubernetes Job -- and outlives it: `world`.     *)
(*                                                                         *)
(* Threads interleave at every await and at every lock: the daemon is a    *)
(* multi-threaded tokio program, so two consecutive appends of one task    *)
(* are two steps.                                                          *)
(***************************************************************************)
EXTENDS Integers, FiniteSets, Sequences, JobReport

CONSTANTS
  Jobs,         \* the jobs under the root, each an id that has been claimed
  Repos,        \* the repositories they belong to
  RepoOf,       \* [Jobs -> Repos]
  NoJob,        \* no job in hand
  MaxJobs,      \* the cap on rounds running at once: Daemon.max_jobs
  MaxRequests,  \* bound: requests accepted in a behaviour
  MaxStarts,    \* bound: times a daemon is started on the root
  MaxUnclean    \* bound: crashes and grace periods that ran out

ASSUME JobsAssumption    == IsFiniteSet(Jobs) /\ NoJob \notin Jobs
ASSUME RepoAssumption    == RepoOf \in [Jobs -> Repos]
ASSUME MaxJobsAssumption == MaxJobs \in Nat \ {0}
ASSUME BoundsAssumption  ==
  MaxRequests \in Nat /\ MaxStarts \in Nat /\ MaxUnclean \in Nat

\* A round starts at most once per request.
Rounds == 1 .. MaxRequests

VARIABLES
  \* what is on disk, and the rounds on the runner: both survive the daemon
  report,      \* [Jobs -> Reports]: the fold of each job's log
  world,       \* [Jobs -> [Rounds -> WorldState]]
  \* the daemon process
  phase,       \* where serve() is
  owed,        \* what resume_jobs_under_root read of each job and has to do
  pending,     \* the channel of places in line
  inHand,      \* the job the dispatcher took from it, or NoJob
  dispatcher,  \* where dispatch_until_stopped is
  entry,       \* the cancel table: the round entered for a job, 0 for none
  pc,          \* where the task of a round is
  token,       \* whether that round's cancel token has fired
  running,     \* JobQueue.running
  launching,   \* JobQueue.launching
  exiting,     \* tasks past their table entry that still hold their slot
  submit,      \* where a submit for the job is
  repoLock,    \* who holds the repository's lock
  \* history and bounds
  unanswered,  \* requests recorded in each job's log, less its verdicts
  reattached,  \* rounds this daemon reattached to when it started
  clock,       \* requests recorded so far: the time of the next one
  starts,      \* daemons started so far
  unclean      \* of those, how many ended by a crash or past a grace period

logVars    == <<report, unanswered, clock>>
serveVars  == <<phase, owed, reattached, starts, unclean>>
queueVars  == <<pending, inHand, dispatcher>>
tableVars  == <<entry, token>>
tallyVars  == <<running, launching, exiting>>
submitVars == <<submit, repoLock>>
vars == <<logVars, world, serveVars, queueVars, tableVars, pc, tallyVars, submitVars>>

-----------------------------------------------------------------------------
(* The states of each part.                                                *)

\* A round on its runner.  "passing" and "failing": its stream holds the
\* verdict and `run` still delivers and cleans up; "passed", "failed": over
\* since; "died": over, with no verdict in its stream.
WorldState == {"absent", "working", "passing", "failing", "passed", "failed", "died"}
Over == {"passed", "failed", "died"}
EndOf(w) == IF w = "passing" THEN "passed" ELSE IF w = "failing" THEN "failed" ELSE "died"
StreamHolds(verdict) ==
  IF verdict = "Passed" THEN {"passing", "passed"} ELSE {"failing", "failed"}

\* A task that has no handle recorded yet is counted in `launching`.
LaunchingPc == {"waiting", "reading", "ready", "refusing", "launching"}
\* "awaiting", "awaitingStop": the stream has ended without a verdict, before
\* the round was told to stop or after; nothing but its end is waited for.
\* "judged": the verdict is in the log and the stream, or the round, goes on.
\* "leaving": the round's future has returned, its locals are not dropped yet.
TaskPc == LaunchingPc \cup {"none", "reattaching", "collecting", "cancelling", "awaiting",
                           "awaitingStop", "judged", "leaving"}

Phase      == {"down", "resuming", "serving", "stopping"}
Dispatcher == {"off", "receiving", "awaitingSlot", "slotFree", "returned"}
SubmitPc   == {"idle", "preflight", "recorded"}

Nobody == <<"nobody">>
BySubmit(j)   == <<"submit", j>>
ByRound(j, r) == <<"round", j, r>>
Holders == {Nobody} \cup {BySubmit(j) : j \in Jobs}
                    \cup {ByRound(j, r) : j \in Jobs, r \in Rounds}

Owed == [owes : {"Requeue", "Reattach", "LostWhileLaunching", "Nothing"},
         round : 0 .. MaxRequests]
OwedNothing == [owes |-> "Nothing", round |-> 0]

LoggedReports == [state : JobState, rounds : 0 .. MaxRequests,
                  launched : 0 .. MaxRequests, requested_at : 0 .. MaxRequests]

LogTyped    == /\ report \in [Jobs -> LoggedReports]
               /\ unanswered \in [Jobs -> Int]
               /\ clock \in 0 .. MaxRequests
WorldTyped  == world \in [Jobs -> [Rounds -> WorldState]]
ServeTyped  == /\ phase \in Phase
               /\ owed \in [Jobs -> Owed]
               /\ reattached \in Nat
               /\ starts \in 0 .. MaxStarts
               /\ unclean \in 0 .. MaxUnclean
QueueTyped  == /\ pending \in Seq(Jobs)
               /\ inHand \in Jobs \cup {NoJob}
               /\ dispatcher \in Dispatcher
TableTyped  == /\ entry \in [Jobs -> 0 .. MaxRequests]
               /\ token \in [Jobs -> [Rounds -> BOOLEAN]]
TaskTyped   == pc \in [Jobs -> [Rounds -> TaskPc]]
TallyTyped  == running \in Int /\ launching \in Int /\ exiting \in Nat
SubmitTyped == /\ submit \in [Jobs -> SubmitPc]
               /\ repoLock \in [Repos -> Holders]

\* Every part of the state is of its type.
TypeOK ==
  /\ LogTyped /\ WorldTyped /\ ServeTyped /\ QueueTyped
  /\ TableTyped /\ TaskTyped /\ TallyTyped /\ SubmitTyped

-----------------------------------------------------------------------------
(* Helpers.                                                                *)

Up == phase # "down"
Stopping == phase = "stopping"
\* A stop takes no new connection, but a request already in flight -- one that
\* stalled past REQUEST_GRACE_PERIOD included -- is still answered.
Answering == phase \in {"serving", "stopping"}

Log(j, after) == report' = [report EXCEPT ![j] = after]
LogVerdict(j, after) ==
  /\ Log(j, after)
  /\ unanswered' = [unanswered EXCEPT ![j] = @ - 1]
  /\ UNCHANGED clock

Move(j, r, to) == pc' = [pc EXCEPT ![j][r] = to]

Free(j) == repoLock[RepoOf[j]] = Nobody
Hold(j, who) == repoLock' = [repoLock EXCEPT ![RepoOf[j]] = who]
\* Dropping the guard, or the future that holds it.
Release(j, who) ==
  repoLock' = [repoLock EXCEPT ![RepoOf[j]] = IF @ = who THEN Nobody ELSE @]

-----------------------------------------------------------------------------
(* Slips to check the properties against; no action below uses them.       *)

\* One round too many under the cap.
SlotIsFreeAtTheCap == running <= MaxJobs

\* Stops without waiting for the launches in progress.
SettledAtOnce == TRUE

\* Clears a job's table entry whichever round it is of.
DropsAnyEntry(j, r) == 0

\* Requeues in the order the directories were read in.
InAnyOrder(S) ==
  {line \in [1 .. Cardinality(S) -> S] :
     \A i, k \in 1 .. Cardinality(S) : i < k => line[i] # line[k]}

\* Closes a job in line without looking for a task about to start it.
CancelsQueuedUnseen(j) ==
  /\ Answering
  /\ report[j].state = "Queued"
  /\ LogVerdict(j, AfterRoundFailed(report[j]))
  /\ UNCHANGED <<world, serveVars, queueVars, tableVars, pc, tallyVars, submitVars>>

\* Returns on the config's error with the launch still counted.
KeepsLaunchCounted(j, r) ==
  /\ pc[j][r] = "refusing"
  /\ LogVerdict(j, AfterRoundFailed(report[j]))
  /\ Move(j, r, "leaving")
  /\ UNCHANGED <<world, serveVars, queueVars, tableVars, tallyVars, submitVars>>

\* Collects the launched round under a token of its own.
CollectsWithNewToken(j, r) ==
  /\ pc[j][r] = "launching"
  /\ world[j][r] # "absent"
  /\ Log(j, AfterRoundLaunched(report[j], r))
  /\ token' = [token EXCEPT ![j][r] = FALSE]
  /\ launching' = launching - 1
  /\ Move(j, r, "collecting")
  /\ UNCHANGED <<unanswered, clock, world, serveVars, queueVars, entry, running, exiting,
                 submitVars>>

\* Sees the stop only between jobs, not while it waits for a slot.
StopsBetweenJobsOnly ==
  /\ dispatcher = "receiving"
  /\ Stopping
  /\ dispatcher' = "returned"
  /\ UNCHANGED <<logVars, world, serveVars, pending, inHand, tableVars, pc, tallyVars,
                 submitVars>>

\* A refused submit keeps the repository's lock.
RefusedKeepsLock(j) ==
  /\ submit[j] = "preflight"
  /\ submit' = [submit EXCEPT ![j] = "idle"]
  /\ UNCHANGED <<logVars, world, serveVars, queueVars, tableVars, pc, tallyVars, repoLock>>

-----------------------------------------------------------------------------

SlotIsFree == running < MaxJobs

\* LAUNCH_CLEANUP_GRACE need not run out.
LaunchesSettled == launching = 0

\* Registration's drop spares the entry of a later round.
EntryAfterDrop(j, r) == IF entry[j] = r THEN 0 ELSE entry[j]

\* The jobs of S, earliest request first.  The sort is stable over the order
\* the directories were read in, which is any: equal times come in any order.
InRequestOrder(S) ==
  {line \in [1 .. Cardinality(S) -> S] :
     \A i, k \in 1 .. Cardinality(S) :
       i < k => /\ line[i] # line[k]
                /\ report[line[i]].requested_at <= report[line[k]].requested_at}

Init ==
  /\ report = [j \in Jobs |-> EmptyReport]
  /\ world = [j \in Jobs |-> [r \in Rounds |-> "absent"]]
  /\ phase = "down"
  /\ owed = [j \in Jobs |-> OwedNothing]
  /\ pending = <<>>
  /\ inHand = NoJob
  /\ dispatcher = "off"
  /\ entry = [j \in Jobs |-> 0]
  /\ pc = [j \in Jobs |-> [r \in Rounds |-> "none"]]
  /\ token = [j \in Jobs |-> [r \in Rounds |-> FALSE]]
  /\ running = 0 /\ launching = 0 /\ exiting = 0
  /\ submit = [j \in Jobs |-> "idle"]
  /\ repoLock = [k \in Repos |-> Nobody]
  /\ unanswered = [j \in Jobs |-> 0]
  /\ reattached = 0
  /\ clock = 0
  /\ starts = 0
  /\ unclean = 0

-----------------------------------------------------------------------------
(* Starting: serve() up to the socket.                                     *)

\* hold_root: the lock on the root is let go of by a daemon that ends, and by
\* the kernel for one that is killed.
RootIsFree == phase = "down"

\* A daemon takes the root and reads every log under it.
StartDaemon ==
  /\ RootIsFree
  /\ starts < MaxStarts
  /\ starts' = starts + 1
  /\ phase' = "resuming"
  /\ owed' = [j \in Jobs |-> ResumptionFor(report[j])]
  /\ UNCHANGED <<logVars, world, reattached, unclean, queueVars, tableVars, pc,
                 tallyVars, submitVars>>

\* spawn_reattached: whatever the cap says, entered and counted.
ResumeReattach(j, r) ==
  /\ phase = "resuming"
  /\ owed[j] = [owes |-> "Reattach", round |-> r]
  /\ owed' = [owed EXCEPT ![j] = OwedNothing]
  /\ entry' = [entry EXCEPT ![j] = r]
  /\ token' = [token EXCEPT ![j][r] = FALSE]
  /\ Move(j, r, "reattaching")
  /\ running' = running + 1
  /\ reattached' = reattached + 1
  /\ UNCHANGED <<logVars, world, phase, starts, unclean, queueVars, launching,
                 exiting, submitVars>>

ResumeLost(j) ==
  /\ phase = "resuming"
  /\ owed[j].owes = "LostWhileLaunching"
  /\ owed' = [owed EXCEPT ![j] = OwedNothing]
  /\ LogVerdict(j, AfterRoundFailed(report[j]))
  /\ UNCHANGED <<world, phase, reattached, starts, unclean, queueVars, tableVars,
                 pc, tallyVars, submitVars>>

\* Requeue what waits, bind the socket, spawn the dispatcher.
RequeueAndServe ==
  /\ phase = "resuming"
  /\ \A j \in Jobs : owed[j].owes \in {"Nothing", "Requeue"}
  /\ \E line \in InRequestOrder({j \in Jobs : owed[j].owes = "Requeue"}) : pending' = line
  /\ owed' = [j \in Jobs |-> OwedNothing]
  /\ phase' = "serving"
  /\ dispatcher' = "receiving"
  /\ UNCHANGED <<logVars, world, reattached, starts, unclean, inHand, tableVars,
                 pc, tallyVars, submitVars>>

-----------------------------------------------------------------------------
(* Requests: submit and cancel.                                            *)

\* accept() has the repository's lock; a revise has passed its check that the
\* job is idle.  What follows -- git against the remote -- takes any time.
SubmitPreflight(j) ==
  /\ Answering
  /\ submit[j] = "idle"
  /\ clock < MaxRequests
  /\ Free(j)
  /\ MayBeAskedFor(report[j])
  /\ submit' = [submit EXCEPT ![j] = "preflight"]
  /\ Hold(j, BySubmit(j))
  /\ UNCHANGED <<logVars, world, serveVars, queueVars, tableVars, pc, tallyVars>>

\* The branch is gone, the base cannot be pinned, the config cannot run, the
\* claim fails -- or the client hung up and the request was dropped.
SubmitRefused(j) ==
  /\ submit[j] = "preflight"
  /\ submit' = [submit EXCEPT ![j] = "idle"]
  /\ Release(j, BySubmit(j))
  /\ UNCHANGED <<logVars, world, serveVars, queueVars, tableVars, pc, tallyVars>>

SubmitRecord(j) ==
  /\ submit[j] = "preflight"
  /\ clock < MaxRequests
  /\ submit' = [submit EXCEPT ![j] = "recorded"]
  /\ clock' = clock + 1
  /\ Log(j, AfterRoundRequested(report[j], clock + 1))
  /\ unanswered' = [unanswered EXCEPT ![j] = @ + 1]
  /\ UNCHANGED <<world, serveVars, queueVars, tableVars, pc, tallyVars, repoLock>>

\* The send fails, and is ignored, once the dispatcher has returned.
SubmitEnqueue(j) ==
  /\ submit[j] = "recorded"
  /\ submit' = [submit EXCEPT ![j] = "idle"]
  /\ pending' = IF dispatcher = "returned" THEN pending ELSE Append(pending, j)
  /\ Release(j, BySubmit(j))
  /\ UNCHANGED <<logVars, world, serveVars, inHand, dispatcher, tableVars, pc,
                 tallyVars>>

\* The awaited round's token fires: reply "running".  The task acts on it.
CancelLaunched(j, r) ==
  /\ Answering
  /\ entry[j] = r
  /\ IsAwaitedBy(r, report[j])
  /\ token' = [token EXCEPT ![j][r] = TRUE]
  /\ UNCHANGED <<logVars, world, serveVars, queueVars, entry, pc, tallyVars,
                 submitVars>>

\* Still in line: closed at once.  Its place in line stays.
CancelQueued(j) ==
  /\ Answering
  /\ ~ IsAwaitedBy(entry[j], report[j])
  /\ report[j].state = "Queued"
  /\ LogVerdict(j, AfterRoundFailed(report[j]))
  /\ UNCHANGED <<world, serveVars, queueVars, tableVars, pc, tallyVars,
                 submitVars>>

-----------------------------------------------------------------------------
(* The dispatcher.                                                         *)

DispatcherReceives ==
  /\ dispatcher = "receiving"
  /\ ~ Stopping
  /\ pending # <<>>
  /\ inHand' = Head(pending)
  /\ pending' = Tail(pending)
  /\ dispatcher' = "awaitingSlot"
  /\ UNCHANGED <<logVars, world, serveVars, tableVars, pc, tallyVars, submitVars>>

DispatcherFindsSlot ==
  /\ dispatcher = "awaitingSlot"
  /\ ~ Stopping
  /\ SlotIsFree
  /\ dispatcher' = "slotFree"
  /\ UNCHANGED <<logVars, world, serveVars, pending, inHand, tableVars, pc,
                 tallyVars, submitVars>>

\* register_if_still_queued, then the task and its two tallies.
DispatcherLaunches(r) ==
  /\ dispatcher = "slotFree"
  /\ report[inHand].state = "Queued"
  /\ ~ IsAwaitedBy(entry[inHand], report[inHand])
  /\ r = report[inHand].rounds + 1
  /\ entry' = [entry EXCEPT ![inHand] = r]
  /\ token' = [token EXCEPT ![inHand][r] = FALSE]
  /\ Move(inHand, r, "waiting")
  /\ running' = running + 1
  /\ launching' = launching + 1
  /\ inHand' = NoJob
  /\ dispatcher' = "receiving"
  /\ UNCHANGED <<logVars, world, serveVars, pending, exiting, submitVars>>

\* No longer queued, or its round is launched already: its place is used up.
DispatcherSkips ==
  /\ dispatcher = "slotFree"
  /\ \/ report[inHand].state # "Queued"
     \/ IsAwaitedBy(entry[inHand], report[inHand])
  /\ inHand' = NoJob
  /\ dispatcher' = "receiving"
  /\ UNCHANGED <<logVars, world, serveVars, pending, tableVars, pc, tallyVars,
                 submitVars>>

DispatcherReturns ==
  /\ dispatcher \in {"receiving", "awaitingSlot"}
  /\ Stopping
  /\ inHand' = NoJob
  /\ dispatcher' = "returned"
  /\ UNCHANGED <<logVars, world, serveVars, pending, tableVars, pc, tallyVars,
                 submitVars>>

-----------------------------------------------------------------------------
(* A round's task: run_queued_round, reattach_round and collect.           *)

\* config_in_cache gets the repository's lock.
HoldCache(j, r) ==
  /\ pc[j][r] = "waiting"
  /\ Free(j)
  /\ Hold(j, ByRound(j, r))
  /\ Move(j, r, "reading")
  /\ UNCHANGED <<logVars, world, serveVars, queueVars, tableVars, tallyVars,
                 submit>>

\* The select is biased: its cancel, then the daemon stopping, then the config.
CancelledBeforeStart(j, r) ==
  /\ pc[j][r] \in {"waiting", "reading"}
  /\ token[j][r]
  /\ LogVerdict(j, AfterRoundFailed(report[j]))
  /\ Release(j, ByRound(j, r))
  /\ launching' = launching - 1
  /\ Move(j, r, "leaving")
  /\ UNCHANGED <<world, serveVars, queueVars, tableVars, running, exiting,
                 submit>>

StopsBeforeStart(j, r) ==
  /\ pc[j][r] \in {"waiting", "reading"}
  /\ ~ token[j][r]
  /\ Stopping
  /\ Release(j, ByRound(j, r))
  /\ launching' = launching - 1
  /\ Move(j, r, "leaving")
  /\ UNCHANGED <<logVars, world, serveVars, queueVars, tableVars, running,
                 exiting, submit>>

ConfigRead(j, r) ==
  /\ pc[j][r] = "reading"
  /\ ~ token[j][r]
  /\ ~ Stopping
  /\ Release(j, ByRound(j, r))
  /\ Move(j, r, "ready")
  /\ UNCHANGED <<logVars, world, serveVars, queueVars, tableVars, tallyVars,
                 submit>>

\* RoundStarted is in the log before the config's own error is looked at.
StartRound(j, r) ==
  /\ pc[j][r] = "ready"
  /\ Log(j, AfterRoundStarted(report[j], r))
  /\ \/ Move(j, r, "launching")
     \/ Move(j, r, "refusing")
  /\ UNCHANGED <<unanswered, clock, world, serveVars, queueVars, tableVars,
                 tallyVars, submitVars>>

ConfigUnreadable(j, r) ==
  /\ pc[j][r] = "refusing"
  /\ LogVerdict(j, AfterRoundFailed(report[j]))
  /\ launching' = launching - 1
  /\ Move(j, r, "leaving")
  /\ UNCHANGED <<world, serveVars, queueVars, tableVars, running, exiting,
                 submitVars>>

\* Runner::launch makes the container, the Job or the process.
RunnerCreates(j, r) ==
  /\ pc[j][r] = "launching"
  /\ world[j][r] = "absent"
  /\ world' = [world EXCEPT ![j][r] = "working"]
  /\ UNCHANGED <<logVars, serveVars, queueVars, tableVars, pc, tallyVars,
                 submitVars>>

\* The launch returns the round, even when it was asked to give up too late.
RoundLaunched(j, r) ==
  /\ pc[j][r] = "launching"
  /\ world[j][r] # "absent"
  /\ Log(j, AfterRoundLaunched(report[j], r))
  /\ launching' = launching - 1
  /\ Move(j, r, "collecting")
  /\ UNCHANGED <<unanswered, clock, world, serveVars, queueVars, tableVars,
                 running, exiting, submitVars>>

\* The launch failed, was cancelled, or was given up as the daemon stopped:
\* its runner has removed what it created.
LaunchFails(j, r) ==
  /\ pc[j][r] = "launching"
  /\ LogVerdict(j, AfterRoundFailed(report[j]))
  /\ world' = [world EXCEPT ![j][r] = IF @ = "absent" THEN @ ELSE "died"]
  /\ launching' = launching - 1
  /\ Move(j, r, "leaving")
  /\ UNCHANGED <<serveVars, queueVars, tableVars, running, exiting, submitVars>>

Reattached(j, r) ==
  /\ pc[j][r] = "reattaching"
  /\ Move(j, r, "collecting")
  /\ UNCHANGED <<logVars, world, serveVars, queueVars, tableVars, tallyVars,
                 submitVars>>

ReattachFails(j, r) ==
  /\ pc[j][r] = "reattaching"
  /\ LogVerdict(j, AfterRoundFailed(report[j]))
  /\ Move(j, r, "leaving")
  /\ UNCHANGED <<world, serveVars, queueVars, tableVars, tallyVars, submitVars>>

\* The collector sees the token and tells the runner, once.
CancelReachesRunner(j, r) ==
  /\ pc[j][r] = "collecting"
  /\ token[j][r]
  /\ Move(j, r, "cancelling")
  /\ UNCHANGED <<logVars, world, serveVars, queueVars, tableVars, tallyVars,
                 submitVars>>

\* The verdict's frame is routed into the log.
CollectVerdict(j, r, verdict) ==
  /\ pc[j][r] \in {"collecting", "cancelling"}
  /\ world[j][r] \in StreamHolds(verdict)
  /\ LogVerdict(j, IF verdict = "Passed" THEN AfterRoundPassed(report[j])
                                        ELSE AfterRoundFailed(report[j]))
  /\ Move(j, r, "judged")
  /\ UNCHANGED <<world, serveVars, queueVars, tableVars, tallyVars, submitVars>>

\* The stream says no more of a round that may go on: its connection dropped
\* for good.  collect leaves the loop that looks at the token, and only waits.
StreamBreaks(j, r) ==
  /\ pc[j][r] \in {"collecting", "cancelling"}
  /\ Move(j, r, IF pc[j][r] = "collecting" THEN "awaiting" ELSE "awaitingStop")
  /\ UNCHANGED <<logVars, world, serveVars, queueVars, tableVars, tallyVars,
                 submitVars>>

\* The stream ended with the verdict in it, and so did the round.
StreamEnds(j, r) ==
  /\ pc[j][r] = "judged"
  /\ world[j][r] \in Over
  /\ Move(j, r, "leaving")
  /\ UNCHANGED <<logVars, world, serveVars, queueVars, tableVars, tallyVars,
                 submitVars>>

\* The stream ended without one, at the round's end or before it: once the
\* round is over, verdict_missing_from settles it.
VerdictMissing(j, r) ==
  /\ \/ pc[j][r] \in {"collecting", "cancelling"} /\ world[j][r] = "died"
     \/ pc[j][r] \in {"awaiting", "awaitingStop"} /\ world[j][r] \in Over
  /\ LogVerdict(j, AfterRoundFailed(report[j]))
  /\ Move(j, r, "leaving")
  /\ UNCHANGED <<world, serveVars, queueVars, tableVars, tallyVars, submitVars>>

\* A runner that cannot await a round, or whose stream of it is abandoned, takes
\* it for ended and removes it, which may fail; there is a verdict to settle
\* unless the stream brought one.
RoundIsGivenUp(j, r) ==
  /\ pc[j][r] \in {"awaiting", "awaitingStop", "judged"}
  /\ world[j][r] \notin Over
  /\ world' \in {world, [world EXCEPT ![j][r] = EndOf(@)]}
  /\ IF pc[j][r] = "judged" THEN UNCHANGED logVars
     ELSE LogVerdict(j, AfterRoundFailed(report[j]))
  /\ Move(j, r, "leaving")
  /\ UNCHANGED <<serveVars, queueVars, tableVars, tallyVars, submitVars>>

\* The task's locals drop in reverse order: its table entry first -- unless a
\* later round of the job has taken its place --, then its slot.
DropRegistration(j, r) ==
  /\ pc[j][r] = "leaving"
  /\ entry' = [entry EXCEPT ![j] = EntryAfterDrop(j, r)]
  /\ exiting' = exiting + 1
  /\ token' = [token EXCEPT ![j][r] = FALSE]
  /\ Move(j, r, "none")
  /\ UNCHANGED <<logVars, world, serveVars, queueVars, running, launching,
                 submitVars>>

DropSlot ==
  /\ exiting > 0
  /\ exiting' = exiting - 1
  /\ running' = running - 1
  /\ UNCHANGED <<logVars, world, serveVars, queueVars, tableVars, pc, launching,
                 submitVars>>

-----------------------------------------------------------------------------
(* The round itself, on its runner.                                        *)

\* The round reaches its verdict, whether or not a daemon is there to see it.
RoundJudged(j, r) ==
  /\ world[j][r] = "working"
  /\ \E w \in {"passing", "failing"} : world' = [world EXCEPT ![j][r] = w]
  /\ UNCHANGED <<logVars, serveVars, queueVars, tableVars, pc, tallyVars,
                 submitVars>>

\* It is done delivering and cleaning up.
RoundEnds(j, r) ==
  /\ world[j][r] \in {"passing", "failing"}
  /\ world' = [world EXCEPT ![j][r] = EndOf(@)]
  /\ UNCHANGED <<logVars, serveVars, queueVars, tableVars, pc, tallyVars,
                 submitVars>>

\* It is killed with no verdict: evicted, out of memory, its host gone.
RoundDies(j, r) ==
  /\ world[j][r] = "working"
  /\ world' = [world EXCEPT ![j][r] = "died"]
  /\ UNCHANGED <<logVars, serveVars, queueVars, tableVars, pc, tallyVars,
                 submitVars>>

\* Told to stop, a working round stops: it says it failed, or is killed.
RoundObeysCancel(j, r) ==
  /\ pc[j][r] \in {"cancelling", "awaitingStop"}
  /\ world[j][r] = "working"
  /\ \E w \in {"failing", "died"} : world' = [world EXCEPT ![j][r] = w]
  /\ UNCHANGED <<logVars, serveVars, queueVars, tableVars, pc, tallyVars,
                 submitVars>>

-----------------------------------------------------------------------------
(* Stopping and dying.                                                     *)

\* The shutdown signal: no new request is taken, stop_launching() is called.
ShutDown ==
  /\ phase = "serving"
  /\ phase' = "stopping"
  /\ UNCHANGED <<logVars, world, owed, reattached, starts, unclean, queueVars,
                 tableVars, pc, tallyVars, submitVars>>

\* The process is gone, and everything it held in memory with it.
DaemonGone ==
  /\ phase' = "down"
  /\ owed' = [j \in Jobs |-> OwedNothing]
  /\ pending' = <<>>
  /\ inHand' = NoJob
  /\ dispatcher' = "off"
  /\ entry' = [j \in Jobs |-> 0]
  /\ pc' = [j \in Jobs |-> [r \in Rounds |-> "none"]]
  /\ token' = [j \in Jobs |-> [r \in Rounds |-> FALSE]]
  /\ running' = 0 /\ launching' = 0 /\ exiting' = 0
  /\ submit' = [j \in Jobs |-> "idle"]
  /\ repoLock' = [k \in Repos |-> Nobody]
  /\ reattached' = 0
  /\ UNCHANGED <<logVars, world, starts>>

\* serve() returns once every launch in progress has settled.
ExitSettled ==
  /\ Stopping
  /\ dispatcher = "returned"
  /\ LaunchesSettled
  /\ DaemonGone
  /\ UNCHANGED unclean

\* ... or once LAUNCH_CLEANUP_GRACE has passed: launches are dropped.
ExitGraceOver ==
  /\ Stopping
  /\ dispatcher = "returned"
  /\ ~ LaunchesSettled
  /\ unclean < MaxUnclean
  /\ unclean' = unclean + 1
  /\ DaemonGone

Crash ==
  /\ Up
  /\ unclean < MaxUnclean
  /\ unclean' = unclean + 1
  /\ DaemonGone

-----------------------------------------------------------------------------

TaskGoesOn(j, r) ==
  \/ HoldCache(j, r) \/ CancelledBeforeStart(j, r) \/ StopsBeforeStart(j, r)
  \/ ConfigRead(j, r) \/ StartRound(j, r) \/ ConfigUnreadable(j, r)
  \/ RunnerCreates(j, r) \/ RoundLaunched(j, r) \/ LaunchFails(j, r)
  \/ Reattached(j, r) \/ ReattachFails(j, r)
  \/ CancelReachesRunner(j, r)
  \/ \E verdict \in Verdicts : CollectVerdict(j, r, verdict)
  \/ StreamEnds(j, r) \/ VerdictMissing(j, r)
  \/ DropRegistration(j, r)

TaskStep(j, r) == TaskGoesOn(j, r) \/ StreamBreaks(j, r) \/ RoundIsGivenUp(j, r)

WorldStep(j, r) ==
  RoundJudged(j, r) \/ RoundEnds(j, r) \/ RoundDies(j, r) \/ RoundObeysCancel(j, r)

RequestStep(j) ==
  \/ SubmitPreflight(j) \/ SubmitRefused(j) \/ SubmitRecord(j) \/ SubmitEnqueue(j)
  \/ CancelQueued(j)
  \/ \E r \in Rounds : CancelLaunched(j, r)

DispatcherStep ==
  \/ DispatcherReceives \/ DispatcherFindsSlot \/ DispatcherSkips \/ DispatcherReturns
  \/ \E r \in Rounds : DispatcherLaunches(r)

ResumeStep ==
  \/ \E j \in Jobs, r \in Rounds : ResumeReattach(j, r)
  \/ \E j \in Jobs : ResumeLost(j)
  \/ RequeueAndServe

Next ==
  \/ StartDaemon
  \/ ResumeStep
  \/ \E j \in Jobs : RequestStep(j)
  \/ DispatcherStep
  \/ \E j \in Jobs, r \in Rounds : TaskStep(j, r) \/ WorldStep(j, r)
  \/ DropSlot
  \/ ShutDown \/ ExitSettled \/ ExitGraceOver \/ Crash

Spec == Init /\ [][Next]_vars

-----------------------------------------------------------------------------
(* What the scheduler promises.                                            *)

Open(j) == report[j].state \in {"Queued", "Running"}
Tasks == {t \in Jobs \X Rounds : pc[t[1]][t[2]] # "none"}
LaunchingTasks == {t \in Jobs \X Rounds : pc[t[1]][t[2]] \in LaunchingPc}
\* A task that may still record its round's verdict.
Unjudged(j, r) == pc[j][r] \notin {"none", "judged", "leaving"}

\* Every request recorded in a job's log gets exactly one verdict, and the
\* job is queued or running until it has it: no cancel, launch failure, stop,
\* restart or late stream records a second one, and none is recorded for
\* nobody's request.
OneVerdictPerRequest ==
  \A j \in Jobs : unanswered[j] = IF Open(j) THEN 1 ELSE 0

\* Two tasks of one job can be alive at once -- one delivering what it has
\* been judged for, one of a later revise -- but only one is yet to be judged,
\* and the cancel table leads to it however the ends of the two interleave:
\* Registration's drop never takes out the entry of the round that replaced
\* it, and never leaves one behind.
EntryLeadsToTheUnjudgedTask ==
  \A j \in Jobs :
    /\ entry[j] # 0 => pc[j][entry[j]] # "none"
    /\ \A r \in Rounds : Unjudged(j, r) => entry[j] = r

\* While requests are served, a running job has a task of its latest round
\* that has yet to judge it: no round runs on uncollected, and -- the cancel
\* table leading to that task -- a cancel of a running job is never refused.
RunningJobIsCollected ==
  \A j \in Jobs :
    phase \in {"serving", "stopping"} /\ report[j].state = "Running" =>
      \E r \in Rounds : r = report[j].rounds /\ Unjudged(j, r)

\* The two tallies count what they are read for, so the cap is neither
\* exceeded nor eroded and shutdown waits for exactly the launches there are.
TalliesAreExact ==
  /\ running = Cardinality(Tasks) + exiting
  /\ launching = Cardinality(LaunchingTasks)

\* Never more than max_jobs rounds -- or, after a restart, no more than the
\* daemon found already running.
CapHolds == running <= MaxJobs \/ running <= reattached

\* After stops that were given their grace, and no crash, a daemon starting
\* finds no round lost mid-launch: launches_settled waits for every one.
GracefulStopLosesNoRound ==
  unclean = 0 => \A j \in Jobs : owed[j].owes # "LostWhileLaunching"

InLine(j) ==
  \/ \E i \in 1 .. Len(pending) : pending[i] = j
  \/ inHand = j
  \/ submit[j] = "recorded"

\* A task about to start the job's next round.  One that has given up starting
\* it and still holds its table entry is not.
LaunchToCome(j) ==
  \E r \in Rounds : /\ r = report[j].rounds + 1
                    /\ pc[j][r] \in {"waiting", "reading", "ready"}

\* A queued job is always owed a launch: it has a place in line, or a task
\* about to start it.  Holds for one slot: the task that gave the job's last
\* round up holds the slot until its table entry is gone.
QueuedJobIsOwedALaunch ==
  phase = "serving" =>
    \A j \in Jobs : report[j].state = "Queued" => InLine(j) \/ LaunchToCome(j)

\* The last place of a job in line: its earlier ones are left from requests
\* that were cancelled.
LastPlace(i) == \A k \in i + 1 .. Len(pending) : pending[k] # pending[i]

\* Jobs of one repository stand in line in the order their requests were
\* recorded, those accepted and those requeued after a restart alike.  (Once a daemon
\* is stopping, what is sent to its dropped channel is requeued by the next.)
LineIsInRequestOrder ==
  phase = "serving" => \A i, k \in 1 .. Len(pending) :
    /\ i < k
    /\ LastPlace(i) /\ LastPlace(k)
    /\ report[pending[i]].state = "Queued" /\ report[pending[k]].state = "Queued"
    /\ ~ LaunchToCome(pending[i]) /\ ~ LaunchToCome(pending[k])
    /\ submit[pending[i]] # "recorded" /\ submit[pending[k]] # "recorded"
    /\ RepoOf[pending[i]] = RepoOf[pending[k]]
    => report[pending[i]].requested_at < report[pending[k]].requested_at

\* Seen from its log alone, a job goes through the life JobLifecycle allows: a
\* round starts only for a job still queued, as its next round -- "a job is
\* never both cancelled while queued and launched" --, it is launched once, a
\* verdict ends exactly what is open, and nothing changes a verdict but the
\* next request.
Lifecycle ==
  INSTANCE JobLifecycle WITH
    job <- [j \in Jobs |-> [state  |-> report[j].state,
                            rounds |-> report[j].rounds,
                            handle |-> report[j].launched]]
JobsFollowTheirLifecycle == Lifecycle!Spec

-----------------------------------------------------------------------------
(* What comments in the code say and the code does not do.                 *)

\* The dispatcher is to "launch queued jobs [...] whenever fewer than
\* max_jobs rounds are running": nothing in line, nothing running, no request
\* being taken, and still a job is queued.
NoJobIsLeftQueued ==
  /\ phase = "serving" /\ dispatcher = "receiving" /\ pending = <<>>
  /\ running = 0 /\ \A j \in Jobs : submit[j] = "idle"
  => \A j \in Jobs : report[j].state # "Queued"

-----------------------------------------------------------------------------
(* Liveness.                                                               *)

\* The runtime polls what is ready; tokio's mutex hands the repository's lock
\* over in order of arrival (so a task is not overtaken forever); git, the
\* runner's launch and its reattach return; a round told to stop stops, and
\* one past its verdict ends.  Nothing makes a client send a request, the
\* daemon start, stop or crash, or a working round finish by itself.
Fairness ==
  /\ WF_vars(ResumeStep)
  /\ WF_vars(DispatcherStep)
  /\ WF_vars(DropSlot)
  /\ WF_vars(ExitSettled)
  /\ \A j \in Jobs :
       /\ WF_vars(SubmitRefused(j) \/ SubmitRecord(j))
       /\ WF_vars(SubmitEnqueue(j))
  /\ \A j \in Jobs, r \in Rounds :
       /\ WF_vars(TaskGoesOn(j, r))
       /\ SF_vars(HoldCache(j, r))
       /\ WF_vars(RoundEnds(j, r))
       /\ WF_vars(RoundObeysCancel(j, r))

FairSpec == Spec /\ Fairness

\* A cancel whose token reaches a round yet to be judged ends it, however long
\* the round would have worked, unless the daemon stops first -- or the stream
\* broke before the token was seen: then nothing ends the round but itself.
CancelEndsTheRound ==
  \A j \in Jobs, r \in Rounds :
    (token[j][r] /\ Unjudged(j, r))
      ~> \/ report[j].state \in Verdicts \/ phase # "serving"
         \/ pc[j][r] = "awaiting" /\ world[j][r] = "working"

\* No round works forever: the repository has a max_duration, and git and gh end.
RoundsEnd == \A j \in Jobs, r \in Rounds : []<>(world[j][r] # "working")

\* While rounds end and the daemon stays up, no queued job waits forever: the
\* slot, the repository's lock and its place in line all come to it.
EveryQueuedJobLeavesTheQueue ==
  RoundsEnd => \A j \in Jobs :
    report[j].state = "Queued" ~> (report[j].state # "Queued" \/ phase # "serving")

\* A stop is not held up by anything in flight -- a stalled lock, a launch, a
\* round running for hours -- and needs no grace period to run out.
StopCompletes == Stopping ~> phase = "down"
=============================================================================
