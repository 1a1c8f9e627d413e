# assembly-line in TLA+

assembly-line runs coding agents on a repository, one *job* per prompt. A job
has a branch on the repository's remote (`al/job-N`), and *rounds*: each clones
the remote, runs the agent, commits and pushes what it left, lets the
repository's `verify` judge it and asks for a pull request. `assembly-line run`
runs one round and keeps nothing. A *daemon* keeps a root directory with a log
per job, takes submits and cancels over HTTP, launches rounds on a *runner* (a
local process, a Docker container, a Kubernetes Job), at most `max_jobs` at a
time, and collects what each prints. Daemons and rounds are stopped, killed and
restarted independently of each other.

These modules model that: `.tla` files for components, `MC*.tla` and `.cfg` files
for TLC, `*Proofs.tla` and `JobDaemonQueue.tla` for TLAPS. `PROJECT.json` maps
each definition to the lines it models, lists the runs with their properties,
mutations of the code that each property notices, the hazards of the code, the
findings and the theorems. Sources are named below relative to `src/src/`.

## Inventory

| Component | Source | State | Operations | Modelled in |
|---|---|---|---|---|
| Job report | `report.rs`, `state.rs` | the fold of a job's events | one case per event | `JobReport` |
| Restart decision | `daemon/fleet.rs` | none | what a log owes its job | `JobReport` |
| Event log | `event.rs` | `events.jsonl`, text and newline | append, read, torn writes | `EventLogFile` |
| Collector | `collect.rs`, `frame.rs` | position in the stream, bookmark file | route a line, resume, settle a verdict, cancel, give up | `Collector` |
| Scheduler | `daemon/dispatch.rs` | line, cancel table, tallies, repository locks | enqueue, launch, reattach, cancel, drop | `JobDaemon` |
| Daemon life | `daemon/mod.rs` | phase, cancellation tokens | resume, serve, stop with graces | `JobDaemon` |
| Requests | `daemon/submit.rs`, `daemon/api.rs` | the submit in hand | preflight, record, enqueue, cancel | `JobDaemon`, `Claim` |
| Claim of an id | `claim.rs`, `paths.rs`, `job.rs`, `git.rs` | branches on the remote, job directories | list, push, make the directory, continue | `Claim` |
| Round | `run.rs`, `round.rs`, `workspace.rs`, `delivery.rs` | a scratch clone, the branch, frames | pin, provision, agent, commit, push, verify, record, deliver | `Round` |
| Supervision | `exec.rs` | a process group, its pipes | run to its end, limit, cancel, forward output | `SupervisedCommand`; its outcomes in `Round` |
| Runner interface | `runner/mod.rs` | none | launch, reattach, next line, cancel, termination | `RoundStream`, `Runners` |
| Kubernetes runner | `runner/kubernetes.rs`, `runner/child.rs` | a Job, its pod and log; a position in that log | launch, follow, reconnect, drain, reattach, cancel, terminate | `FollowedLog`, `Runners` |
| Local runner | `runner/local.rs`, `runner/tail.rs` | a process by its pid, its frames file | launch, tail, reattach, cancel, terminate | `LocalRound`, `Runners` |
| Docker runner | `runner/docker.rs`, `runner/child.rs` | a container and its log | create, start, follow, reattach, stop, wait, remove | `DockerRound`, `Runners` |
| Root lock, client | `daemon/root.rs`, `daemon/client.rs` | a lock file | lock, one request | the lock, in `JobDaemon` |
| Config, payload, command line | the rest | none | parsing, formatting, printing | no |

How they interact. A submit holds its repository's lock while it asks git about
base and branch, claims an id (or finds the job it continues idle), appends
`RoundRequested` and sends the job down a channel. The dispatcher takes one job
at a time, waits for a slot, enters the round in the cancel table and spawns a
task. The task takes the lock again to read the config in the repository's
cache, appends `RoundStarted`, asks the runner to launch, appends
`RoundLaunched`, then collects: each numbered line of the round's stream goes
to the event log or the output log, and its number to a bookmark file. A cancel
closes a queued job in the log, or fires the token in the table. On a restart
the logs alone say what each job is owed: a place in line, a reattach, or a
verdict for a round lost while launching.

What is hard. A cancel, the dispatcher, the end of a task and a revise race for
one log and one table entry; a stop has to wait for launches and for nothing
else; a crash can come between any two appends, and inside one; a stream is
read again from its start after a restart; claimers that know nothing of each
other meet only on the remote, and so do rounds of one job; agents leave any
history in their checkout; replies of pushes get lost. `PROJECT.json` lists
each place under `hazards`, with the properties that would notice.

What makes each part correct. Scheduler: one verdict per request, the cap, no job
forgotten, cancels that reach the round, stops that complete. Log: what is lost is
bounded, and what a log with holes means is known. Collector: nothing dropped,
order kept, the round's own verdict. Runner: the stream it hands on is the round's,
whole, and ends only with it; a round that runs is ended only on a cancel, or where its launch
or the watching of it failed. Supervision: nothing of a
command outlives it, and what it printed precedes the next event. Claim: one branch per claim. Round: nothing
recorded or passed that is not on the branch, or that another round takes off it.

## Modules

**`JobReport`** translates the fold (`JobReport::from_events`) into one operator
per event and the decisions made from it: `IsAwaitedBy` (may the dispatcher
launch this round), `ResumptionFor` (what a restart owes), `MayBeAskedFor` (may
it be revised). Facts only printed -- the diff, durations, prompts -- are left out.

**`JobDaemon`** is the scheduler with all that runs around it. `report[j]`
stands for the log of job j: nothing in the daemon reads a log except through the
fold, so an append is one step of it. `world[j][r]` is the round on its runner,
which survives the daemon. `pc[j][r]` is the place of a round's task in
`spawn_round`, `run_queued_round` or `reattach_round`, between one await, lock or
append and the next; `entry` and `token` are the cancel table, `running` and
`launching` the tallies with destructors of their own (`DropRegistration`,
`DropSlot`), `pending` the channel, `repoLock` the repositories' mutexes.
Where the code holds a lock across steps, they are one action: a cancel with its
append and a registration with its look at the log are each done under the
table's lock. Where the model merges more than that: the append of `RoundLaunched`
with the drop of the launch's count; a launch error with its verdict; the two
drains of a stop, since connections outlive the grace of both (`Answering`).
A stream may break while its round works (`StreamBreaks`): `collect` leaves the loop that
looks at the token, and the task is `awaiting` the round's end and nothing else, or
`awaitingStop` if the round was told before. What cannot be awaited is given up
(`RoundIsGivenUp`): recorded as failed and removed, which may fail.
Appends do not fail here (see `Collector` and `EventLogFile`).
The properties relate log, table, line, tasks and the world; the last one,
`JobsFollowTheirLifecycle`, is a refinement: under
`state, rounds, handle <- report` the daemon implements **`JobLifecycle`**,
the life of a job as its log tells it.

**`EventLogFile`** is the file: an append is a text and then a newline, of
several handles at once (a collector's and a revise's), a failed write or a
crash tears it at either place, a torn text may end inside a character. The
reader is `read_events`: split, parse, skip what is no event (`AfterLine`, of each line).
`ReportMeansWhatItSays` and `RestartOwesWhatTheLogLacks` check the fold of `JobReport`
against definitions that look at the whole log instead ("the last verdict or
request", "the latest start with no verdict after it"), on every log such
writes can leave -- holes and all.

**`Collector`** has a round that prints numbered frames among lines without a
number, the collector reading them (`Past` is `StreamPosition::route`), the two
logs and the bookmark written by a temporary file and a rename, a cancel and
restarts. A crash, a failed write (cancel and wait the round out), a line cut while it
is read and a stream that breaks off are its interruptions, of which a run has
`MaxInterruptions` between them. After a stream that broke off the round may run on: its
termination is awaited (`awaiting`), with a token fired there never looked at, until the round ends
(`Terminates`) or cannot be awaited (`RoundIsGivenUp`). An event torn by one takes the next with it,
as `EventLogFile` has it in detail. An append to the output log happens or does not.

**`RoundStream`** is the `RunningRound` trait as a specification of its own: lines are
passed on once each, in the order of their pipe, from the start again after a reattach;
a round is said to have *exited* only when it has and is read, or a connection was cut. Each runner
below implements it, under the mapping in its `Stream`.

**`LocalRound`** is a process of this machine. Its frames file grows by halves of lines,
`LineTail` reads what is there and keeps a half until the other comes, or until the
process was gone before a read. `pid` is whose the round's pid is now: the
round's, nobody's, or that of a process that has got it since. A daemon's own child
is waited for; one found again after a restart is known by leading its session.
To ask whose a pid is and to signal it is one step here, as is the read of what a file holds.

**`DockerRound`** is a container and the clients that create, start, follow, stop, await,
inspect and remove it. Each may fail after the engine did what it was asked; the
follow may drop anywhere, and looks then as at its end. Left out: what clients say
for themselves, and requests acted on after the removal that follows them.

**`FollowedLog`** is a round on Kubernetes. `objects`, `pod` and `log` are the
cluster's; the rest is the daemon's `KubernetesRound`, from `creatingJob` to `over`.
A line is the timestamp `kubectl` puts before it: a connection is asked for by
`--since-time`, to the second, so it repeats lines, and `LogReadPosition` tells by the
instant and the count of lines at that instant which are new. Connections drop anywhere,
within a line too (`CutLine`: the tail of a closed pipe is a line to `child.rs`). A delete
may fail, and nobody asks. Left out: a create request acted on after its clean-up, a pod
that goes back from running, a log whose stamps are out of order, and the single
retries of a status read, which are one outcome.

**`SupervisedCommand`** is `exec.rs` from a command's spawn to the round's next event: the
leader and what it starts, inside its group or in a session of its own; the race of
its exit with a deadline and the token; the two kills of the group; a forwarder for each
pipe, and the grace they have once the group is killed. Left out: a group's id given away
after its leader is reaped, which the second kill would then reach.

**`Runners`** puts the four together as alternatives, one to a behaviour, so that one
property says what all of them keep: `StreamsAreTheRounds` is the three refinements of
`RoundStream`. **`RoundBounds`** has the bounds they share.

**`Claim`** has the remote's branches, claimers (daemons, each with job
directories; `run`s with none; people pushing and deleting by hand) and the push
that creates a branch in the steps its answers tell apart: what it is told when
it connects, and the update. Every branch ever created has a number, so that a
branch made again under an old name is another branch. Submits to one daemon
for one repository hold its lock, so a daemon is one claimer. Near misses of a
job's branch name, which `JobId::from_branch_name` ignores, are left out, and so
are the pushes of rounds. The directory of a claimed job and the record in it are one
step; a stop or a failed write between them, which leaves a directory that refuses its id and
that no revise continues, is left out. A job is continued also if the remote does not
answer (`ContinueJob`, which has then seen no branch). That a continued job is idle is `JobDaemon`'s part.

**`Round`** has the rounds of one job on its branch. A commit is the sequence of
rounds that made it and its ancestors, so `git rev-list --count a..b` is a prefix
test. An agent leaves its start, the parent of it, or a commit of its own on
either, with or without changes nobody committed, and fails or does not. A push
lands, lands with its reply lost, is refused, or is not reached; each round has
`PushAttempts` of them. A commit may fail before it is made or after, and is lost either way. `events[r]` are the events among its frames; the lines commands
print, and a discard that fails, are left out. A killed round leaves nothing
but the branch. What a process that the agent moved out of its group could still
do to the checkout is left out.

**`MC*`** hold the model values. The proofs are in **`JobDaemonProofs`** and
**`JobDaemonQueue`**, which goes on from it, **`EventLogFileProofs`**, **`CollectorProofs`**,
**`FollowedLogProofs`**, **`RunnersProofs`** (with those of `LocalRound`, `DockerRound` and
`SupervisedCommand`), **`ClaimProofs`** and **`RoundProofs`**.

Each component module has a section of *slips*: operators nothing uses, each a
plausible mistake in one definition. Put in its place they make the property
named beside them in `PROJECT.json` fail.

## Runs

| Run | Instance | Asks |
|---|---|---|
| `DaemonOneSlot` | 2 jobs of 1 repository, cap 1, 3 requests, 2 starts, 1 crash or grace run out | the cap, the line's order, no launch lost by a stop, a queued job owed a launch |
| `DaemonTwoSlots` | 2 jobs of 2 repositories, cap 2, 2 requests, 2 starts, 1 crash | one verdict per request, the table, the collecting of running jobs, the tallies, `JobLifecycle` |
| `DaemonLiveness` | 2 jobs, cap 1, 2 requests, 2 starts, no crash | a cancel ends its round unless the round's stream broke before it was seen, a stop completes, a queued job leaves the queue |
| `LogFile` | 2 handles, 3 events, 2 crashes or failed writes | what is lost, what the fold and a restart make of the rest |
| `Collector` | 3 lines, 2 interruptions | nothing passed is lost, order, what a restart repeats, whose the verdict is; a cancelled collection ends, with the same exception |
| `Runners` | 3 lines, 1 restart; on Kubernetes 3 instants, 2 to a second, 1 fruitless reconnect allowed | the three refinements, lines read once, running rounds ended only on a cancel or where a launch or the watching failed, commands supervised; what ended is seen to have |
| `Claim` | 1 daemon, 1 `run`, somebody; ids 0..2, 2 commits, 3 branches created, 1 deleted, 2 attempts | whose branch a claim returns, what its lost attempts mean, whose a directory is |
| `Round` | 2 rounds, `verify` and "pr", 2 push attempts, 1 deletion | what is recorded, passed, judged, kept and delivered; a round told to stop ends |

Why these bounds. Two jobs are enough to compete for a slot, a lock and a place
in line; a third request lets one job be cancelled, asked for again and
requeued after a restart while the other waits. Two starts and one unclean
end give stop, crash and resume in either order. With cap 1 all jobs share a
repository, so the lock matters; with cap 2 two tasks of one job overlap (one
still delivering, one of the next round). Two writers and two failures are the
fewest that glue one handle's text to another's torn line and tear the result
again. In `Collector` three lines are two frames with one that has no number before, between
or after them, or a frame torn and the two that meet its remains; two interruptions
are a tear and the restart that reads it again. In `Runners` three lines on three
instants give two of one instant, two of one second and one of another, with
connections that drop at each; in a frames file they are six halves, so that a
read can end within a line twice; on the pipes of a command or a container they
give two of one pipe around one of the other. One restart gives each runner a
reattach, and a launch that was lost. In `Claim` three creations give an id taken, freed and taken
again while a claim is under way, and the last id is in reach. In `Round` two
rounds reach every way for a push to meet another's, and the second starts from
the first's work, which its agent can rewrite. Jobs and rounds enter the actions
only as indices, so more of them add overlap of the same kinds; for the theorems
below no bound matters. Deadlock is not checked: every instance ends when its
bounds are used up.

### Disagreements

Four runs show the code doing what a comment of it rules out; TLC finds each
counterexample and `PROJECT.json` quotes the lines (`findings`).

* `DaemonJobLeftQueued`: a round cancelled before it starts leaves its table entry
  until its task ends. A revise accepted in between gets the same round number; its
  place in line is used up on that entry and the job stays queued in an idle daemon.
* `LogLosesAcked`: text and newline are two writes, so an acknowledged event can land
  on a torn line, and a line torn inside a character fails the read of the file.
* `ClaimForeignBranch`: a revise asks only for a branch of the job's name, which
  after a deletion can be another job's.
* `RoundVerifiesAnotherTree`: an agent that resets its branch behind the start has
  "made nothing": `verify` judges the older tree, and the branch it never saw passes.

## Fairness

`DaemonLiveness`: the runtime polls what is ready (weak fairness of each task, of
the dispatcher and of the resuming start); tokio's mutex is first come, first served, so
a task waiting for the repository's lock is not overtaken for ever (strong fairness of
`HoldCache`); git, launch and reattach return; a round told to stop stops, one past its
verdict ends. No fairness makes a client ask, a daemon start, stop or crash, a stream break, a
runner give a round up, or an agent
finish: `CancelEndsTheRound` and `StopCompletes` hold with rounds that work for ever.
`CancelEndsTheRound` excepts a round whose stream broke before its token was looked at and
that works on: the code waits for such a round's own end (below).
`EveryQueuedJobLeavesTheQueue` says in its statement that rounds end, which a
repository's `max_duration` provides.

`Collector`: the collector is scheduled; `select!` polls its branches in random order, so a
token that has fired is not passed over for ever by a chatty stream (strong fairness of
`CancelSeen`); a round told to stop ends. Nothing makes a round that was not told end, and
`CancelledCollectionEnds` excepts the wait for one whose stream broke first.

`Runners`, each its part. `FollowedLog`: `kubectl` answers, with a result or without; a follow
ends once its pod has ended (the code gives it no limit of its own); the cluster removes
a pod whose Job is deleted. `LocalRound`: the daemon's own steps are taken, and a round
that was signalled stops. `DockerRound`: clients end, with a result or without, those
that wait for the container at its end. `SupervisedCommand`: the tasks are scheduled,
and time passes once a grace is begun. No fairness makes a round print or finish, a
container or a command exit, or a deadline or a cancel come.

`Round`: git, `mise` (which has a limit) and `gh` come to an end, and a command stops once
its token fires; agents and `verify` are under no fairness of their own. The code puts no
limit on a push or on `gh`, and cancels neither: that they end is an assumption.

## What is proved

Every invariant and action property of the runs that pass, and every refinement, for every
value of the constants, from the assumptions named in each module (jobs are finitely many
and have a repository each, `MaxJobs` is positive, the bounds are natural numbers; a log's
writers are finitely many; claimers are distinct from each other and from `Somebody`, ids, commits,
attempts and the instants of a second are positive). TLC was given each inductive invariant
before it was proved.

* `JobDaemonProofs!TypeCorrect`: `TypeOK`, one conjunct per group of variables, one lemma
  per kind of action.
* `JobDaemonProofs!VerdictsMatchRequests`, `TableIsRight`,
  `RunningJobsAreCollected` from the invariant `RoundsInv`. One verdict per
  request is not inductive alone: that a task records a verdict only for
  a job that is open needs `TasksMatchTheLog` (where a task is says what its job's
  log holds), which needs the table to be right (`EntryLeadsToTheUnjudgedTask`), the
  handle in the log to be of the latest round, a submit under way to be of a closed
  job (`PreflightIsOfAClosedJob`), and a start to settle what logs owe before it serves
  (`ResumesFirst`). The invariant is shown per action, with one lemma for what all
  steps of a task have in common.
* `JobDaemonProofs!CapIsKept` from `SlotInv`: the dispatcher holds a job only with
  a slot it saw free, and nothing else adds to `running` between.
* `JobDaemonProofs!DaemonImplementsLifecycle`: initial states map to initial
  states, every step to a step of `JobLifecycle` or a stutter.
* `JobDaemonQueue!TalliesCount` from `TallyInv`: a tally is the cardinality of a set of
  tasks, so a spawn must be of a task that was not there (`UnstartedIsEntered`: a task is of
  a started round, or the table has it).
* `JobDaemonQueue!StopsLoseNoRound` from `StopInv`, over the tallies: once a stopping
  daemon counts no launch, every round that runs has its handle in the log
  (`SettledMeansLaunched`), so that no start after a stop within its graces finds one lost.
* `JobDaemonQueue!OneSlotForgetsNobody` from `QueueInv`, under the hypothesis `MaxJobs = 1`:
  a slot that is free has no task waiting in it (`FreeSlotAwaitsNobody`), so no stale table
  entry can use up a place in line, and everyone queued is in it (`LineHasAll`). The
  hypothesis is needed: for two slots the statement is false (`DaemonJobLeftQueued`).
* `JobDaemonQueue!LineIsFair` from `OrderInv` and `QueueOpen`: times of requests are distinct
  and grow, a request keeps its repository's lock from the record to the channel
  (`SubmitHoldsLock`), and so the newest of a repository comes last.
* `EventLogFileProofs`: `FileTypes` and `FileLossesAreBounded` from `FileInv`, whose second
  half `LossesArePaid` is an amortised account: what the reader cannot see, what it will no
  longer see once half-written lines are closed, and what torn ends may still cost come to
  no more than failures and twice the overlaps, at every step. `ReportsMeanWhatTheySay` and
  `RestartsOweWhatIsLacking` from `ReportMeansItsLog`, which is of any log: the community
  modules' fold is shown to go step by step, and what it gives is told by induction on a set
  of numbers (`ReachesAll`, from the library's well-founded minimum).
* `CollectorProofs`: `CollectorTypes`, `CollectorDropsNoLine`, `CollectorKeepsOrder`,
  `CollectorRepeatsOneFrame`, `CollectorSettlesOnce` from `CollectorInv`. Its conjuncts place
  the bookmark and both logs around the position: what is passed is logged and before
  the bookmark recorded, what is read again lies behind (`ReplayIsBehind`, `BookmarkIsLogged`),
  the text an event is about to follow is the next one's (`TextIsNext`), and each repeat and
  loss has an interruption of its own (`RepeatsAreInterruptions`, `LossesAreInterruptions`).
* `FollowedLogProofs`: `FollowTypes`, `FollowReadsOnce`, `FollowEndsForCause` and the
  refinement `FollowedLogIsAStream` from `FollowInv`: a position is the instant of the last
  line handed on with the count of those that have it (`ReadSoFar`), which is all that a
  connection asked for by the second needs. What `FollowEndsForCause` excludes is a Job deleted as its
  connection dropped, the pod taken for ended. The causes it leaves are a cancel, a
  launch that failed, and a stream abandoned: a status that cannot be read, a `kubectl`
  that cannot be spawned, the reconnects used up.
* `RunnersProofs`: `RunnersTypes`, `RunnersReadOnce`, `RunnersSuperviseCommands`,
  `RunnersEndForCause` and `RunnersAreStreams`, the three refinements of `RoundStream`, from
  the invariant of each part: `FollowInv`, `LocalInv` (a half line in hand and the halves read
  are the file's), `DockerInv` (past a follow that was not cut off, the
  container does not run and its log is read) and
  `CommandInv` (where `supervise` is says which processes there can be).
* `ClaimProofs`: `ClaimTypes`, `OneBranchPerClaim`, `OthersTakeWhatIsLost`,
  `DirectoriesAreKept` from `ClaimInv`: numbers of branches are used once, a claim
  returned is of the branch its own push made, and an id being pushed to was free, and
  above every taken one, when it was listed. That there is a highest id is proved by
  the library's facts on finite sets of numbers.
* `RoundProofs`: `RoundTypes`, and `RecordedIsPublished`, `PassedLoseNothing`,
  `VerdictsAreOfTheRecordedWork` from `RoundsSafe`. What a round has
  sent says nothing of what it still has to send, so the invariant is about both, and
  about the push and the ruling before them: a round that is pushing has committed
  all, one that is ruled on has lost its work and knows it, or has all of it on the
  branch. It is stated of one round and only grows truer as more is published
  (`SafetyOutlivesPushes`), so rounds that meet do not disturb each other.
  `PullRequestsAreOfAPass` adds `DeliveriesAreOfAPass` (what the comparison found still holds
  when `gh` is asked, for nothing it read can change) and `BranchHasAll` (prefixes chain, so
  fast-forwards keep all that was published until somebody deletes the branch). From that and
  from `RoundsSafe`, `RecordedStays`: the branch has what every round recorded, and the tip every
  one that passed was judged to leave (`TipsArePublished`).

Only model-checked: the liveness properties `CancelEndsTheRound`, `StopCompletes`,
`EveryQueuedJobLeavesTheQueue`, `CancelledCollectionEnds`, `CancelledRoundsEnd` and
`EndsAreSeen`, since the prover has neither fairness nor ENABLED; and the four disagreements,
which are counterexamples.

## Plan

Done: the daemon and its report, the log file, the collector, the claim, the round, the
three runners and their common interface, the supervision of commands; the proofs of every
invariant, action property and refinement of the runs. What is left, in order:

1. The safety half of what the liveness runs ask, as theorems: that a stop's waits are for
   launches only, that nothing takes a fired token back.
2. What joins the modules: that the stream `Collector` is given is one `RoundStream` hands
   on, and that its torn events are those of `EventLogFile`. Both are by reading so far.
3. `RoundsSafe` for a branch made again after its deletion: which of a round's commits the
   new branch lacks.

## Not modelled

Whole parts: parsing and printing of configuration, command line, payloads and reports; the
content of prompts, diffs and output; the client's one request; git's repository cache
and its object transfer; tokens and credentials; preflights that only ask (`kubectl auth
can-i`, a Docker that answers).

Known to happen, and no property rules it out:

* A round that has passed and is still delivering when its daemon stops is owed nothing
  by the next one, and its pull request is recorded nowhere (in `JobDaemon`).
* A round launched by a daemon that crashes before it records the handle runs on with
  nobody to collect it: the code says so, `JobDaemon` has it, and `Round` has its meeting
  with the round after it.
* A `docker logs -f` that drops while its container works ends the stream for `collect`, which
  awaits `docker wait` and looks at the token no more: a cancel that comes then is accepted and does
  nothing, and the job stays running until the container ends by itself or the
  daemon is restarted (in `JobDaemon` and `Collector`, excepted by
  `CancelEndsTheRound` and `CancelledCollectionEnds`; the lines lost are in `DockerRound`).
* A cancel is not persisted: one that arrives just before the daemon stops is forgotten.
* File names that carry a round's number shift if its start is lost from the log
  (`EventLogFile` has the loss, no module the names).
* A container whose `docker logs` cannot be spawned runs on, though its launch has
  failed (in `DockerRound`).
* A process that leaves its command's session survives it, and may hold its pipes
  until the grace is over (in `SupervisedCommand`).

Left out by an abstraction:

* `exec.rs` kills the group again after the leader is reaped in every case, so an id that
  was given away meanwhile would be killed; no id is given away in the model.
* `local.rs` asks whose a pid is and then signals it; the pid can change hands in between.
* `daemon::serve` lets go of the root's lock before the tasks of its rounds have ended; a
  daemon of `JobDaemon` ends in one step.
* Docker's two pipes may be interleaved anew on a replay: `DockerRound` has it,
  `Collector` is given a stream that is the same each time.
* What `docker` and `kubectl` print of themselves reaches a collector as lines without
  a number, which `Collector` has, but no runner's module.
