------------------------------- MODULE Round -------------------------------
(***************************************************************************)
(* Rounds of one job on its branch: clone, provision, agent, commit, push, *)
(* verify, the events that say so, and the pull request.  A round is       *)
(* stateless and knows of no other; two of them meet on the branch when    *)
(* two people continue a job, or a round outlives the daemon that launched *)
(* it.                                                                     *)
(*                                                                         *)
(* A commit is the sequence of the rounds that made it and its ancestors,  *)
(* after the commit the job was claimed at, which is <<>>.                 *)
(***************************************************************************)
EXTENDS Naturals, Sequences, SequencesExt

CONSTANTS
  Rounds,
  HasVerify,     \* whether the repository configures `verify`
  Delivers,      \* whether its delivery mode is "pr"
  PushAttempts,
  MaxDeletions   \* bound: deletions of the branch

ASSUME RoundAssumption ==
  /\ HasVerify \in BOOLEAN /\ Delivers \in BOOLEAN
  /\ PushAttempts \in Nat \ {0} /\ MaxDeletions \in Nat

VARIABLES
  branch,      \* the job's branch on the remote: {its tip}, or {}
  merged,      \* the last commit of it that its base has
  pullRequest, \* of the branch: "none", "open" or "merged"
  rounds,      \* [Rounds -> what each is at]
  events,      \* [Rounds -> the events each has sent]
  \* history and bounds
  published,   \* every commit the branch has been at
  judged,      \* [Rounds -> the trees its `verify` ran on to its end]
  deleted

remote == <<branch, merged, pullRequest, published, deleted>>
vars == <<remote, rounds, events, judged>>

Commit == Seq(Rounds)
Event ==
  [kind : {"committed", "pushed", "verifyRejected", "passed", "failed", "pullRequest"},
   commit : Commit]

\* `dirty`: changes nobody has committed; `work`: the commit preserved, or {};
\* `lost`: preserving it failed; `say`: the events still to send; `cancelled`:
\* told to stop, while there is still something that can be.
Round ==
  [pc : {"cloning", "pinned", "starting", "provisioning", "agent", "committing", "pushing",
         "verifying", "recording", "viewing", "creating", "opened", "over"},
   base : Commit, start : Commit, head : Commit, dirty : BOOLEAN, agentFailed : BOOLEAN,
   work : SUBSET Commit, lost : BOOLEAN, attempts : 0 .. PushAttempts - 1, say : Seq(Event),
   cancelled : BOOLEAN]
NotStarted ==
  [pc |-> "cloning", base |-> <<>>, start |-> <<>>, head |-> <<>>, dirty |-> FALSE,
   agentFailed |-> FALSE, work |-> {}, lost |-> FALSE, attempts |-> 0, say |-> <<>>,
   cancelled |-> FALSE]

Stoppable ==
  {"cloning", "pinned", "starting", "provisioning", "agent", "committing", "pushing", "verifying"}

At(r, pc) == rounds[r].pc = pc
Becomes(r, round) == rounds' = [rounds EXCEPT ![r] = round]
Goes(r, pc) == Becomes(r, [rounds[r] EXCEPT !.pc = pc])
Over(r) == Becomes(r, [NotStarted EXCEPT !.pc = "over", !.start = rounds[r].start])
Saying(kind) == [kind |-> kind, commit |-> <<>>]
Send(r, event) == events' = [events EXCEPT ![r] = Append(@, event)]
Said(r, kind) == {events[r][i].commit : i \in {j \in DOMAIN events[r] : events[r][j].kind = kind}}

\* `rev-list --count since..commit` is not 0.
IsAheadOf(commit, since) == ~ IsPrefix(commit, since)

\* branch_carries_work: the branch's tip as the round left it.
TipAsLeft(r) ==
  IF Said(r, "committed") = {} THEN rounds[r].start ELSE CHOOSE c \in Said(r, "committed") : TRUE

-----------------------------------------------------------------------------
(* Slips to check the properties against; no definition below uses them.   *)

\* Leaves the loop over the attempts as if the last had worked.
IgnoresLastFailure(r) ==
  LET tried == rounds[r].attempts + 1
  IN  Becomes(r, IF tried = PushAttempts THEN [rounds[r] EXCEPT !.pc = "verifying", !.attempts = 0]
                 ELSE [rounds[r] EXCEPT !.attempts = tried])

\* Counts the attempts from the wrong end.
TriesOnceMore(r) ==
  LET tried == rounds[r].attempts + 1
  IN  Becomes(r, IF tried > PushAttempts
                 THEN [rounds[r] EXCEPT !.pc = "verifying", !.attempts = 0, !.lost = TRUE]
                 ELSE [rounds[r] EXCEPT !.attempts = tried])

\* Takes work that could not be preserved for no work.
TakesLostForNone(round, ruling) ==
  LET saved == {<<[kind |-> "committed", commit |-> c], Saying("pushed")>> : c \in round.work}
      work == IF saved = {} THEN <<>> ELSE CHOOSE w \in saved : TRUE
  IN  work \o (IF round.agentFailed \/ ruling = "interrupted" THEN <<Saying("failed")>>
               ELSE IF ruling = "rejected" THEN <<Saying("verifyRejected"), Saying("failed")>>
               ELSE <<Saying("passed")>>)

\* Commits what is staged, and stages nothing.
CommitsStagedOnly(r) == [head |-> rounds[r].head, dirty |-> rounds[r].dirty]

\* Leases the branch at the round's start, as a claim does, and forces the push.
LeasesItsStart(r) == \A tip \in branch : tip = rounds[r].start

\* Delivers whatever the verdict.
DeliversAny(r) == IsAheadOf(TipAsLeft(r), rounds[r].base)

\* Hands its commands a token nobody cancels.
IsGivenAnotherToken(r) == FALSE

-----------------------------------------------------------------------------

Init ==
  /\ branch = {<<>>} /\ merged = <<>> /\ pullRequest = "none"
  /\ rounds = [r \in Rounds |-> NotStarted]
  /\ events = [r \in Rounds |-> <<>>]
  /\ published = {<<>>} /\ judged = [r \in Rounds |-> {}] /\ deleted = 0

\* The clone, and the base in it.
PinBase(r) ==
  /\ At(r, "cloning")
  /\ Becomes(r, [rounds[r] EXCEPT !.pc = "pinned", !.base = merged])
  /\ UNCHANGED <<remote, events, judged>>

\* job_branch_tip; the token was looked at before it.
PinTip(r) ==
  /\ At(r, "pinned")
  /\ \E tip \in branch : Becomes(r, [rounds[r] EXCEPT !.pc = "starting", !.start = tip])
  /\ UNCHANGED <<remote, events, judged>>

\* A RunRefused -- the clone, the base, the config, no branch, cancelled -- is
\* printed, and no event says so.
Refused(r) ==
  /\ At(r, "cloning") \/ At(r, "pinned")
  /\ Over(r)
  /\ UNCHANGED <<remote, events, judged>>

StartRound(r) ==
  /\ At(r, "starting")
  /\ \/ /\ Becomes(r, [rounds[r] EXCEPT !.pc = "provisioning", !.head = rounds[r].start])
        /\ UNCHANGED events
     \/ Over(r) /\ Send(r, Saying("failed"))
  /\ UNCHANGED <<remote, judged>>

\* `mise`, out of time, failed or cancelled, fails the round there.
Provision(r) ==
  /\ At(r, "provisioning")
  /\ \/ Goes(r, "agent")
     \/ Becomes(r, [rounds[r] EXCEPT !.pc = "recording", !.say = <<Saying("failed")>>])
  /\ UNCHANGED <<remote, events, judged>>

\* What an agent may have made of the checkout: commits of its own, after the
\* start or instead of it, the branch reset, changes in the tree.
LeftBy(r) ==
  LET start == rounds[r].start
      before == IF start = <<>> THEN {} ELSE {Front(start)}
  IN  [head : {start, Append(start, r)} \cup before \cup {Append(c, r) : c \in before},
       dirty : BOOLEAN]

AgentStops(r, failed) ==
  /\ At(r, "agent")
  /\ \E left \in LeftBy(r) :
       Becomes(r, [rounds[r] EXCEPT !.pc = "committing", !.agentFailed = failed,
                                    !.head = left.head, !.dirty = left.dirty])
  /\ UNCHANGED <<remote, events, judged>>

\* The token every command of the round is given.
SeesCancel(r) == rounds[r].cancelled

\* It exits, is out of time or cannot be spawned ...
AgentExits(r) == \E failed \in BOOLEAN : AgentStops(r, failed)

\* ... or is cancelled.
AgentCancelled(r) == SeesCancel(r) /\ AgentStops(r, TRUE)

\* commit_all: `add -A`, and a commit if anything is staged.
CommitAll(r) ==
  [head |-> IF rounds[r].dirty THEN Append(rounds[r].head, r) ELSE rounds[r].head,
   dirty |-> FALSE]

\* Work is whatever the start does not have; a git step that fails, before the
\* commit is made or after, loses it.
CommitWork(r) ==
  LET tree == CommitAll(r)
      done == [rounds[r] EXCEPT !.head = tree.head, !.dirty = tree.dirty]
  IN
  /\ At(r, "committing")
  /\ \/ IF IsAheadOf(tree.head, rounds[r].start)
        THEN Becomes(r, [done EXCEPT !.pc = "pushing", !.work = {tree.head}])
        ELSE Becomes(r, [done EXCEPT !.pc = "verifying"])
     \/ \E round \in {rounds[r], done} :
          Becomes(r, [round EXCEPT !.pc = "verifying", !.lost = TRUE])
  /\ UNCHANGED <<remote, events, judged>>

\* The next attempt, unless this was the last.
PushFails(r) ==
  LET tried == rounds[r].attempts + 1
  IN  Becomes(r, IF tried = PushAttempts
                 THEN [rounds[r] EXCEPT !.pc = "verifying", !.attempts = 0, !.lost = TRUE]
                 ELSE [rounds[r] EXCEPT !.attempts = tried])

\* The remote takes a new branch, or one it can fast-forward.
FastForwards(r) == \A tip \in branch : IsPrefix(tip, rounds[r].head)

Push(r) ==
  /\ branch' = {rounds[r].head}
  /\ published' = published \cup {rounds[r].head}
  /\ UNCHANGED <<merged, pullRequest, deleted, events, judged>>

PushLands(r) ==
  /\ At(r, "pushing") /\ FastForwards(r)
  /\ Push(r)
  /\ Becomes(r, [rounds[r] EXCEPT !.pc = "verifying", !.attempts = 0])

\* It landed, and the connection was lost before the remote said so.
PushReplyIsLost(r) ==
  /\ At(r, "pushing") /\ FastForwards(r)
  /\ Push(r)
  /\ PushFails(r)

\* Not a fast-forward; or the remote was not reached.
PushIsRefused(r) ==
  /\ At(r, "pushing")
  /\ PushFails(r)
  /\ UNCHANGED <<remote, events, judged>>

\* events_for_completion, with the `?` that puts lost work first: the result is
\* then no ruling's.
EventsForCompletion(round, ruling) ==
  LET saved == {<<[kind |-> "committed", commit |-> c], Saying("pushed")>> : c \in round.work}
      work == IF saved = {} THEN <<>> ELSE CHOOSE w \in saved : TRUE
  IN  IF round.lost THEN <<Saying("failed")>>
      ELSE IF round.agentFailed \/ ruling = "interrupted" THEN work \o <<Saying("failed")>>
      ELSE IF ruling = "rejected" THEN work \o <<Saying("verifyRejected"), Saying("failed")>>
      ELSE work \o <<Saying("passed")>>

Rule(r, ruling) ==
  /\ Becomes(r, [rounds[r] EXCEPT !.pc = "recording", !.agentFailed = FALSE, !.work = {},
                                  !.lost = FALSE, !.cancelled = FALSE,
                                  !.say = EventsForCompletion(rounds[r], ruling)])
  /\ UNCHANGED <<remote, events>>

\* Nothing configured, or an agent that failed: no objection.
NothingToVerify(r) ==
  /\ At(r, "verifying")
  /\ rounds[r].agentFailed \/ ~ HasVerify
  /\ Rule(r, "noObjection")
  /\ UNCHANGED judged

\* It runs in the checkout, even if that could not be preserved.
VerifyRules(r) ==
  /\ At(r, "verifying")
  /\ ~ rounds[r].agentFailed /\ HasVerify
  /\ \E ruling \in {"noObjection", "rejected"} : Rule(r, ruling)
  /\ judged' = [judged EXCEPT ![r] = @ \cup {[head |-> rounds[r].head, dirty |-> rounds[r].dirty]}]

\* Cut off at its limit, or unable to start ...
VerifyInterrupted(r) ==
  /\ At(r, "verifying")
  /\ ~ rounds[r].agentFailed /\ HasVerify
  /\ Rule(r, "interrupted")
  /\ UNCHANGED judged

\* ... or cancelled.
VerifyCancelled(r) == SeesCancel(r) /\ VerifyInterrupted(r)

\* record_completion: one event at a time.
RecordEvent(r) ==
  /\ At(r, "recording") /\ rounds[r].say # <<>>
  /\ Send(r, Head(rounds[r].say))
  /\ Becomes(r, [rounds[r] EXCEPT !.say = Tail(@)])
  /\ UNCHANGED <<remote, judged>>

ToDeliver(r) == Said(r, "passed") # {} /\ IsAheadOf(TipAsLeft(r), rounds[r].base)

\* Then the delivery, or the end; a comparison that cannot be made delivers
\* nothing.  No delivery is cancelled.
Recorded(r) ==
  /\ At(r, "recording") /\ rounds[r].say = <<>>
  /\ \/ ToDeliver(r) /\ Delivers /\ Goes(r, "viewing")
     \/ Over(r)
  /\ UNCHANGED <<remote, events, judged>>

\* `gh pr view`: an open pull request, or anything else.
ViewPullRequest(r) ==
  /\ At(r, "viewing")
  /\ \/ pullRequest = "open" /\ Over(r) /\ Send(r, Saying("pullRequest"))
     \/ Goes(r, "creating") /\ UNCHANGED events
  /\ UNCHANGED <<remote, judged>>

\* `gh pr create`: refused without a branch, with an open pull request and with
\* nothing to merge.
CreatePullRequest(r) ==
  /\ At(r, "creating")
  /\ pullRequest # "open" /\ \E tip \in branch : IsAheadOf(tip, merged)
  /\ pullRequest' = "open"
  /\ Goes(r, "opened")
  /\ UNCHANGED <<branch, merged, published, deleted, events, judged>>

\* A refusal, a `gh` that is not there: a line of output.
NotDelivered(r) ==
  /\ At(r, "creating")
  /\ Over(r)
  /\ UNCHANGED <<remote, events, judged>>

RecordDelivery(r) ==
  /\ At(r, "opened")
  /\ Over(r)
  /\ Send(r, Saying("pullRequest")) \/ UNCHANGED events
  /\ UNCHANGED <<remote, judged>>

\* The process ends at any point, with its checkout: killed, or with nowhere
\* to write its frames.
Killed(r) ==
  /\ ~ At(r, "over")
  /\ Over(r)
  /\ UNCHANGED <<remote, events, judged>>

\* SIGTERM; nothing after `verify` looks at the token.
Cancel(r) ==
  /\ rounds[r].pc \in Stoppable /\ ~ rounds[r].cancelled
  /\ Becomes(r, [rounds[r] EXCEPT !.cancelled = TRUE])
  /\ UNCHANGED <<remote, events, judged>>

Merge ==
  /\ pullRequest = "open"
  /\ pullRequest' = "merged"
  /\ \E tip \in branch : merged' = tip
  /\ UNCHANGED <<branch, published, deleted, rounds, events, judged>>

\* Its pull request, if open, is closed with it.
DeleteBranch ==
  /\ branch # {} /\ deleted < MaxDeletions
  /\ branch' = {} /\ deleted' = deleted + 1
  /\ pullRequest' = IF pullRequest = "open" THEN "none" ELSE pullRequest
  /\ UNCHANGED <<merged, published, rounds, events, judged>>

\* What comes to its end by itself; an agent and a `verify` need not.
RoundStep(r) ==
  \/ PinBase(r) \/ PinTip(r) \/ Refused(r) \/ StartRound(r) \/ Provision(r)
  \/ AgentCancelled(r) \/ CommitWork(r) \/ PushLands(r) \/ PushReplyIsLost(r) \/ PushIsRefused(r)
  \/ NothingToVerify(r) \/ VerifyCancelled(r) \/ RecordEvent(r) \/ Recorded(r)
  \/ ViewPullRequest(r) \/ CreatePullRequest(r) \/ NotDelivered(r) \/ RecordDelivery(r)

Next ==
  \/ \E r \in Rounds : RoundStep(r) \/ AgentExits(r) \/ VerifyRules(r) \/ VerifyInterrupted(r)
                       \/ Killed(r) \/ Cancel(r)
  \/ Merge \/ DeleteBranch

Spec == Init /\ [][Next]_vars

\* git, `mise` within its limit, and `gh` come to an end; a command stops when
\* it is cancelled.
FairSpec == Spec /\ \A r \in Rounds : WF_vars(RoundStep(r))

-----------------------------------------------------------------------------

TypeOK ==
  /\ branch \subseteq published /\ published \subseteq Commit
  /\ merged \in Commit /\ pullRequest \in {"none", "open", "merged"}
  /\ rounds \in [Rounds -> Round]
  /\ events \in [Rounds -> Seq(Event)]
  /\ judged \in [Rounds -> SUBSET [head : Commit, dirty : BOOLEAN]]
  /\ deleted \in 0 .. MaxDeletions

\* "Work is committed and pushed before the verdict is reached": whatever a
\* round says it committed has been on the job's branch -- after any number of
\* attempts, replies lost, refusals and a branch deleted meanwhile.
RecordedWorkIsPublished ==
  \A r \in Rounds : Said(r, "committed") \subseteq published

\* Nor does one round take another's off again, though rounds that push to one
\* branch know nothing of each other: after refusals and lost replies the
\* branch has what every one of them recorded, failed or passed, and the tip
\* every one that passed was judged to leave -- unless somebody deleted it.
RecordedWorkStays ==
  deleted = 0 => \A r \in Rounds, tip \in branch :
    /\ \A c \in Said(r, "committed") : IsPrefix(c, tip)
    /\ Said(r, "passed") # {} => IsPrefix(TipAsLeft(r), tip)

\* "A round that cannot push fails": a round that passed has left nothing in
\* its checkout, committed or not, that the branch has not had.
PassedRoundsLoseNothing ==
  \A r \in Rounds : Said(r, "passed") # {} =>
    ~ rounds[r].dirty /\ \E c \in published : IsPrefix(rounds[r].head, c)

\* `verify` judges "exactly the tree the branch carries", if the round left
\* work there.
VerdictIsAboutTheRecordedWork ==
  \A r \in Rounds : HasVerify /\ Said(r, "passed") # {} =>
    \A c \in Said(r, "committed") : judged[r] = {[head |-> c, dirty |-> FALSE]}

\* As the code has it, for every round that passed.
VerifyJudgesTheBranch ==
  \A r \in Rounds : HasVerify /\ Said(r, "passed") # {} =>
    judged[r] = {[head |-> TipAsLeft(r), dirty |-> FALSE]}

\* A pull request is opened only by a round that passed, for a tip the branch
\* has had and the round's base has not; if nobody deleted the branch, it has
\* that tip still, whatever rounds have come after.
PullRequestsFollowAPass ==
  [][\A r \in Rounds : rounds'[r].pc = "opened" /\ ~ At(r, "opened") =>
       /\ Said(r, "passed") # {}
       /\ TipAsLeft(r) \in published /\ IsAheadOf(TipAsLeft(r), rounds[r].base)
       /\ deleted = 0 => \A tip \in branch : IsPrefix(TipAsLeft(r), tip)]_vars

\* A round told to stop is over in the end, though its agent or its `verify`
\* would run forever: each is given the token, and nothing else waits for one.
CancelledRoundsEnd == \A r \in Rounds : rounds[r].cancelled ~> At(r, "over")
=============================================================================
