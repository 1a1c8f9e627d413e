------------------------------- MODULE Claim -------------------------------
(***************************************************************************)
(* Claiming a job's id: its branch on the remote is created before         *)
(* anything else happens.  Claimers know nothing of each other: daemons on *)
(* other roots, `run`s in anybody's clone, people who push and delete      *)
(* branches by hand.  A daemon then makes the job's directory, and later   *)
(* lets the job be continued unless the remote says it lacks its branch.   *)
(*                                                                         *)
(* Submits to one daemon for one repository hold the repository's lock     *)
(* from before the claim until the request is recorded, so a daemon is one *)
(* claimer.  Commits a job can start from are numbered along one line of   *)
(* history.                                                                *)
(***************************************************************************)
EXTENDS Naturals, FiniteSets

CONSTANTS
  Daemons,       \* each on a root of its own
  Runs,          \* `assembly-line run`s, with no root
  Somebody,      \* who pushes a branch by hand
  MaxId,         \* the last id there is
  Bases,         \* the commits
  ClaimAttempts, \* ids a claim tries before giving up
  MaxCreations,  \* bound: branches created
  MaxDeletions   \* bound: branches deleted

Claimers == Daemons \cup Runs

ASSUME ClaimersAssumption == Daemons \cap Runs = {} /\ Somebody \notin Claimers
ASSUME ClaimBounds ==
  /\ MaxId \in Nat \ {0} /\ Bases \subseteq Nat \ {0} /\ ClaimAttempts \in Nat \ {0}
  /\ MaxCreations \in Nat /\ MaxDeletions \in Nat

VARIABLES
  branches,  \* the remote: [Ids -> Branch or NoBranch]
  claiming,  \* [Claimers -> the claim each is at, or Idle]
  jobs,      \* [Daemons -> [Ids -> the claim its directory is of, or 0]]
  \* history and bounds
  claims,    \* claims that have returned an id
  continued, \* revises accepted: the claim of the job, and of the branch seen
  created,   \* branches created so far: the number of the last
  deleted    \* branches deleted so far

vars == <<branches, claiming, jobs, claims, continued, created, deleted>>

Ids == 0 .. MaxId
NoId == MaxId + 1
Branch == [claim : 1 .. MaxCreations, by : Claimers \cup {Somebody}, commit : Bases]
NoBranch == [claim |-> 0, by |-> Somebody, commit |-> 0]
Taken == {i \in Ids : branches[i] # NoBranch}

\* `since`: how many branches had been created when the claim began.
Idle == [pc |-> "idle", base |-> 0, id |-> NoId, attempts |-> 0, since |-> 0]
Claiming ==
  [pc : {"idle", "listing", "pushing", "updating", "claimed"}, base : Bases \cup {0},
   id : 1 .. NoId, attempts : 0 .. ClaimAttempts - 1, since : 0 .. MaxCreations]

Highest(taken) == CHOOSE i \in taken \cup {0} : \A k \in taken : k <= i
At(c, pc) == claiming[c].pc = pc
Goes(c, to) == claiming' = [claiming EXCEPT ![c] = to]
Returned(c) == [claim |-> branches'[claiming[c].id].claim, by |-> c,
                id |-> claiming[c].id, base |-> claiming[c].base]

-----------------------------------------------------------------------------
(* Slips to check the properties against; no definition below uses them.   *)

\* Adds one with no look at the last id.
WrapsAround(taken) == (Highest(taken) + 1) % (MaxId + 1)

\* Counts the branches.
CountsThem(taken) == Cardinality(taken) + 1

\* Takes "up to date" for created.
TakesUpToDateForCreated(c) ==
  /\ At(c, "pushing")
  /\ LET there == branches[claiming[c].id] IN
     \/ there = NoBranch /\ Goes(c, [claiming[c] EXCEPT !.pc = "updating"]) /\ UNCHANGED claims
     \/ /\ there.commit = claiming[c].base
        /\ Goes(c, [claiming[c] EXCEPT !.pc = "claimed"])
        /\ claims' = claims \cup {[claim |-> there.claim, by |-> c, id |-> claiming[c].id,
                                   base |-> claiming[c].base]}
  /\ UNCHANGED <<branches, jobs, continued, created, deleted>>

\* Makes the directory whether or not there is one.
TakesOver(d) ==
  /\ At(d, "claimed")
  /\ jobs' = [jobs EXCEPT ![d][claiming[d].id] =
                CHOOSE k \in {c.claim : c \in claims} : \A c \in claims : c.by = d => c.claim <= k]
  /\ Goes(d, Idle)
  /\ UNCHANGED <<branches, claims, continued, created, deleted>>

-----------------------------------------------------------------------------

\* job_id_past: one past the highest job branch, if there is such an id.
JobIdPast(taken) == IF Highest(taken) = MaxId THEN NoId ELSE Highest(taken) + 1

Init ==
  /\ branches = [i \in Ids |-> NoBranch]
  /\ claiming = [c \in Claimers |-> Idle]
  /\ jobs = [d \in Daemons |-> [i \in Ids |-> 0]]
  /\ claims = {} /\ continued = {}
  /\ created = 0 /\ deleted = 0

\* The base is pinned and the config has been found runnable.
StartClaim(c) ==
  /\ At(c, "idle")
  /\ \E b \in Bases :
       Goes(c, [Idle EXCEPT !.pc = "listing", !.base = b, !.since = created])
  /\ UNCHANGED <<branches, jobs, claims, continued, created, deleted>>

\* `git ls-remote`; the claim fails if the last id is taken.
ListsBranches(c) ==
  /\ At(c, "listing")
  /\ LET next == JobIdPast(Taken)
     IN  Goes(c, IF next = NoId THEN Idle
                 ELSE [claiming[c] EXCEPT !.pc = "pushing", !.id = next])
  /\ UNCHANGED <<branches, jobs, claims, continued, created, deleted>>

\* The next attempt lists again, unless this was the last.
LosesAttempt(c) ==
  LET lost == claiming[c].attempts + 1
  IN  Goes(c, IF lost = ClaimAttempts THEN Idle
              ELSE [claiming[c] EXCEPT !.pc = "listing", !.id = NoId, !.attempts = lost])

\* The push is told what the remote has.  A branch at the very commit is "up to
\* date" ("="), any other breaks the lease ("[rejected]"): both are lost.
PushNegotiates(c) ==
  /\ At(c, "pushing")
  /\ IF branches[claiming[c].id] = NoBranch
     THEN Goes(c, [claiming[c] EXCEPT !.pc = "updating"])
     ELSE LosesAttempt(c)
  /\ UNCHANGED <<branches, jobs, claims, continued, created, deleted>>

\* The remote creates a branch where there is none, in one step.
Create(i, who, commit) ==
  /\ branches[i] = NoBranch
  /\ created < MaxCreations
  /\ created' = created + 1
  /\ branches' = [branches EXCEPT ![i] = [claim |-> created + 1, by |-> who, commit |-> commit]]

\* It says so ("*") ...
PushCreates(c) ==
  /\ At(c, "updating")
  /\ Create(claiming[c].id, c, claiming[c].base)
  /\ claims' = claims \cup {Returned(c)}
  /\ Goes(c, [claiming[c] EXCEPT !.pc = "claimed"])
  /\ UNCHANGED <<jobs, continued, deleted>>

\* ... or the connection is lost first, and the claim fails with it there.
PushReplyIsLost(c) ==
  /\ At(c, "updating")
  /\ Create(claiming[c].id, c, claiming[c].base)
  /\ Goes(c, Idle)
  /\ UNCHANGED <<jobs, claims, continued, deleted>>

\* "Reference already exists": it came to be after both sides saw it absent.
PushLosesItsRace(c) ==
  /\ At(c, "updating")
  /\ branches[claiming[c].id] # NoBranch
  /\ LosesAttempt(c)
  /\ UNCHANGED <<branches, jobs, claims, continued, created, deleted>>

ClaimInHand(c) ==
  CHOOSE k \in claims : k.by = c /\ \A l \in claims : l.by = c => l.claim <= k.claim

\* new_job: a directory of this id refuses the job, the branch staying where it
\* is; else the directory is made and the request recorded.
CreateJob(d) ==
  /\ At(d, "claimed")
  /\ jobs' = IF jobs[d][claiming[d].id] # 0 THEN jobs
             ELSE [jobs EXCEPT ![d][claiming[d].id] = ClaimInHand(d).claim]
  /\ Goes(d, Idle)
  /\ UNCHANGED <<branches, claims, continued, created, deleted>>

\* A remote that cannot be reached, a client that hangs up, a process that
\* ends -- a `run` with its round --, at any point.
ClaimerStops(c) ==
  /\ ~ At(c, "idle")
  /\ Goes(c, Idle)
  /\ UNCHANGED <<branches, jobs, claims, continued, created, deleted>>

\* continued_job: the job is known here, and the remote has not answered that
\* it lacks its branch: it has one, or did not answer, and none was seen (0).
ContinueJob(d, i) ==
  /\ At(d, "idle")
  /\ jobs[d][i] # 0
  /\ \E seen \in {branches[i].claim, 0} :
       continued' = continued \cup {[job |-> jobs[d][i], branch |-> seen]}
  /\ UNCHANGED <<branches, claiming, jobs, claims, created, deleted>>

SomebodyPushes(i) ==
  /\ \E b \in Bases : Create(i, Somebody, b)
  /\ UNCHANGED <<claiming, jobs, claims, continued, deleted>>

\* Merged, or abandoned.
BranchDeleted(i) ==
  /\ branches[i] # NoBranch
  /\ deleted < MaxDeletions
  /\ deleted' = deleted + 1
  /\ branches' = [branches EXCEPT ![i] = NoBranch]
  /\ UNCHANGED <<claiming, jobs, claims, continued, created>>

ClaimStep(c) ==
  \/ StartClaim(c) \/ ListsBranches(c) \/ PushNegotiates(c) \/ PushCreates(c)
  \/ PushReplyIsLost(c) \/ PushLosesItsRace(c) \/ ClaimerStops(c)

Next ==
  \/ \E c \in Claimers : ClaimStep(c)
  \/ \E d \in Daemons : CreateJob(d)
  \/ \E d \in Daemons, i \in Ids : ContinueJob(d, i)
  \/ \E i \in Ids : SomebodyPushes(i) \/ BranchDeleted(i)

Spec == Init /\ [][Next]_vars

-----------------------------------------------------------------------------

\* No claimer ever tries job 0, which only a push by hand can make.
TypeOK ==
  /\ branches \in [Ids -> Branch \cup {NoBranch}]
  /\ claiming \in [Claimers -> Claiming]
  /\ jobs \in [Daemons -> [Ids -> 0 .. MaxCreations]]
  /\ claims \subseteq [claim : 1 .. MaxCreations, by : Claimers, id : Ids, base : Bases]
  /\ continued \subseteq [job : 1 .. MaxCreations, branch : 0 .. MaxCreations]
  /\ created \in 0 .. MaxCreations /\ deleted \in 0 .. MaxDeletions

\* No two claims ever return one branch, whatever claimers that know nothing of
\* each other do: the branch is that of the claimer's own push, and starts
\* where the claim was to start.
ClaimsAreOfOwnBranches ==
  /\ \A k, l \in claims : k.claim = l.claim => k = l
  /\ \A k \in claims : branches[k.id].claim = k.claim =>
       branches[k.id].by = k.by /\ branches[k.id].commit = k.base

\* A job known to a daemon was claimed by that daemon, under that id, and its
\* directory is never given to a later claim of the id: its branch was
\* deleted on the remote, the record of its rounds was not.
JobsAreNotTakenOver ==
  [][\A d \in Daemons, i \in Ids :
       jobs'[d][i] # jobs[d][i] =>
         /\ jobs[d][i] = 0
         /\ \E k \in claims : k.claim = jobs'[d][i] /\ k.by = d /\ k.id = i]_vars

\* "Each loss means another claimer took the id between our listing and our
\* push": however branches come and go, a claim loses no attempt to a branch
\* that was there before it looked.
LossesAreOthersClaims ==
  \A c \in Claimers : claiming[c].attempts <= created - claiming[c].since

\* "The claim and the work are the same object": a revise continues the branch
\* of its job's own claim, never that of another's.
RevisesContinueTheirOwnBranch ==
  \A r \in continued : (\E k \in claims : k.claim = r.branch) => r.branch = r.job
=============================================================================
