--------------------------- MODULE JobDaemonProofs ---------------------------
(***************************************************************************)
(* What the scheduler's state may be, why every request gets one verdict   *)
(* whatever interleaves, why the cap holds, and that the daemon implements *)
(* JobLifecycle.                                                           *)
(*                                                                         *)
(* None of the scheduler's promises is inductive alone.  A cancel in line  *)
(* may close the job only because no task is about to judge it, which      *)
(* needs the cancel table to lead to every task yet to be judged; that     *)
(* needs at most one such task, which needs each task to agree with its    *)
(* job's log; and after a restart that needs what the daemon owes a job to *)
(* be what the log still says.  RoundsInv is those facts together.         *)
(***************************************************************************)
EXTENDS JobDaemon, FiniteSetTheorems, SequenceTheorems, TLAPS

USE DEF logVars, serveVars, queueVars, tableVars, tallyVars, submitVars

-----------------------------------------------------------------------------
(* What each kind of assignment keeps typed.                               *)

LEMMA KeptIsTyped ==
  /\ LogTyped    /\ UNCHANGED logVars    => LogTyped'
  /\ WorldTyped  /\ UNCHANGED world      => WorldTyped'
  /\ ServeTyped  /\ UNCHANGED serveVars  => ServeTyped'
  /\ QueueTyped  /\ UNCHANGED queueVars  => QueueTyped'
  /\ TableTyped  /\ UNCHANGED tableVars  => TableTyped'
  /\ TaskTyped   /\ UNCHANGED pc         => TaskTyped'
  /\ TallyTyped  /\ UNCHANGED tallyVars  => TallyTyped'
  /\ SubmitTyped /\ UNCHANGED submitVars => SubmitTyped'
  BY DEF LogTyped, WorldTyped, ServeTyped, QueueTyped, TableTyped, TaskTyped,
         TallyTyped, SubmitTyped

\* The fold's steps stay in the bounds of the rounds they are given.
LEMMA FoldIsTyped ==
  ASSUME NEW p \in LoggedReports, NEW r \in 0 .. MaxRequests
  PROVE  /\ AfterRoundRequested(p, r) \in LoggedReports
         /\ AfterRoundStarted(p, r)   \in LoggedReports
         /\ AfterRoundLaunched(p, r)  \in LoggedReports
         /\ AfterRoundPassed(p)       \in LoggedReports
         /\ AfterRoundFailed(p)       \in LoggedReports
<1> USE BoundsAssumption DEF LoggedReports, JobState, NoHandle
<1>1. AfterRoundRequested(p, r) \in LoggedReports
  BY DEF AfterRoundRequested
<1>2. AfterRoundStarted(p, r) \in LoggedReports
  BY DEF AfterRoundStarted
<1>3. AfterRoundLaunched(p, r) \in LoggedReports
  BY DEF AfterRoundLaunched
<1>4. AfterRoundPassed(p) \in LoggedReports
  BY DEF AfterRoundPassed
<1>5. AfterRoundFailed(p) \in LoggedReports
  BY DEF AfterRoundFailed
<1> QED BY <1>1, <1>2, <1>3, <1>4, <1>5

LEMMA AppendIsTyped ==
  ASSUME LogTyped, NEW j \in Jobs, NEW after \in LoggedReports
  PROVE  /\ Log(j, after) /\ UNCHANGED <<unanswered, clock>> => LogTyped'
         /\ LogVerdict(j, after) => LogTyped'
  BY DEF LogTyped, Log, LogVerdict

LEMMA MoveIsTyped ==
  ASSUME TaskTyped, NEW j \in Jobs, NEW r \in Rounds, NEW to \in TaskPc,
         Move(j, r, to)
  PROVE  TaskTyped'
  BY DEF TaskTyped, Move

LEMMA LockIsTyped ==
  ASSUME SubmitTyped, NEW j \in Jobs, NEW who \in Holders,
         Hold(j, who) \/ Release(j, who)
  PROVE  /\ repoLock' \in [Repos -> Holders]
         /\ UNCHANGED submit => SubmitTyped'
<1>1. repoLock' \in [Repos -> Holders]
  BY DEF SubmitTyped, Hold, Release, Holders
<1> QED BY <1>1 DEF SubmitTyped

LEMMA SubmitIsTyped ==
  ASSUME SubmitTyped, NEW j \in Jobs, NEW to \in SubmitPc,
         submit' = [submit EXCEPT ![j] = to], repoLock' \in [Repos -> Holders]
  PROVE  SubmitTyped'
  BY DEF SubmitTyped

LEMMA ReportOf ==
  ASSUME LogTyped, NEW j \in Jobs
  PROVE  /\ report[j] \in LoggedReports
         /\ report[j].state \in JobState
         /\ report[j].rounds \in 0 .. MaxRequests
         /\ report[j].launched \in 0 .. MaxRequests
  BY DEF LogTyped, LoggedReports

\* The line a starting daemon makes is a sequence of jobs.
LEMMA LineIsTyped ==
  ASSUME NEW S \in SUBSET Jobs, NEW line \in InRequestOrder(S)
  PROVE  line \in Seq(Jobs)
<1>1. Cardinality(S) \in Nat
  BY JobsAssumption, FS_Subset, FS_CardinalityType
<1>2. line \in [1 .. Cardinality(S) -> Jobs]
  BY DEF InRequestOrder
<1> QED BY <1>1, <1>2, SeqDef

-----------------------------------------------------------------------------
(* Type correctness, by the parts of Next.                                 *)

LEMMA DaemonGoneIsTyped ==
  ASSUME TypeOK, DaemonGone, unclean' \in 0 .. MaxUnclean
  PROVE  TypeOK'
<1> USE DEF TypeOK, DaemonGone
<1>1. LogTyped' /\ WorldTyped'
  BY KeptIsTyped
<1>2. ServeTyped'
  BY BoundsAssumption DEF ServeTyped, Phase, Owed, OwedNothing
<1>3. QueueTyped'
  BY DEF QueueTyped, Dispatcher
<1>4. TableTyped' /\ TaskTyped' /\ TallyTyped'
  BY BoundsAssumption DEF TableTyped, TaskTyped, TaskPc, TallyTyped
<1>5. SubmitTyped'
  BY DEF SubmitTyped, SubmitPc, Holders
<1> QED BY <1>1, <1>2, <1>3, <1>4, <1>5

LEMMA ServeIsTyped ==
  ASSUME TypeOK,
         StartDaemon \/ ShutDown \/ ExitSettled \/ ExitGraceOver \/ Crash \/ DropSlot
  PROVE  TypeOK'
<1> USE KeptIsTyped DEF TypeOK
<1>1. CASE StartDaemon
  <2>1. \A j \in Jobs : ResumptionFor(report[j]) \in Owed
    BY ReportOf, BoundsAssumption DEF ResumptionFor, Owed
  <2>2. ServeTyped'
    BY <1>1, <2>1, BoundsAssumption DEF StartDaemon, RootIsFree, ServeTyped, Phase
  <2> QED BY <1>1, <2>2 DEF StartDaemon, RootIsFree
<1>2. CASE ShutDown
  BY <1>2 DEF ShutDown, ServeTyped, Phase
<1>3. CASE ExitSettled
  BY <1>3, DaemonGoneIsTyped DEF ExitSettled, ServeTyped
<1>4. CASE ExitGraceOver
  BY <1>4, DaemonGoneIsTyped, BoundsAssumption DEF ExitGraceOver, ServeTyped
<1>5. CASE Crash
  BY <1>5, DaemonGoneIsTyped, BoundsAssumption DEF Crash, ServeTyped
<1>6. CASE DropSlot
  BY <1>6 DEF DropSlot, TallyTyped
<1> QED BY <1>1, <1>2, <1>3, <1>4, <1>5, <1>6

LEMMA ResumeIsTyped ==
  ASSUME TypeOK, ResumeStep
  PROVE  TypeOK'
<1> USE KeptIsTyped DEF TypeOK
<1>1. ASSUME NEW j \in Jobs, NEW r \in Rounds, ResumeReattach(j, r)
      PROVE  TypeOK'
  <2> USE <1>1 DEF ResumeReattach
  <2>1. ServeTyped'
    BY BoundsAssumption DEF ServeTyped, Owed, OwedNothing
  <2>2. TableTyped'
    BY DEF TableTyped, Rounds
  <2>3. TaskTyped'
    BY MoveIsTyped DEF TaskPc
  <2>4. TallyTyped'
    BY DEF TallyTyped
  <2> QED BY <2>1, <2>2, <2>3, <2>4
<1>2. ASSUME NEW j \in Jobs, ResumeLost(j)
      PROVE  TypeOK'
  <2> USE <1>2 DEF ResumeLost
  <2>1. ServeTyped'
    BY BoundsAssumption DEF ServeTyped, Owed, OwedNothing
  <2>2. LogTyped'
    BY ReportOf, FoldIsTyped, AppendIsTyped, BoundsAssumption
  <2> QED BY <2>1, <2>2
<1>3. CASE RequeueAndServe
  <2> USE <1>3 DEF RequeueAndServe
  <2>1. ServeTyped'
    BY BoundsAssumption DEF ServeTyped, Phase, Owed, OwedNothing
  <2>2. QueueTyped'
    BY LineIsTyped DEF QueueTyped, Dispatcher
  <2> QED BY <2>1, <2>2
<1> QED BY <1>1, <1>2, <1>3 DEF ResumeStep

LEMMA RequestIsTyped ==
  ASSUME TypeOK, NEW j \in Jobs, RequestStep(j)
  PROVE  TypeOK'
<1> USE KeptIsTyped DEF TypeOK
<1>1. BySubmit(j) \in Holders
  BY DEF Holders
<1>2. CASE SubmitPreflight(j)
  <2>1. SubmitTyped'
    BY <1>1, <1>2, LockIsTyped, SubmitIsTyped DEF SubmitPreflight, SubmitPc
  <2> QED BY <1>2, <2>1 DEF SubmitPreflight
<1>3. CASE SubmitRefused(j)
  <2>1. SubmitTyped'
    BY <1>1, <1>3, LockIsTyped, SubmitIsTyped DEF SubmitRefused, SubmitPc
  <2> QED BY <1>3, <2>1 DEF SubmitRefused
<1>4. CASE SubmitRecord(j)
  <2>1. clock \in Nat /\ clock + 1 \in 0 .. MaxRequests
    BY <1>4, BoundsAssumption DEF SubmitRecord, LogTyped
  <2>2. AfterRoundRequested(report[j], clock + 1) \in LoggedReports
    BY <2>1, ReportOf, FoldIsTyped
  <2>3. LogTyped'
    BY <1>4, <2>1, <2>2 DEF SubmitRecord, LogTyped, Log
  <2>4. SubmitTyped'
    BY <1>4 DEF SubmitRecord, SubmitTyped, SubmitPc
  <2> QED BY <1>4, <2>3, <2>4 DEF SubmitRecord
<1>5. CASE SubmitEnqueue(j)
  <2>1. SubmitTyped'
    BY <1>1, <1>5, LockIsTyped, SubmitIsTyped DEF SubmitEnqueue, SubmitPc
  <2>2. QueueTyped'
    BY <1>5 DEF SubmitEnqueue, QueueTyped
  <2> QED BY <1>5, <2>1, <2>2 DEF SubmitEnqueue
<1>6. CASE CancelQueued(j)
  BY <1>6, ReportOf, FoldIsTyped, AppendIsTyped, BoundsAssumption DEF CancelQueued
<1>7. ASSUME NEW r \in Rounds, CancelLaunched(j, r)
      PROVE  TypeOK'
  BY <1>7 DEF CancelLaunched, TableTyped
<1> QED BY <1>2, <1>3, <1>4, <1>5, <1>6, <1>7 DEF RequestStep

LEMMA DispatcherIsTyped ==
  ASSUME TypeOK, DispatcherStep
  PROVE  TypeOK'
<1> USE KeptIsTyped DEF TypeOK
<1>1. CASE DispatcherReceives
  BY <1>1 DEF DispatcherReceives, QueueTyped, Dispatcher
<1>2. CASE DispatcherFindsSlot
  BY <1>2 DEF DispatcherFindsSlot, QueueTyped, Dispatcher
<1>3. CASE DispatcherSkips
  BY <1>3 DEF DispatcherSkips, QueueTyped, Dispatcher
<1>4. CASE DispatcherReturns
  BY <1>4 DEF DispatcherReturns, QueueTyped, Dispatcher
<1>5. ASSUME NEW r \in Rounds, DispatcherLaunches(r)
      PROVE  TypeOK'
  <2> USE <1>5 DEF DispatcherLaunches
  <2>1. QueueTyped' /\ TallyTyped'
    BY DEF QueueTyped, Dispatcher, TallyTyped
  <2>2. TableTyped'
    BY DEF TableTyped, Rounds
  <2>3. TaskTyped'
    BY DEF TaskTyped, Move, TaskPc, LaunchingPc
  <2> QED BY <2>1, <2>2, <2>3
<1> QED BY <1>1, <1>2, <1>3, <1>4, <1>5 DEF DispatcherStep

LEMMA TaskIsTyped ==
  ASSUME TypeOK, NEW j \in Jobs, NEW r \in Rounds, TaskStep(j, r)
  PROVE  TypeOK'
<1> USE KeptIsTyped DEF TypeOK
<1>1. r \in 0 .. MaxRequests /\ ByRound(j, r) \in Holders
  BY DEF Rounds, ByRound, Holders
<1>2. \A verdict : LogVerdict(j, AfterRoundFailed(report[j])) => LogTyped'
  BY <1>1, ReportOf, FoldIsTyped, AppendIsTyped
<1>3. CASE HoldCache(j, r)
  BY <1>1, <1>3, MoveIsTyped, LockIsTyped DEF HoldCache, TaskPc, LaunchingPc
<1>4. CASE CancelledBeforeStart(j, r)
  BY <1>1, <1>2, <1>4, MoveIsTyped, LockIsTyped
  DEF CancelledBeforeStart, TaskPc, TallyTyped
<1>5. CASE StopsBeforeStart(j, r)
  BY <1>1, <1>5, MoveIsTyped, LockIsTyped DEF StopsBeforeStart, TaskPc, TallyTyped
<1>6. CASE ConfigRead(j, r)
  BY <1>1, <1>6, MoveIsTyped, LockIsTyped DEF ConfigRead, TaskPc, LaunchingPc
<1>7. CASE StartRound(j, r)
  BY <1>1, <1>7, ReportOf, FoldIsTyped, AppendIsTyped, MoveIsTyped
  DEF StartRound, TaskPc, LaunchingPc
<1>8. CASE ConfigUnreadable(j, r)
  BY <1>2, <1>8, MoveIsTyped DEF ConfigUnreadable, TaskPc, TallyTyped
<1>9. CASE RunnerCreates(j, r)
  BY <1>9 DEF RunnerCreates, WorldTyped, WorldState
<1>10. CASE RoundLaunched(j, r)
  BY <1>1, <1>10, ReportOf, FoldIsTyped, AppendIsTyped, MoveIsTyped
  DEF RoundLaunched, TaskPc, TallyTyped
<1>11. CASE LaunchFails(j, r)
  <2>1. WorldTyped' /\ TallyTyped'
    BY <1>11 DEF LaunchFails, WorldTyped, WorldState, TallyTyped
  <2> QED BY <1>2, <1>11, <2>1, MoveIsTyped DEF LaunchFails, TaskPc
<1>12. CASE Reattached(j, r)
  BY <1>12, MoveIsTyped DEF Reattached, TaskPc
<1>13. CASE ReattachFails(j, r)
  BY <1>2, <1>13, MoveIsTyped DEF ReattachFails, TaskPc
<1>14. CASE CancelReachesRunner(j, r)
  BY <1>14, MoveIsTyped DEF CancelReachesRunner, TaskPc
<1>15. ASSUME NEW verdict \in Verdicts, CollectVerdict(j, r, verdict)
       PROVE  TypeOK'
  BY <1>1, <1>15, ReportOf, FoldIsTyped, AppendIsTyped, MoveIsTyped
  DEF CollectVerdict, TaskPc
<1>16. CASE StreamEnds(j, r)
  BY <1>16, MoveIsTyped DEF StreamEnds, TaskPc
<1>17. CASE VerdictMissing(j, r)
  BY <1>2, <1>17, MoveIsTyped DEF VerdictMissing, TaskPc
<1>18. CASE StreamBreaks(j, r)
  BY <1>18, MoveIsTyped DEF StreamBreaks, TaskPc
<1>19. CASE RoundIsGivenUp(j, r)
  <2>1. WorldTyped'
    BY <1>19 DEF RoundIsGivenUp, WorldTyped, WorldState, EndOf
  <2> QED BY <1>2, <1>19, <2>1, MoveIsTyped DEF RoundIsGivenUp, TaskPc
<1>20. CASE DropRegistration(j, r)
  <2>1. TableTyped' /\ TallyTyped'
    BY <1>20, BoundsAssumption DEF DropRegistration, TableTyped, TallyTyped, EntryAfterDrop
  <2> QED BY <1>20, <2>1, MoveIsTyped DEF DropRegistration, TaskPc
<1> QED BY <1>3, <1>4, <1>5, <1>6, <1>7, <1>8, <1>9, <1>10, <1>11, <1>12, <1>13,
           <1>14, <1>15, <1>16, <1>17, <1>18, <1>19, <1>20 DEF TaskStep, TaskGoesOn

LEMMA WorldIsTyped ==
  ASSUME TypeOK, NEW j \in Jobs, NEW r \in Rounds, WorldStep(j, r)
  PROVE  TypeOK'
<1>1. WorldTyped'
  BY DEF WorldStep, RoundJudged, RoundEnds, RoundDies, RoundObeysCancel, TypeOK,
         WorldTyped, WorldState, EndOf
<1> QED
  BY <1>1, KeptIsTyped
  DEF TypeOK, WorldStep, RoundJudged, RoundEnds, RoundDies, RoundObeysCancel

\* Every reachable state is of its type: no step leaves the range of a table,
\* a tally or a log.
THEOREM TypeCorrect == Spec => []TypeOK
<1>1. Init => TypeOK
  <2> SUFFICES ASSUME Init PROVE TypeOK
    OBVIOUS
  <2> USE BoundsAssumption, RepoAssumption DEF Init
  <2>1. LogTyped
    BY DEF LogTyped, EmptyReport, LoggedReports, JobState, NoHandle
  <2>2. WorldTyped /\ TaskTyped /\ TallyTyped
    BY DEF WorldTyped, WorldState, TaskTyped, TaskPc, TallyTyped
  <2>3. ServeTyped
    BY DEF ServeTyped, Phase, Owed, OwedNothing
  <2>4. QueueTyped
    BY DEF QueueTyped, Dispatcher
  <2>5. TableTyped /\ SubmitTyped
    BY DEF TableTyped, SubmitTyped, SubmitPc, Holders
  <2> QED BY <2>1, <2>2, <2>3, <2>4, <2>5 DEF TypeOK
<1>2. TypeOK /\ [Next]_vars => TypeOK'
  <2> SUFFICES ASSUME TypeOK, [Next]_vars PROVE TypeOK'
    OBVIOUS
  <2>1. CASE UNCHANGED vars
    BY <2>1, KeptIsTyped DEF TypeOK, vars
  <2>2. CASE Next
    BY <2>2, ServeIsTyped, ResumeIsTyped, RequestIsTyped, DispatcherIsTyped,
       TaskIsTyped, WorldIsTyped
    DEF Next
  <2> QED BY <2>1, <2>2
<1> QED BY <1>1, <1>2, PTL DEF Spec

-----------------------------------------------------------------------------
(* The invariant of tasks, table and logs.                                 *)

\* Where a task is whose round has been launched and is not judged yet.
Following == {"reattaching", "collecting", "cancelling", "awaiting", "awaitingStop"}

\* A task is where its job's log says its round is: not started, started, or
\* launched under its own handle.
TasksMatchTheLog ==
  \A j \in Jobs, r \in Rounds :
    /\ pc[j][r] \in {"waiting", "reading", "ready"} =>
         report[j].state = "Queued" /\ r = report[j].rounds + 1
    /\ pc[j][r] \in {"refusing", "launching"} =>
         report[j].state = "Running" /\ r = report[j].rounds /\ report[j].launched = NoHandle
    /\ pc[j][r] \in Following =>
         report[j].state = "Running" /\ r = report[j].rounds /\ report[j].launched = r

\* The handle recorded for a running job is of its latest round.
HandleIsOfTheLatestRound ==
  \A j \in Jobs : report[j].state = "Running" =>
    report[j].launched \in {NoHandle, report[j].rounds}

\* A submit that has passed its check holds for a job nobody has asked for since.
PreflightIsOfAClosedJob == \A j \in Jobs : submit[j] = "preflight" => ~ Open(j)

\* Until it serves, a daemon takes no request and launches nothing; what it
\* owes a job is what the job's log still says, and the job has no task yet.
ResumesFirst ==
  /\ phase = "down" => \A j \in Jobs, r \in Rounds : pc[j][r] = "none"
  /\ phase \in {"down", "resuming"} =>
       dispatcher = "off" /\ \A j \in Jobs : submit[j] = "idle"
  /\ phase = "resuming" =>
       \A j \in Jobs : owed[j] # OwedNothing =>
         /\ owed[j] = ResumptionFor(report[j])
         /\ \A r \in Rounds : pc[j][r] = "none"

\* While a daemon is up, a running job has its task or is still to get it.
RunningJobIsKnown ==
  phase # "down" =>
    \A j \in Jobs : report[j].state = "Running" =>
      \/ phase = "resuming" /\ owed[j] # OwedNothing
      \/ \E r \in Rounds : r = report[j].rounds /\ Unjudged(j, r)

RoundsInv ==
  /\ TasksMatchTheLog
  /\ EntryLeadsToTheUnjudgedTask
  /\ HandleIsOfTheLatestRound
  /\ PreflightIsOfAClosedJob
  /\ ResumesFirst
  /\ RunningJobIsKnown
  /\ OneVerdictPerRequest

-----------------------------------------------------------------------------
(* Facts used throughout.                                                  *)

UnjudgedPc == {"waiting", "reading", "ready", "refusing", "launching"} \cup Following

LEMMA UnjudgedIsOpen ==
  ASSUME TypeOK, TasksMatchTheLog, NEW j \in Jobs, NEW r \in Rounds, Unjudged(j, r)
  PROVE  /\ pc[j][r] \in UnjudgedPc
         /\ Open(j)
         /\ r = IF report[j].state = "Queued" THEN report[j].rounds + 1
                                              ELSE report[j].rounds
<1>1. pc[j][r] \in TaskPc
  BY DEF TypeOK, TaskTyped
<1> QED BY <1>1 DEF Unjudged, TaskPc, LaunchingPc, UnjudgedPc, TasksMatchTheLog, Following, Open

LEMMA EntryIsARound ==
  ASSUME TypeOK
  PROVE  \A j \in Jobs : entry[j] \in Nat /\ (entry[j] # 0 => entry[j] \in Rounds)
  BY BoundsAssumption DEF TypeOK, TableTyped, Rounds

\* At most one task of a job is yet to be judged.
LEMMA OneUnjudgedTask ==
  ASSUME TypeOK, TasksMatchTheLog, NEW j \in Jobs,
         NEW r \in Rounds, NEW s \in Rounds, Unjudged(j, r), Unjudged(j, s)
  PROVE  r = s
  BY UnjudgedIsOpen

\* The entry of a task yet to be judged is the one its job waits on.
LEMMA UnjudgedIsAwaited ==
  ASSUME TypeOK, TasksMatchTheLog, EntryLeadsToTheUnjudgedTask,
         NEW j \in Jobs, NEW r \in Rounds, Unjudged(j, r)
  PROVE  entry[j] = r /\ IsAwaitedBy(entry[j], report[j])
<1>1. entry[j] = r
  BY DEF EntryLeadsToTheUnjudgedTask
<1>2. report[j].rounds \in Nat
  BY ReportOf, BoundsAssumption DEF TypeOK
<1> QED BY <1>1, <1>2, UnjudgedIsOpen DEF IsAwaitedBy, Open

-----------------------------------------------------------------------------
(* The steps, by what they do to a job.                                    *)

\* What RoundsInv reads.
roundVars == <<report, unanswered, pc, entry, submit, phase, owed, dispatcher>>

LEMMA NothingSeen ==
  ASSUME RoundsInv, UNCHANGED roundVars
  PROVE  RoundsInv'
  BY DEF roundVars, RoundsInv, TasksMatchTheLog, Following, EntryLeadsToTheUnjudgedTask,
         HandleIsOfTheLatestRound, PreflightIsOfAClosedJob, ResumesFirst,
         RunningJobIsKnown, OneVerdictPerRequest, Unjudged, Open

\* A task that can still judge its round records the verdict.
LEMMA TaskRecordsVerdict ==
  ASSUME TypeOK, RoundsInv, NEW j \in Jobs, NEW r \in Rounds, Unjudged(j, r),
         NEW state \in Verdicts, LogVerdict(j, [report[j] EXCEPT !.state = state]),
         NEW to \in {"judged", "leaving"}, Move(j, r, to),
         UNCHANGED <<entry, submit, phase, owed, dispatcher>>
  PROVE  RoundsInv'
<1> USE DEF RoundsInv
<1>1. report' = [report EXCEPT ![j] = [report[j] EXCEPT !.state = state]]
  BY DEF LogVerdict, Log
<1>2. report[j] \in LoggedReports /\ report \in [Jobs -> LoggedReports]
  BY ReportOf DEF TypeOK, LogTyped
<1>3. /\ report'[j].state = state
      /\ \A k \in Jobs \ {j} : report'[k] = report[k]
  BY <1>1, <1>2 DEF LoggedReports
<1>4. /\ pc \in [Jobs -> [Rounds -> TaskPc]]
      /\ pc'[j][r] = to
      /\ \A k \in Jobs, s \in Rounds : ~ (k = j /\ s = r) => pc'[k][s] = pc[k][s]
  BY DEF TypeOK, TaskTyped, Move
<1>5. \A s \in Rounds : ~ Unjudged(j, s)'
  BY <1>4, OneUnjudgedTask DEF Unjudged
<1>6. state \notin {"Queued", "Running"} /\ ~ Open(j)'
  BY <1>3 DEF Verdicts, Open
<1>7. TasksMatchTheLog'
  BY <1>3, <1>4, <1>5 DEF TasksMatchTheLog, Following, Unjudged
<1>8. EntryLeadsToTheUnjudgedTask'
  BY <1>4, <1>5, EntryIsARound DEF EntryLeadsToTheUnjudgedTask, Unjudged
<1>9. HandleIsOfTheLatestRound' /\ PreflightIsOfAClosedJob'
  BY <1>3, <1>6 DEF HandleIsOfTheLatestRound, PreflightIsOfAClosedJob, Open
<1>10. ResumesFirst'
  <2>1. pc[j][r] # "none"
    BY DEF Unjudged
  <2>2. phase # "down"
    BY <2>1 DEF ResumesFirst
  <2>3. phase = "resuming" => owed[j] = OwedNothing
    BY <2>1 DEF ResumesFirst
  <2>4. ASSUME phase = "resuming", NEW k \in Jobs, owed[k] # OwedNothing
        PROVE  owed[k] = ResumptionFor(report[k])' /\ \A s \in Rounds : pc'[k][s] = "none"
    <3>1. k # j /\ owed[k] = ResumptionFor(report[k]) /\ \A s \in Rounds : pc[k][s] = "none"
      BY <2>3, <2>4 DEF ResumesFirst
    <3> QED BY <3>1, <2>4, <1>3, <1>4
  <2> QED BY <2>2, <2>4 DEF ResumesFirst, OwedNothing
<1>11. RunningJobIsKnown'
  BY <1>3, <1>4, <1>6 DEF RunningJobIsKnown, Unjudged
<1>12. OneVerdictPerRequest'
  <2>1. Open(j)
    BY UnjudgedIsOpen
  <2>2. unanswered' = [unanswered EXCEPT ![j] = @ - 1] /\ unanswered \in [Jobs -> Int]
    BY DEF LogVerdict, TypeOK, LogTyped
  <2> QED BY <1>3, <1>6, <2>1, <2>2 DEF OneVerdictPerRequest, Open
<1> QED BY <1>7, <1>8, <1>9, <1>10, <1>11, <1>12

\* A task goes on, or gives up a round that has not started.
LEMMA TaskMoves ==
  ASSUME TypeOK, RoundsInv, NEW j \in Jobs, NEW r \in Rounds, NEW to, Move(j, r, to),
         \/ pc[j][r] \in {"waiting", "reading", "ready"} /\ to \in {"waiting", "reading", "ready"}
         \/ pc[j][r] \in Following /\ to \in Following
         \/ pc[j][r] \in {"waiting", "reading", "judged"} /\ to = "leaving",
         UNCHANGED <<report, unanswered, entry, submit, phase, owed, dispatcher>>
  PROVE  RoundsInv'
<1> USE DEF RoundsInv
<1>1. /\ pc'[j][r] = to
      /\ \A k \in Jobs, s \in Rounds : ~ (k = j /\ s = r) => pc'[k][s] = pc[k][s]
  BY DEF TypeOK, TaskTyped, Move
<1>2. pc[j][r] # "none" /\ to # "none"
  BY DEF Following
<1>3. TasksMatchTheLog'
  BY <1>1 DEF TasksMatchTheLog, Following
<1>4. EntryLeadsToTheUnjudgedTask'
  BY <1>1, <1>2, EntryIsARound DEF EntryLeadsToTheUnjudgedTask, Unjudged, Following
<1>5. HandleIsOfTheLatestRound' /\ PreflightIsOfAClosedJob' /\ OneVerdictPerRequest'
  BY DEF HandleIsOfTheLatestRound, PreflightIsOfAClosedJob, OneVerdictPerRequest, Open
<1>6. ResumesFirst'
  BY <1>1, <1>2 DEF ResumesFirst
<1>7. RunningJobIsKnown'
  <2>1. pc[j][r] \in {"waiting", "reading"} => report[j].state = "Queued"
    BY DEF TasksMatchTheLog, Following
  <2>2. ASSUME report[j].state = "Running", Unjudged(j, r)
        PROVE  Unjudged(j, r)'
    BY <2>1, <2>2, <1>1 DEF Unjudged, TasksMatchTheLog, Following
  <2>3. \A k \in Jobs, s \in Rounds :
           report[k].state = "Running" /\ Unjudged(k, s) => Unjudged(k, s)'
    BY <2>2, <1>1 DEF Unjudged
  <2> QED BY <2>3 DEF RunningJobIsKnown
<1> QED BY <1>3, <1>4, <1>5, <1>6, <1>7

\* A task records that its round has started, or that it has launched.
LEMMA TaskRecordsProgress ==
  ASSUME TypeOK, RoundsInv, NEW j \in Jobs, NEW r \in Rounds, NEW to, NEW after,
         \/ /\ pc[j][r] = "ready" /\ to \in {"refusing", "launching"}
            /\ after = AfterRoundStarted(report[j], r)
         \/ /\ pc[j][r] = "launching" /\ to = "collecting"
            /\ after = AfterRoundLaunched(report[j], r),
         Log(j, after), Move(j, r, to),
         UNCHANGED <<unanswered, entry, submit, phase, owed, dispatcher>>
  PROVE  RoundsInv'
<1> USE DEF RoundsInv
<1>1. report[j] \in LoggedReports /\ report \in [Jobs -> LoggedReports]
  BY ReportOf DEF TypeOK, LogTyped
<1>2. /\ pc'[j][r] = to
      /\ \A k \in Jobs, s \in Rounds : ~ (k = j /\ s = r) => pc'[k][s] = pc[k][s]
  BY DEF TypeOK, TaskTyped, Move
<1>3. Unjudged(j, r) /\ Unjudged(j, r)'
  BY <1>2 DEF Unjudged
<1>4. /\ report'[j] = after
      /\ \A k \in Jobs \ {j} : report'[k] = report[k]
  BY <1>1 DEF Log
<1>5. /\ Open(j) /\ after.state = "Running" /\ after.rounds = r
      /\ to \in {"refusing", "launching"} => after.launched = NoHandle
      /\ to = "collecting" => after.launched = r
  <2>1. report[j].rounds \in Nat
    BY <1>1, BoundsAssumption DEF LoggedReports
  <2> QED
    BY <1>1, <2>1 DEF TasksMatchTheLog, Following, Open, AfterRoundStarted, AfterRoundLaunched, LoggedReports
<1>6. \A s \in Rounds : s # r => ~ Unjudged(j, s)
  BY <1>3, OneUnjudgedTask
<1>7. \A k \in Jobs, s \in Rounds : Unjudged(k, s)' <=> Unjudged(k, s)
  BY <1>2, <1>3 DEF Unjudged
<1>8. \A k \in Jobs : Open(k)' <=> Open(k)
  BY <1>4, <1>5 DEF Open
<1>9. TasksMatchTheLog'
  <2>1. \A k \in Jobs, s \in Rounds : k # j => pc'[k][s] = pc[k][s] /\ report'[k] = report[k]
    BY <1>2, <1>4
  <2>2. \A s \in Rounds : s # r => pc'[j][s] \in {"none", "judged", "leaving"}
    BY <1>2, <1>6 DEF Unjudged
  <2> QED BY <1>2, <1>4, <1>5, <2>1, <2>2 DEF TasksMatchTheLog, Following
<1>10. EntryLeadsToTheUnjudgedTask'
  <2>1. to # "none"
    OBVIOUS
  <2> QED BY <1>2, <1>7, <2>1, EntryIsARound DEF EntryLeadsToTheUnjudgedTask
<1>11. HandleIsOfTheLatestRound'
  BY <1>4, <1>5 DEF HandleIsOfTheLatestRound
<1>12. PreflightIsOfAClosedJob' /\ OneVerdictPerRequest'
  BY <1>8 DEF PreflightIsOfAClosedJob, OneVerdictPerRequest
<1>13. ResumesFirst'
  <2>1. phase # "down" /\ (phase = "resuming" => owed[j] = OwedNothing)
    BY <1>3 DEF ResumesFirst, Unjudged
  <2>2. ASSUME phase = "resuming", NEW k \in Jobs, owed[k] # OwedNothing
        PROVE  owed[k] = ResumptionFor(report[k])' /\ \A s \in Rounds : pc'[k][s] = "none"
    <3>1. k # j /\ owed[k] = ResumptionFor(report[k]) /\ \A s \in Rounds : pc[k][s] = "none"
      BY <2>1, <2>2 DEF ResumesFirst
    <3> QED BY <3>1, <2>2, <1>2, <1>4
  <2> QED BY <2>1, <2>2 DEF ResumesFirst, OwedNothing
<1>14. RunningJobIsKnown'
  BY <1>3, <1>4, <1>5, <1>7 DEF RunningJobIsKnown
<1> QED BY <1>9, <1>10, <1>11, <1>12, <1>13, <1>14

\* A task's registration drops: the entry of a later round stays.
LEMMA TaskDrops ==
  ASSUME TypeOK, RoundsInv, NEW j \in Jobs, NEW r \in Rounds, DropRegistration(j, r)
  PROVE  RoundsInv'
<1> USE DEF RoundsInv, DropRegistration
<1>1. /\ pc'[j][r] = "none"
      /\ \A k \in Jobs, s \in Rounds : ~ (k = j /\ s = r) => pc'[k][s] = pc[k][s]
  BY DEF TypeOK, TaskTyped, Move
<1>2. /\ entry'[j] = IF entry[j] = r THEN 0 ELSE entry[j]
      /\ \A k \in Jobs \ {j} : entry'[k] = entry[k]
  BY DEF TypeOK, TableTyped, EntryAfterDrop
<1>3. \A k \in Jobs, s \in Rounds : Unjudged(k, s)' <=> Unjudged(k, s)
  BY <1>1 DEF Unjudged
<1>4. TasksMatchTheLog'
  BY <1>1 DEF TasksMatchTheLog, Following
<1>5. EntryLeadsToTheUnjudgedTask'
  BY <1>1, <1>2, <1>3, EntryIsARound DEF EntryLeadsToTheUnjudgedTask, Unjudged
<1>6. HandleIsOfTheLatestRound' /\ PreflightIsOfAClosedJob' /\ OneVerdictPerRequest'
  BY DEF HandleIsOfTheLatestRound, PreflightIsOfAClosedJob, OneVerdictPerRequest, Open
<1>7. ResumesFirst' /\ RunningJobIsKnown'
  BY <1>1, <1>3 DEF ResumesFirst, RunningJobIsKnown
<1> QED BY <1>4, <1>5, <1>6, <1>7

LEMMA TaskKeepsRoundsInv ==
  ASSUME TypeOK, RoundsInv, NEW j \in Jobs, NEW r \in Rounds, TaskStep(j, r)
  PROVE  RoundsInv'
<1>1. CASE HoldCache(j, r)
  BY <1>1, TaskMoves DEF HoldCache
<1>2. CASE CancelledBeforeStart(j, r)
  BY <1>2, TaskRecordsVerdict DEF CancelledBeforeStart, Unjudged, AfterRoundFailed, Verdicts
<1>3. CASE StopsBeforeStart(j, r)
  BY <1>3, TaskMoves DEF StopsBeforeStart
<1>4. CASE ConfigRead(j, r)
  BY <1>4, TaskMoves DEF ConfigRead
<1>5. CASE StartRound(j, r)
  BY <1>5, TaskRecordsProgress DEF StartRound
<1>6. CASE ConfigUnreadable(j, r)
  BY <1>6, TaskRecordsVerdict DEF ConfigUnreadable, Unjudged, AfterRoundFailed, Verdicts
<1>7. CASE RunnerCreates(j, r)
  BY <1>7, NothingSeen DEF RunnerCreates, roundVars
<1>8. CASE RoundLaunched(j, r)
  BY <1>8, TaskRecordsProgress DEF RoundLaunched
<1>9. CASE LaunchFails(j, r)
  BY <1>9, TaskRecordsVerdict DEF LaunchFails, Unjudged, AfterRoundFailed, Verdicts
<1>10. CASE Reattached(j, r)
  BY <1>10, TaskMoves DEF Reattached, Following
<1>11. CASE ReattachFails(j, r)
  BY <1>11, TaskRecordsVerdict DEF ReattachFails, Unjudged, AfterRoundFailed, Verdicts
<1>12. CASE CancelReachesRunner(j, r)
  BY <1>12, TaskMoves DEF CancelReachesRunner, Following
<1>13. ASSUME NEW verdict \in Verdicts, CollectVerdict(j, r, verdict)
       PROVE  RoundsInv'
  BY <1>13, TaskRecordsVerdict
  DEF CollectVerdict, Unjudged, AfterRoundPassed, AfterRoundFailed, Verdicts
<1>14. CASE StreamEnds(j, r)
  BY <1>14, TaskMoves DEF StreamEnds
<1>15. CASE VerdictMissing(j, r)
  BY <1>15, TaskRecordsVerdict DEF VerdictMissing, Unjudged, AfterRoundFailed, Verdicts
<1>16. CASE StreamBreaks(j, r)
  BY <1>16, TaskMoves DEF StreamBreaks, Following
<1>17. CASE RoundIsGivenUp(j, r)
  <2>1. CASE pc[j][r] = "judged"
    BY <1>17, <2>1, TaskMoves DEF RoundIsGivenUp
  <2>2. CASE pc[j][r] # "judged"
    BY <1>17, <2>2, TaskRecordsVerdict
    DEF RoundIsGivenUp, Unjudged, AfterRoundFailed, Verdicts
  <2> QED BY <2>1, <2>2
<1>18. CASE DropRegistration(j, r)
  BY <1>18, TaskDrops
<1> QED BY <1>1, <1>2, <1>3, <1>4, <1>5, <1>6, <1>7, <1>8, <1>9, <1>10, <1>11,
           <1>12, <1>13, <1>14, <1>15, <1>16, <1>17, <1>18 DEF TaskStep, TaskGoesOn

\* A job with no task yet to be judged is given one: launched from the line,
\* or reattached to.
LEMMA TaskSpawned ==
  ASSUME TypeOK, RoundsInv, NEW j \in Jobs, NEW r \in Rounds, NEW to, Move(j, r, to),
         entry' = [entry EXCEPT ![j] = r],
         UNCHANGED <<report, unanswered, submit>>,
         \/ /\ to = "waiting" /\ report[j].state = "Queued"
            /\ r = report[j].rounds + 1
            /\ dispatcher = "slotFree" /\ dispatcher' = "receiving"
            /\ UNCHANGED <<phase, owed>>
         \/ /\ to = "reattaching" /\ phase = "resuming"
            /\ owed[j] = [owes |-> "Reattach", round |-> r]
            /\ owed' = [owed EXCEPT ![j] = OwedNothing]
            /\ UNCHANGED <<phase, dispatcher>>
  PROVE  RoundsInv'
<1> USE DEF RoundsInv
<1>1. /\ pc'[j][r] = to
      /\ \A k \in Jobs, s \in Rounds : ~ (k = j /\ s = r) => pc'[k][s] = pc[k][s]
  BY DEF TypeOK, TaskTyped, Move
<1>2. /\ entry'[j] = r
      /\ \A k \in Jobs \ {j} : entry'[k] = entry[k]
  BY DEF TypeOK, TableTyped
<1>3. report[j].rounds \in Nat /\ r \in Nat \ {0}
  BY ReportOf, BoundsAssumption DEF TypeOK, Rounds
<1>4. phase = "down" \/ phase = "resuming" => to = "reattaching"
  BY DEF ResumesFirst
<1>5. phase # "down"
  BY DEF ResumesFirst
<1>6. ASSUME to = "reattaching"
      PROVE  /\ owed[j] # OwedNothing
             /\ report[j].state = "Running" /\ r = report[j].rounds /\ report[j].launched = r
             /\ \A s \in Rounds : pc[j][s] = "none"
  <2>1. owed[j] # OwedNothing
    BY <1>6 DEF OwedNothing
  <2>2. owed[j] = ResumptionFor(report[j]) /\ \A s \in Rounds : pc[j][s] = "none"
    BY <1>6, <2>1 DEF ResumesFirst
  <2>3. report[j].state = "Running" /\ r = report[j].rounds /\ report[j].launched # NoHandle
    BY <1>6, <2>2 DEF ResumptionFor
  <2> QED BY <2>1, <2>2, <2>3 DEF HandleIsOfTheLatestRound
<1>7. \A s \in Rounds : s # r => ~ Unjudged(j, s)
  BY <1>3, <1>6, UnjudgedIsOpen DEF Unjudged
<1>8. Unjudged(j, r)' /\ \A k \in Jobs, s \in Rounds : Unjudged(k, s) => Unjudged(k, s)'
  BY <1>1 DEF Unjudged
<1>9. TasksMatchTheLog'
  BY <1>1, <1>6 DEF TasksMatchTheLog, Following
<1>10. EntryLeadsToTheUnjudgedTask'
  <2>1. ASSUME NEW s \in Rounds, Unjudged(j, s)'
        PROVE  s = r
    BY <1>1, <1>7, <2>1 DEF Unjudged
  <2>2. \A k \in Jobs : k # j => \A s \in Rounds : pc'[k][s] = pc[k][s]
    BY <1>1
  <2>3. to # "none"
    OBVIOUS
  <2>4. \A k \in Jobs : k # j => /\ entry'[k] # 0 => pc'[k][entry'[k]] # "none"
                                 /\ \A s \in Rounds : Unjudged(k, s)' => entry'[k] = s
    BY <1>2, <2>2, EntryIsARound DEF EntryLeadsToTheUnjudgedTask, Unjudged
  <2>5. pc'[j][entry'[j]] # "none"
    BY <1>1, <1>2, <2>3
  <2> QED BY <1>2, <2>1, <2>4, <2>5 DEF EntryLeadsToTheUnjudgedTask
<1>11. HandleIsOfTheLatestRound' /\ PreflightIsOfAClosedJob' /\ OneVerdictPerRequest'
  BY DEF HandleIsOfTheLatestRound, PreflightIsOfAClosedJob, OneVerdictPerRequest, Open
<1>12. \A k \in Jobs : owed'[k] # OwedNothing =>
         /\ owed'[k] = owed[k]
         /\ phase = "resuming" => k # j
  BY <1>4 DEF TypeOK, ServeTyped
<1>13. ResumesFirst'
  <2>1. ASSUME phase = "resuming", NEW k \in Jobs, owed'[k] # OwedNothing
        PROVE  /\ owed'[k] = ResumptionFor(report'[k])
               /\ \A s \in Rounds : pc'[k][s] = "none"
    BY <2>1, <1>1, <1>12 DEF ResumesFirst
  <2> QED BY <1>4, <1>5, <2>1 DEF ResumesFirst, OwedNothing
<1>14. RunningJobIsKnown'
  <2>1. \A k \in Jobs : k # j => owed'[k] = owed[k]
    BY DEF TypeOK, ServeTyped
  <2>2. report[j].state = "Running" => r = report[j].rounds
    BY <1>6
  <2> QED BY <1>5, <1>8, <2>1, <2>2 DEF RunningJobIsKnown
<1> QED BY <1>9, <1>10, <1>11, <1>13, <1>14

\* A job's request is recorded by a submit that found it closed.
LEMMA SubmitRecords ==
  ASSUME TypeOK, RoundsInv, NEW j \in Jobs, SubmitRecord(j)
  PROVE  RoundsInv'
<1> USE DEF RoundsInv
<1>1. ~ Open(j) /\ phase \notin {"down", "resuming"}
  BY DEF SubmitRecord, PreflightIsOfAClosedJob, ResumesFirst
<1>2. /\ report'[j].state = "Queued"
      /\ \A k \in Jobs \ {j} : report'[k] = report[k]
  BY DEF TypeOK, LogTyped, SubmitRecord, Log, AfterRoundRequested
<1>3. /\ submit'[j] = "recorded"
      /\ \A k \in Jobs \ {j} : submit'[k] = submit[k]
  BY DEF TypeOK, SubmitTyped, SubmitRecord
<1>4. /\ unanswered'[j] = unanswered[j] + 1
      /\ \A k \in Jobs \ {j} : unanswered'[k] = unanswered[k]
  BY DEF TypeOK, LogTyped, SubmitRecord
<1>5. \A s \in Rounds : ~ Unjudged(j, s)
  BY <1>1, UnjudgedIsOpen
<1>6. UNCHANGED <<pc, entry, phase, owed, dispatcher>>
  BY DEF SubmitRecord
<1>7. TasksMatchTheLog'
  BY <1>2, <1>5, <1>6 DEF TasksMatchTheLog, Following, Unjudged
<1>8. EntryLeadsToTheUnjudgedTask'
  BY <1>6 DEF EntryLeadsToTheUnjudgedTask, Unjudged
<1>9. HandleIsOfTheLatestRound'
  BY <1>2 DEF HandleIsOfTheLatestRound
<1>10. PreflightIsOfAClosedJob'
  BY <1>2, <1>3 DEF PreflightIsOfAClosedJob, Open
<1>11. ResumesFirst'
  BY <1>1, <1>6 DEF ResumesFirst
<1>12. RunningJobIsKnown'
  BY <1>1, <1>2, <1>6 DEF RunningJobIsKnown, Unjudged
<1>13. OneVerdictPerRequest'
  BY <1>1, <1>2, <1>4 DEF OneVerdictPerRequest, Open
<1> QED BY <1>7, <1>8, <1>9, <1>10, <1>11, <1>12, <1>13

\* A job that has no task to judge it is closed by the daemon itself.
LEMMA ClosedWithoutTask ==
  ASSUME TypeOK, RoundsInv, NEW j \in Jobs, Open(j), \A s \in Rounds : ~ Unjudged(j, s),
         LogVerdict(j, AfterRoundFailed(report[j])),
         UNCHANGED <<pc, entry, submit, phase, dispatcher>>,
         \/ phase \notin {"down", "resuming"} /\ UNCHANGED owed
         \/ phase = "resuming" /\ owed' = [owed EXCEPT ![j] = OwedNothing]
  PROVE  RoundsInv'
<1> USE DEF RoundsInv
<1>1. /\ report'[j].state = "Failed"
      /\ \A k \in Jobs \ {j} : report'[k] = report[k]
  BY ReportOf DEF TypeOK, LogTyped, LogVerdict, Log, AfterRoundFailed, LoggedReports
<1>2. /\ unanswered'[j] = unanswered[j] - 1
      /\ \A k \in Jobs \ {j} : unanswered'[k] = unanswered[k]
  BY DEF TypeOK, LogTyped, LogVerdict
<1>3. TasksMatchTheLog'
  BY <1>1 DEF TasksMatchTheLog, Following, Unjudged
<1>4. EntryLeadsToTheUnjudgedTask'
  BY DEF EntryLeadsToTheUnjudgedTask, Unjudged
<1>5. HandleIsOfTheLatestRound' /\ PreflightIsOfAClosedJob'
  BY <1>1 DEF HandleIsOfTheLatestRound, PreflightIsOfAClosedJob, Open
<1>6. ASSUME phase = "resuming"
      PROVE  owed'[j] = OwedNothing /\ \A k \in Jobs : k # j => owed'[k] = owed[k]
  BY <1>6 DEF TypeOK, ServeTyped
<1>7. ResumesFirst'
  <2>1. ASSUME phase = "resuming", NEW k \in Jobs, owed'[k] # OwedNothing
        PROVE  /\ owed'[k] = ResumptionFor(report'[k])
               /\ \A s \in Rounds : pc'[k][s] = "none"
    <3>1. k # j
      BY <1>6, <2>1
    <3> QED BY <1>1, <1>6, <2>1, <3>1 DEF ResumesFirst
  <2> QED BY <2>1 DEF ResumesFirst, OwedNothing
<1>8. RunningJobIsKnown'
  BY <1>1, <1>6 DEF RunningJobIsKnown, Unjudged
<1>9. OneVerdictPerRequest'
  BY <1>1, <1>2 DEF OneVerdictPerRequest, Open
<1> QED BY <1>3, <1>4, <1>5, <1>7, <1>8, <1>9

\* The process is gone: a running job is owed a look by the next daemon.
LEMMA GoneKeepsRoundsInv ==
  ASSUME TypeOK, RoundsInv, DaemonGone
  PROVE  RoundsInv'
<1> USE DEF RoundsInv, DaemonGone
<1>1. TasksMatchTheLog' /\ EntryLeadsToTheUnjudgedTask'
  BY DEF TasksMatchTheLog, Following, EntryLeadsToTheUnjudgedTask, Unjudged
<1>2. HandleIsOfTheLatestRound' /\ PreflightIsOfAClosedJob' /\ OneVerdictPerRequest'
  BY DEF HandleIsOfTheLatestRound, PreflightIsOfAClosedJob, OneVerdictPerRequest, Open
<1>3. ResumesFirst' /\ RunningJobIsKnown'
  BY DEF ResumesFirst, RunningJobIsKnown
<1> QED BY <1>1, <1>2, <1>3

LEMMA ServeKeepsRoundsInv ==
  ASSUME TypeOK, RoundsInv,
         StartDaemon \/ ShutDown \/ ExitSettled \/ ExitGraceOver \/ Crash \/ DropSlot
  PROVE  RoundsInv'
<1> USE DEF RoundsInv
<1>1. CASE StartDaemon
  <2>1. /\ UNCHANGED <<report, unanswered, pc, entry, submit, dispatcher>>
        /\ phase = "down" /\ phase' = "resuming"
        /\ owed' = [j \in Jobs |-> ResumptionFor(report[j])]
    BY <1>1 DEF StartDaemon, RootIsFree
  <2>2. TasksMatchTheLog' /\ EntryLeadsToTheUnjudgedTask'
    BY <2>1 DEF TasksMatchTheLog, Following, EntryLeadsToTheUnjudgedTask, Unjudged
  <2>3. HandleIsOfTheLatestRound' /\ PreflightIsOfAClosedJob' /\ OneVerdictPerRequest'
    BY <2>1 DEF HandleIsOfTheLatestRound, PreflightIsOfAClosedJob, OneVerdictPerRequest, Open
  <2>4. ResumesFirst'
    BY <2>1 DEF ResumesFirst
  <2>5. \A j \in Jobs : report[j].state = "Running" => owed'[j] # OwedNothing
    BY <2>1 DEF ResumptionFor, OwedNothing
  <2>6. RunningJobIsKnown'
    BY <2>1, <2>5 DEF RunningJobIsKnown
  <2> QED BY <2>2, <2>3, <2>4, <2>6
<1>2. CASE ShutDown
  <2>1. /\ UNCHANGED <<report, unanswered, pc, entry, submit, dispatcher, owed>>
        /\ phase = "serving" /\ phase' = "stopping"
    BY <1>2 DEF ShutDown
  <2>2. TasksMatchTheLog' /\ EntryLeadsToTheUnjudgedTask'
    BY <2>1 DEF TasksMatchTheLog, Following, EntryLeadsToTheUnjudgedTask, Unjudged
  <2>3. HandleIsOfTheLatestRound' /\ PreflightIsOfAClosedJob' /\ OneVerdictPerRequest'
    BY <2>1 DEF HandleIsOfTheLatestRound, PreflightIsOfAClosedJob, OneVerdictPerRequest, Open
  <2>4. ResumesFirst' /\ RunningJobIsKnown'
    BY <2>1 DEF ResumesFirst, RunningJobIsKnown, Unjudged
  <2> QED BY <2>2, <2>3, <2>4
<1>3. CASE ExitSettled \/ ExitGraceOver \/ Crash
  BY <1>3, GoneKeepsRoundsInv DEF ExitSettled, ExitGraceOver, Crash
<1>4. CASE DropSlot
  BY <1>4, NothingSeen DEF DropSlot, roundVars
<1> QED BY <1>1, <1>2, <1>3, <1>4

LEMMA ResumeKeepsRoundsInv ==
  ASSUME TypeOK, RoundsInv, ResumeStep
  PROVE  RoundsInv'
<1> USE DEF RoundsInv
<1>1. ASSUME NEW j \in Jobs, NEW r \in Rounds, ResumeReattach(j, r)
      PROVE  RoundsInv'
  BY <1>1, TaskSpawned DEF ResumeReattach
<1>2. ASSUME NEW j \in Jobs, ResumeLost(j)
      PROVE  RoundsInv'
  <2>1. owed[j] # OwedNothing
    BY <1>2 DEF ResumeLost, OwedNothing
  <2>2. owed[j] = ResumptionFor(report[j]) /\ \A s \in Rounds : pc[j][s] = "none"
    BY <1>2, <2>1 DEF ResumesFirst, ResumeLost
  <2>3. Open(j) /\ \A s \in Rounds : ~ Unjudged(j, s)
    BY <1>2, <2>2 DEF ResumeLost, ResumptionFor, Open, Unjudged
  <2> QED BY <1>2, <2>3, ClosedWithoutTask DEF ResumeLost
<1>3. CASE RequeueAndServe
  <2>1. /\ UNCHANGED <<report, unanswered, pc, entry, submit>>
        /\ phase = "resuming" /\ phase' = "serving"
        /\ \A j \in Jobs : owed[j].owes \in {"Nothing", "Requeue"}
    BY <1>3 DEF RequeueAndServe
  <2>2. TasksMatchTheLog' /\ EntryLeadsToTheUnjudgedTask'
    BY <2>1 DEF TasksMatchTheLog, Following, EntryLeadsToTheUnjudgedTask, Unjudged
  <2>3. HandleIsOfTheLatestRound' /\ PreflightIsOfAClosedJob' /\ OneVerdictPerRequest'
    BY <2>1 DEF HandleIsOfTheLatestRound, PreflightIsOfAClosedJob, OneVerdictPerRequest, Open
  <2>4. ResumesFirst'
    BY <2>1 DEF ResumesFirst
  <2>5. \A j \in Jobs : report[j].state = "Running" => owed[j] = OwedNothing
    <3>1. \A j \in Jobs : report[j].state = "Running" =>
             ResumptionFor(report[j]).owes \in {"Reattach", "LostWhileLaunching"}
      BY DEF ResumptionFor
    <3> QED BY <2>1, <3>1 DEF ResumesFirst
  <2>6. RunningJobIsKnown'
    BY <2>1, <2>5 DEF RunningJobIsKnown, Unjudged
  <2> QED BY <2>2, <2>3, <2>4, <2>6
<1> QED BY <1>1, <1>2, <1>3 DEF ResumeStep

LEMMA RequestKeepsRoundsInv ==
  ASSUME TypeOK, RoundsInv, NEW j \in Jobs, RequestStep(j)
  PROVE  RoundsInv'
<1> USE DEF RoundsInv
\* Where a submit of j is, as long as it is not recorded as closed, is read by
\* nothing else.
<1>1. ASSUME NEW to \in SubmitPc, submit' = [submit EXCEPT ![j] = to],
             to = "preflight" => ~ Open(j),
             to # "idle" => phase \notin {"down", "resuming"},
             UNCHANGED <<report, unanswered, pc, entry, phase, owed, dispatcher>>
      PROVE  RoundsInv'
  <2>1. \A k \in Jobs : submit'[k] = IF k = j THEN to ELSE submit[k]
    BY <1>1 DEF TypeOK, SubmitTyped
  <2>2. TasksMatchTheLog' /\ EntryLeadsToTheUnjudgedTask' /\ HandleIsOfTheLatestRound'
    BY <1>1 DEF TasksMatchTheLog, Following, EntryLeadsToTheUnjudgedTask, Unjudged, HandleIsOfTheLatestRound
  <2>3. PreflightIsOfAClosedJob' /\ OneVerdictPerRequest'
    BY <1>1, <2>1 DEF PreflightIsOfAClosedJob, OneVerdictPerRequest, Open
  <2>4. ResumesFirst' /\ RunningJobIsKnown'
    BY <1>1, <2>1 DEF ResumesFirst, RunningJobIsKnown, Unjudged
  <2> QED BY <2>2, <2>3, <2>4
<1>2. CASE SubmitPreflight(j)
  BY <1>1, <1>2 DEF SubmitPreflight, Answering, MayBeAskedFor, Open, SubmitPc
<1>3. CASE SubmitRefused(j)
  BY <1>1, <1>3 DEF SubmitRefused, SubmitPc
<1>4. CASE SubmitRecord(j)
  BY <1>4, SubmitRecords
<1>5. CASE SubmitEnqueue(j)
  BY <1>1, <1>5 DEF SubmitEnqueue, SubmitPc
<1>6. CASE CancelQueued(j)
  BY <1>6, UnjudgedIsAwaited, ClosedWithoutTask DEF CancelQueued, Answering, Open
<1>7. ASSUME NEW r \in Rounds, CancelLaunched(j, r)
      PROVE  RoundsInv'
  BY <1>7, NothingSeen DEF CancelLaunched, roundVars
<1> QED BY <1>2, <1>3, <1>4, <1>5, <1>6, <1>7 DEF RequestStep

LEMMA DispatcherKeepsRoundsInv ==
  ASSUME TypeOK, RoundsInv, dispatcher \in {"awaitingSlot", "slotFree"} => inHand \in Jobs,
         DispatcherStep
  PROVE  RoundsInv'
<1> USE DEF RoundsInv
<1>1. CASE DispatcherReceives \/ DispatcherFindsSlot \/ DispatcherSkips \/ DispatcherReturns
  <2>1. /\ UNCHANGED <<report, unanswered, pc, entry, submit, phase, owed>>
        /\ dispatcher # "off"
    BY <1>1 DEF DispatcherReceives, DispatcherFindsSlot, DispatcherSkips, DispatcherReturns
  <2>2. TasksMatchTheLog' /\ EntryLeadsToTheUnjudgedTask'
    BY <2>1 DEF TasksMatchTheLog, Following, EntryLeadsToTheUnjudgedTask, Unjudged
  <2>3. HandleIsOfTheLatestRound' /\ PreflightIsOfAClosedJob' /\ OneVerdictPerRequest'
    BY <2>1 DEF HandleIsOfTheLatestRound, PreflightIsOfAClosedJob, OneVerdictPerRequest, Open
  <2>4. ResumesFirst' /\ RunningJobIsKnown'
    BY <2>1 DEF ResumesFirst, RunningJobIsKnown, Unjudged
  <2> QED BY <2>2, <2>3, <2>4
<1>2. ASSUME NEW r \in Rounds, DispatcherLaunches(r)
      PROVE  RoundsInv'
  BY <1>2, TaskSpawned DEF DispatcherLaunches
<1> QED BY <1>1, <1>2 DEF DispatcherStep

-----------------------------------------------------------------------------
(* The cap: it is checked once, when the dispatcher finds a slot free, and *)
(* acted on later; only the dispatcher and a daemon resuming count a round *)
(* in, so what was found free stays free until then.                       *)

SlotInv ==
  /\ CapHolds
  /\ dispatcher \in {"awaitingSlot", "slotFree"} => inHand \in Jobs
  /\ dispatcher = "slotFree" => running < MaxJobs
  /\ phase \in {"down", "resuming"} => running <= reattached /\ dispatcher = "off"

LEMMA SlotInvKept ==
  ASSUME TypeOK, SlotInv, [Next]_vars
  PROVE  SlotInv'
<1>1. running \in Int /\ reattached \in Nat /\ MaxJobs \in Nat \ {0}
  BY MaxJobsAssumption DEF TypeOK, TallyTyped, ServeTyped
<1> USE <1>1 DEF SlotInv, CapHolds
<1>2. CASE UNCHANGED vars
  BY <1>2 DEF vars
<1>3. CASE StartDaemon \/ ShutDown \/ DropSlot
  BY <1>3 DEF StartDaemon, RootIsFree, ShutDown, DropSlot
<1>4. CASE ExitSettled \/ ExitGraceOver \/ Crash
  BY <1>4 DEF ExitSettled, ExitGraceOver, Crash, DaemonGone
<1>5. CASE ResumeStep
  <2>1. ASSUME NEW j \in Jobs, NEW r \in Rounds, ResumeReattach(j, r)
        PROVE  SlotInv'
    BY <2>1 DEF ResumeReattach
  <2>2. ASSUME NEW j \in Jobs, ResumeLost(j)
        PROVE  SlotInv'
    BY <2>2 DEF ResumeLost
  <2>3. CASE RequeueAndServe
    <3>1. /\ UNCHANGED <<running, reattached>>
          /\ running <= reattached /\ phase' = "serving" /\ dispatcher' = "receiving"
      BY <2>3 DEF RequeueAndServe
    <3> QED BY <3>1
  <2> QED BY <1>5, <2>1, <2>2, <2>3 DEF ResumeStep
<1>6. ASSUME NEW j \in Jobs, RequestStep(j)
      PROVE  SlotInv'
  BY <1>6 DEF RequestStep, SubmitPreflight, SubmitRefused, SubmitRecord, SubmitEnqueue,
              CancelQueued, CancelLaunched
<1>7. CASE DispatcherStep
  <2>1. CASE DispatcherReceives
    BY <1>7, <2>1 DEF DispatcherReceives, TypeOK, QueueTyped
  <2>2. CASE DispatcherFindsSlot \/ DispatcherSkips \/ DispatcherReturns
    BY <2>2 DEF DispatcherFindsSlot, DispatcherSkips, DispatcherReturns, SlotIsFree
  <2>3. ASSUME NEW r \in Rounds, DispatcherLaunches(r)
        PROVE  SlotInv'
    BY <2>3 DEF DispatcherLaunches
  <2> QED BY <1>7, <2>1, <2>2, <2>3 DEF DispatcherStep
<1>8. ASSUME NEW j \in Jobs, NEW r \in Rounds, TaskStep(j, r) \/ WorldStep(j, r)
      PROVE  SlotInv'
  <2>1. UNCHANGED <<running, reattached, dispatcher, phase, inHand>>
    BY <1>8 DEF TaskStep, TaskGoesOn, HoldCache, CancelledBeforeStart, StopsBeforeStart, ConfigRead,
       StartRound, ConfigUnreadable, RunnerCreates, RoundLaunched, LaunchFails,
       Reattached, ReattachFails, CancelReachesRunner, CollectVerdict, StreamEnds,
       VerdictMissing, StreamBreaks, RoundIsGivenUp, DropRegistration,
       WorldStep, RoundJudged, RoundEnds, RoundDies,
       RoundObeysCancel
  <2> QED BY <2>1
<1> QED BY <1>2, <1>3, <1>4, <1>5, <1>6, <1>7, <1>8 DEF Next

-----------------------------------------------------------------------------

LEMMA RoundsInvKept ==
  ASSUME TypeOK, SlotInv, RoundsInv, [Next]_vars
  PROVE  RoundsInv'
<1>1. CASE UNCHANGED vars
  BY <1>1, NothingSeen DEF vars, roundVars
<1>2. ASSUME NEW j \in Jobs, NEW r \in Rounds, WorldStep(j, r)
      PROVE  RoundsInv'
  BY <1>2, NothingSeen
  DEF WorldStep, RoundJudged, RoundEnds, RoundDies, RoundObeysCancel, roundVars
<1>3. CASE Next
  BY <1>2, <1>3, ServeKeepsRoundsInv, ResumeKeepsRoundsInv, RequestKeepsRoundsInv,
     DispatcherKeepsRoundsInv, TaskKeepsRoundsInv
  DEF Next, SlotInv
<1> QED BY <1>1, <1>3

LEMMA InvHolds == Spec => [](TypeOK /\ SlotInv /\ RoundsInv)
<1>1. Init => SlotInv /\ RoundsInv
  <2> SUFFICES ASSUME Init PROVE SlotInv /\ RoundsInv
    OBVIOUS
  <2>1. SlotInv
    BY MaxJobsAssumption DEF Init, SlotInv, CapHolds
  <2>2. TasksMatchTheLog /\ EntryLeadsToTheUnjudgedTask
    BY DEF Init, TasksMatchTheLog, Following, EntryLeadsToTheUnjudgedTask, Unjudged
  <2>3. HandleIsOfTheLatestRound /\ PreflightIsOfAClosedJob /\ OneVerdictPerRequest
    BY DEF Init, HandleIsOfTheLatestRound, PreflightIsOfAClosedJob, OneVerdictPerRequest,
           Open, EmptyReport
  <2>4. ResumesFirst /\ RunningJobIsKnown
    BY DEF Init, ResumesFirst, RunningJobIsKnown
  <2> QED BY <2>1, <2>2, <2>3, <2>4 DEF RoundsInv
<1>2. TypeOK /\ SlotInv /\ RoundsInv /\ [Next]_vars => SlotInv' /\ RoundsInv'
  BY SlotInvKept, RoundsInvKept
<1> QED BY <1>1, <1>2, TypeCorrect, PTL DEF Spec

\* Every request recorded in a job's log gets exactly one verdict, for any
\* number of jobs, rounds, restarts and crashes, and any cap.
THEOREM VerdictsMatchRequests == Spec => []OneVerdictPerRequest
<1>1. RoundsInv => OneVerdictPerRequest
  BY DEF RoundsInv
<1> QED BY <1>1, InvHolds, PTL

\* The cancel table leads to the one task of a job that is yet to judge it,
\* and to no task that is gone.
THEOREM TableIsRight == Spec => []EntryLeadsToTheUnjudgedTask
<1>1. RoundsInv => EntryLeadsToTheUnjudgedTask
  BY DEF RoundsInv
<1> QED BY <1>1, InvHolds, PTL

\* A daemon past its start has a task for every running job: nothing that
\* interleaves, and no restart, leaves a round to run uncollected.
THEOREM RunningJobsAreCollected == Spec => []RunningJobIsCollected
<1>1. RoundsInv => RunningJobIsCollected
  BY DEF RoundsInv, RunningJobIsKnown, RunningJobIsCollected
<1> QED BY <1>1, InvHolds, PTL

\* The tally of rounds running exceeds the cap only by what a restart found
\* running, although a slot found free is taken some steps later.
THEOREM CapIsKept == Spec => []CapHolds
<1>1. SlotInv => CapHolds
  BY DEF SlotInv
<1> QED BY <1>1, InvHolds, PTL

-----------------------------------------------------------------------------
(* The scheduler implements the life of a job.                             *)

Life(j) == [state |-> report[j].state, rounds |-> report[j].rounds,
            handle |-> report[j].launched]
LifeOfJobs == [j \in Jobs |-> Life(j)]

LEMMA AppendIsPut ==
  ASSUME TypeOK, NEW j \in Jobs, NEW after, Log(j, after)
  PROVE  LifeOfJobs' = [LifeOfJobs EXCEPT ![j] = [state |-> after.state,
                          rounds |-> after.rounds, handle |-> after.launched]]
  BY DEF TypeOK, LogTyped, Log, LifeOfJobs, Life

\* A verdict recorded for an open job.
LEMMA FailureIsFail ==
  ASSUME TypeOK, NEW j \in Jobs, Open(j), Log(j, AfterRoundFailed(report[j]))
  PROVE  Lifecycle!Fail(j)
<1>1. /\ AfterRoundFailed(report[j]).state = "Failed"
      /\ AfterRoundFailed(report[j]).rounds = report[j].rounds
      /\ AfterRoundFailed(report[j]).launched = report[j].launched
  BY ReportOf DEF TypeOK, AfterRoundFailed, LoggedReports
<1> QED
  BY <1>1, AppendIsPut DEF Lifecycle!Fail, Lifecycle!Put, LifeOfJobs, Life, Open

LEMMA StepIsLifecycleStep ==
  ASSUME TypeOK, RoundsInv, Next
  PROVE  Lifecycle!Next \/ UNCHANGED report
<1> USE DEF RoundsInv
<1>1. ASSUME NEW j \in Jobs, NEW r \in Rounds, TaskStep(j, r)
      PROVE  Lifecycle!Next \/ UNCHANGED report
  <2>1. report[j] \in LoggedReports
    BY ReportOf DEF TypeOK
  <2>2. CASE Unjudged(j, r) /\ Log(j, AfterRoundFailed(report[j]))
    BY <2>2, UnjudgedIsOpen, FailureIsFail DEF Lifecycle!Next
  <2>3. CASE StartRound(j, r)
    <3>1. report[j].state = "Queued" /\ r = report[j].rounds + 1
      BY <2>3 DEF StartRound, TasksMatchTheLog, Following
    <3>2. LifeOfJobs' = [LifeOfJobs EXCEPT ![j] = [state |-> "Running",
                           rounds |-> report[j].rounds + 1, handle |-> 0]]
      <4>1. report[j].rounds \in Nat
        BY <2>1, BoundsAssumption DEF LoggedReports
      <4> QED BY <2>3, <3>1, <4>1, AppendIsPut DEF StartRound, AfterRoundStarted, NoHandle
    <3>3. Lifecycle!Start(j)
      BY <3>1, <3>2 DEF Lifecycle!Start, Lifecycle!Put, LifeOfJobs, Life
    <3> QED BY <3>3 DEF Lifecycle!Next
  <2>4. CASE RoundLaunched(j, r)
    <3>1. report[j].state = "Running" /\ r = report[j].rounds /\ report[j].launched = 0
      BY <2>4 DEF RoundLaunched, TasksMatchTheLog, Following, NoHandle
    <3>2. LifeOfJobs' = [LifeOfJobs EXCEPT ![j] = [state |-> "Running",
                           rounds |-> report[j].rounds, handle |-> report[j].rounds]]
      BY <2>1, <2>4, <3>1, AppendIsPut DEF RoundLaunched, AfterRoundLaunched, LoggedReports
    <3>3. Lifecycle!Launch(j)
      BY <3>1, <3>2 DEF Lifecycle!Launch, Lifecycle!Put, LifeOfJobs, Life
    <3> QED BY <3>3 DEF Lifecycle!Next
  <2>5. CASE CollectVerdict(j, r, "Passed")
    <3>1. report[j].state = "Running" /\ r = report[j].rounds /\ report[j].launched = r
      BY <2>5 DEF CollectVerdict, TasksMatchTheLog, Following
    <3>2. LifeOfJobs' = [LifeOfJobs EXCEPT ![j] = [state |-> "Passed",
                           rounds |-> report[j].rounds, handle |-> report[j].launched]]
      BY <2>1, <2>5, AppendIsPut DEF CollectVerdict, LogVerdict, AfterRoundPassed, LoggedReports
    <3>3. Lifecycle!Pass(j)
      BY <3>1, <3>2 DEF Lifecycle!Pass, Lifecycle!Put, LifeOfJobs, Life
    <3> QED BY <3>3 DEF Lifecycle!Next
  <2>6. CASE HoldCache(j, r) \/ StopsBeforeStart(j, r) \/ ConfigRead(j, r)
             \/ RunnerCreates(j, r) \/ Reattached(j, r) \/ CancelReachesRunner(j, r)
             \/ StreamEnds(j, r) \/ StreamBreaks(j, r) \/ DropRegistration(j, r)
    BY <2>6 DEF HoldCache, StopsBeforeStart, ConfigRead, RunnerCreates, Reattached,
       CancelReachesRunner, StreamEnds, StreamBreaks, DropRegistration
  <2>7. CASE RoundIsGivenUp(j, r)
    <3>1. \/ UNCHANGED report
          \/ Unjudged(j, r) /\ Log(j, AfterRoundFailed(report[j]))
      BY <2>7 DEF RoundIsGivenUp, LogVerdict, Unjudged
    <3> QED BY <3>1, <2>2
  <2>8. CASE CancelledBeforeStart(j, r) \/ ConfigUnreadable(j, r) \/ LaunchFails(j, r)
             \/ ReattachFails(j, r) \/ VerdictMissing(j, r) \/ CollectVerdict(j, r, "Failed")
    <3>1. Unjudged(j, r) /\ Log(j, AfterRoundFailed(report[j]))
      BY <2>8 DEF CancelledBeforeStart, ConfigUnreadable, LaunchFails, ReattachFails,
         VerdictMissing, CollectVerdict, LogVerdict, Unjudged
    <3> QED BY <3>1, <2>2
  <2> QED BY <1>1, <2>3, <2>4, <2>5, <2>6, <2>7, <2>8 DEF TaskStep, TaskGoesOn, Verdicts
<1>2. ASSUME NEW j \in Jobs, RequestStep(j)
      PROVE  Lifecycle!Next \/ UNCHANGED report
  <2>1. CASE SubmitRecord(j)
    <3>1. report[j].state \in {"Pending", "Passed", "Failed"}
      BY <2>1, ReportOf DEF SubmitRecord, PreflightIsOfAClosedJob, Open, TypeOK, JobState
    <3>2. LifeOfJobs' = [LifeOfJobs EXCEPT ![j] = [state |-> "Queued",
                           rounds |-> report[j].rounds, handle |-> 0]]
      BY <2>1, AppendIsPut DEF SubmitRecord, AfterRoundRequested, NoHandle
    <3>3. Lifecycle!Ask(j)
      BY <3>1, <3>2 DEF Lifecycle!Ask, Lifecycle!Put, LifeOfJobs, Life
    <3> QED BY <3>3 DEF Lifecycle!Next
  <2>2. CASE CancelQueued(j)
    <3>1. Open(j) /\ Log(j, AfterRoundFailed(report[j]))
      BY <2>2 DEF CancelQueued, LogVerdict, Open
    <3> QED BY <3>1, FailureIsFail DEF Lifecycle!Next
  <2>3. CASE SubmitPreflight(j) \/ SubmitRefused(j) \/ SubmitEnqueue(j)
             \/ \E r \in Rounds : CancelLaunched(j, r)
    BY <2>3 DEF SubmitPreflight, SubmitRefused, SubmitEnqueue, CancelLaunched
  <2> QED BY <1>2, <2>1, <2>2, <2>3 DEF RequestStep
<1>3. CASE ResumeStep
  <2>1. ASSUME NEW j \in Jobs, ResumeLost(j)
        PROVE  Lifecycle!Next
    <3>1. owed[j] # OwedNothing
      BY <2>1 DEF ResumeLost, OwedNothing
    <3>2. owed[j] = ResumptionFor(report[j])
      BY <2>1, <3>1 DEF ResumesFirst, ResumeLost
    <3>3. Open(j)
      BY <2>1, <3>2 DEF ResumeLost, ResumptionFor, Open
    <3> QED BY <2>1, <3>3, FailureIsFail DEF ResumeLost, LogVerdict, Lifecycle!Next
  <2>2. CASE RequeueAndServe \/ \E j \in Jobs, r \in Rounds : ResumeReattach(j, r)
    BY <2>2 DEF RequeueAndServe, ResumeReattach
  <2> QED BY <1>3, <2>1, <2>2 DEF ResumeStep
<1>4. CASE StartDaemon \/ DispatcherStep \/ DropSlot \/ ShutDown
           \/ ExitSettled \/ ExitGraceOver \/ Crash
  BY <1>4 DEF StartDaemon, RootIsFree, DispatcherStep, DispatcherReceives, DispatcherFindsSlot,
     DispatcherSkips, DispatcherReturns, DispatcherLaunches, DropSlot, ShutDown,
     ExitSettled, ExitGraceOver, Crash, DaemonGone
<1>5. ASSUME NEW j \in Jobs, NEW r \in Rounds, WorldStep(j, r)
      PROVE  UNCHANGED report
  BY <1>5 DEF WorldStep, RoundJudged, RoundEnds, RoundDies, RoundObeysCancel
<1> QED BY <1>1, <1>2, <1>3, <1>4, <1>5 DEF Next

\* The daemon implements JobLifecycle: as its log tells it, no job is started
\* that is not queued, launched twice, passed unlaunched or judged twice.
THEOREM DaemonImplementsLifecycle == Spec => JobsFollowTheirLifecycle
<1>1. Init => Lifecycle!Init
  BY DEF Init, Lifecycle!Init, EmptyReport, NoHandle
<1>2. TypeOK /\ RoundsInv /\ [Next]_vars =>
        [Lifecycle!Next]_LifeOfJobs
  <2> SUFFICES ASSUME TypeOK, RoundsInv, [Next]_vars
               PROVE  Lifecycle!Next \/ UNCHANGED LifeOfJobs
    OBVIOUS
  <2>1. CASE UNCHANGED vars
    BY <2>1 DEF vars, LifeOfJobs, Life
  <2>2. CASE Next
    BY <2>2, StepIsLifecycleStep DEF LifeOfJobs, Life
  <2> QED BY <2>1, <2>2
<1> QED
  BY <1>1, <1>2, InvHolds, PTL
  DEF Spec, JobsFollowTheirLifecycle, Lifecycle!Spec, LifeOfJobs, Life

=============================================================================
