--------------------------- MODULE JobDaemonQueue ---------------------------
(***************************************************************************)
(* The daemon's tallies, its stops and its line: that the tallies count    *)
(* what they are read for, that a stop which waits for them loses no       *)
(* launch, that no queued job is forgotten with one slot, and in which     *)
(* order a repository's jobs stand in line.  Each rests on the invariants  *)
(* of JobDaemonProofs, and on the one before it.                           *)
(***************************************************************************)
EXTENDS JobDaemonProofs

USE DEF logVars, serveVars, queueVars, tableVars, tallyVars, submitVars

-----------------------------------------------------------------------------
(* The tallies.  They move with the tasks they count: a task is spawned    *)
(* where there is none -- the table has the last round a job gave up before *)
(* its start, until that one is gone --, and leaves `launching` once.       *)

\* A task is of a round that has started, or of the next one, which the table
\* then has.
UnstartedIsEntered ==
  \A j \in Jobs, r \in Rounds : pc[j][r] # "none" =>
    \/ r <= report[j].rounds
    \/ r = report[j].rounds + 1 /\ entry[j] = r

TallyInv == TalliesAreExact /\ UnstartedIsEntered

One(b) == IF b THEN 1 ELSE 0

LEMMA TasksAreFinite ==
  /\ IsFiniteSet(Tasks) /\ IsFiniteSet(LaunchingTasks)
  /\ Cardinality(Tasks) \in Nat /\ Cardinality(LaunchingTasks) \in Nat
<1>1. IsFiniteSet(Jobs \X Rounds)
  <2>1. 1 \in Int /\ MaxRequests \in Int
    BY BoundsAssumption
  <2>2. IsFiniteSet(Rounds)
    BY <2>1, FS_Interval, Zenon DEF Rounds
  <2> QED BY <2>2, JobsAssumption, FS_Product
<1>2. Tasks \in SUBSET (Jobs \X Rounds) /\ LaunchingTasks \in SUBSET (Jobs \X Rounds)
  BY DEF Tasks, LaunchingTasks
<1>3. IsFiniteSet(Tasks) /\ IsFiniteSet(LaunchingTasks)
  BY <1>1, <1>2, FS_Subset, Zenon
<1> QED BY <1>3, FS_CardinalityType

\* What the place of one task counts for.
LEMMA MoveIsCounted ==
  ASSUME TypeOK, NEW j \in Jobs, NEW r \in Rounds, NEW to \in TaskPc, Move(j, r, to)
  PROVE  /\ Cardinality(Tasks)' =
              Cardinality(Tasks) + One(to # "none") - One(pc[j][r] # "none")
         /\ Cardinality(LaunchingTasks)' =
              Cardinality(LaunchingTasks) + One(to \in LaunchingPc) - One(pc[j][r] \in LaunchingPc)
<1>1. /\ pc'[j][r] = to
      /\ \A k \in Jobs, s \in Rounds : <<k, s>> # <<j, r>> => pc'[k][s] = pc[k][s]
  BY DEF TypeOK, TaskTyped, Move
<1>2. <<j, r>> \in Jobs \X Rounds
  OBVIOUS
<1>3. /\ Tasks' = IF to # "none" THEN Tasks \cup {<<j, r>>} ELSE Tasks \ {<<j, r>>}
      /\ LaunchingTasks' = IF to \in LaunchingPc THEN LaunchingTasks \cup {<<j, r>>}
                                                 ELSE LaunchingTasks \ {<<j, r>>}
  BY <1>1 DEF Tasks, LaunchingTasks
<1>4. /\ <<j, r>> \in Tasks <=> pc[j][r] # "none"
      /\ <<j, r>> \in LaunchingTasks <=> pc[j][r] \in LaunchingPc
  BY DEF Tasks, LaunchingTasks
<1>5. \A S : IsFiniteSet(S) =>
        /\ Cardinality(S \cup {<<j, r>>}) =
             IF <<j, r>> \in S THEN Cardinality(S) ELSE Cardinality(S) + 1
        /\ Cardinality(S \ {<<j, r>>}) =
             IF <<j, r>> \in S THEN Cardinality(S) - 1 ELSE Cardinality(S)
  BY FS_AddElement, FS_RemoveElement, Zenon
<1>6. Cardinality(Tasks') = Cardinality(Tasks) + One(to # "none") - One(pc[j][r] # "none")
  <2>1. /\ Cardinality(Tasks \cup {<<j, r>>}) =
             IF <<j, r>> \in Tasks THEN Cardinality(Tasks) ELSE Cardinality(Tasks) + 1
        /\ Cardinality(Tasks \ {<<j, r>>}) =
             IF <<j, r>> \in Tasks THEN Cardinality(Tasks) - 1 ELSE Cardinality(Tasks)
    BY <1>5, TasksAreFinite, Zenon
  <2> HIDE DEF Tasks
  <2> QED BY <1>3, <1>4, <2>1, TasksAreFinite DEF One
<1>7. Cardinality(LaunchingTasks') =
        Cardinality(LaunchingTasks) + One(to \in LaunchingPc) - One(pc[j][r] \in LaunchingPc)
  <2>1. /\ Cardinality(LaunchingTasks \cup {<<j, r>>}) =
             IF <<j, r>> \in LaunchingTasks THEN Cardinality(LaunchingTasks)
                                            ELSE Cardinality(LaunchingTasks) + 1
        /\ Cardinality(LaunchingTasks \ {<<j, r>>}) =
             IF <<j, r>> \in LaunchingTasks THEN Cardinality(LaunchingTasks) - 1
                                            ELSE Cardinality(LaunchingTasks)
    BY <1>5, TasksAreFinite, Zenon
  <2> QED BY <1>3, <1>4, <2>1, TasksAreFinite DEF One
<1> QED BY <1>6, <1>7

LEMMA TalliesMove ==
  ASSUME TypeOK, TalliesAreExact, NEW j \in Jobs, NEW r \in Rounds, NEW to \in TaskPc,
         Move(j, r, to),
         running' - exiting' = running - exiting + One(to # "none") - One(pc[j][r] # "none"),
         launching' = launching + One(to \in LaunchingPc) - One(pc[j][r] \in LaunchingPc),
         running' \in Int, exiting' \in Int
  PROVE  TalliesAreExact'
<1>1. running \in Int /\ exiting \in Int /\ launching \in Int
  BY DEF TypeOK, TallyTyped
<1> QED BY <1>1, MoveIsCounted, TasksAreFinite DEF TalliesAreExact, One

LEMMA TaskKeepsTallies ==
  ASSUME TypeOK, TallyInv, NEW j \in Jobs, NEW r \in Rounds, TaskStep(j, r)
  PROVE  TalliesAreExact'
<1>1. running \in Int /\ exiting \in Int /\ launching \in Int /\ TalliesAreExact
  BY DEF TypeOK, TallyTyped, TallyInv
<1> USE <1>1 DEF TaskPc, LaunchingPc, One
<1>2. CASE HoldCache(j, r)
  BY <1>2, TalliesMove DEF HoldCache
<1>3. CASE CancelledBeforeStart(j, r)
  BY <1>3, TalliesMove DEF CancelledBeforeStart
<1>4. CASE StopsBeforeStart(j, r)
  BY <1>4, TalliesMove DEF StopsBeforeStart
<1>5. CASE ConfigRead(j, r)
  BY <1>5, TalliesMove DEF ConfigRead
<1>6. CASE StartRound(j, r)
  BY <1>6, TalliesMove DEF StartRound
<1>7. CASE ConfigUnreadable(j, r)
  BY <1>7, TalliesMove DEF ConfigUnreadable
<1>8. CASE RunnerCreates(j, r)
  BY <1>8 DEF RunnerCreates, TalliesAreExact, Tasks, LaunchingTasks
<1>9. CASE RoundLaunched(j, r)
  BY <1>9, TalliesMove DEF RoundLaunched
<1>10. CASE LaunchFails(j, r)
  BY <1>10, TalliesMove DEF LaunchFails
<1>11. CASE Reattached(j, r)
  BY <1>11, TalliesMove DEF Reattached
<1>12. CASE ReattachFails(j, r)
  BY <1>12, TalliesMove DEF ReattachFails
<1>13. CASE CancelReachesRunner(j, r)
  BY <1>13, TalliesMove DEF CancelReachesRunner
<1>14. ASSUME NEW verdict \in Verdicts, CollectVerdict(j, r, verdict)
       PROVE  TalliesAreExact'
  BY <1>14, TalliesMove DEF CollectVerdict
<1>15. CASE StreamEnds(j, r)
  BY <1>15, TalliesMove DEF StreamEnds
<1>16. CASE VerdictMissing(j, r)
  BY <1>16, TalliesMove DEF VerdictMissing
<1>17. CASE StreamBreaks(j, r)
  BY <1>17, TalliesMove DEF StreamBreaks
<1>18. CASE RoundIsGivenUp(j, r)
  BY <1>18, TalliesMove DEF RoundIsGivenUp
<1>19. CASE DropRegistration(j, r)
  BY <1>19, TalliesMove DEF DropRegistration
<1> QED BY <1>2, <1>3, <1>4, <1>5, <1>6, <1>7, <1>8, <1>9, <1>10, <1>11, <1>12,
           <1>13, <1>14, <1>15, <1>16, <1>17, <1>18, <1>19 DEF TaskStep, TaskGoesOn

\* The steps of a task leave it entered until it is gone or has started.
LEMMA TaskStaysEntered ==
  ASSUME TypeOK, RoundsInv, UnstartedIsEntered,
         NEW j \in Jobs, NEW r \in Rounds, TaskStep(j, r)
  PROVE  UnstartedIsEntered'
<1>1. /\ report \in [Jobs -> LoggedReports] /\ \A k \in Jobs : report[k].rounds \in Nat
      /\ pc \in [Jobs -> [Rounds -> TaskPc]]
  BY ReportOf, BoundsAssumption DEF TypeOK, LogTyped, TaskTyped
<1>2. \A to : Move(j, r, to) =>
        \A k \in Jobs, s \in Rounds : pc'[k][s] = IF k = j /\ s = r THEN to ELSE pc[k][s]
  BY <1>1 DEF Move
<1>3. \A after : Log(j, after) => \A k \in Jobs : report'[k] = IF k = j THEN after ELSE report[k]
  BY <1>1 DEF Log
<1>4. \A k \in Jobs : /\ AfterRoundFailed(report[k]).rounds = report[k].rounds
                      /\ AfterRoundPassed(report[k]).rounds = report[k].rounds
                      /\ AfterRoundLaunched(report[k], r).rounds = report[k].rounds
  BY <1>1 DEF AfterRoundFailed, AfterRoundPassed, AfterRoundLaunched, LoggedReports
<1>5. CASE StartRound(j, r)
  <2>1. r = report[j].rounds + 1 /\ pc[j][r] = "ready"
    BY <1>5 DEF StartRound, RoundsInv, TasksMatchTheLog, Following
  <2>2. report'[j].rounds = r /\ \A k \in Jobs : k # j => report'[k] = report[k]
    BY <1>5, <1>3, <1>1, <2>1 DEF StartRound, AfterRoundStarted
  <2>3. \A k \in Jobs, s \in Rounds : pc'[k][s] # "none" => pc[k][s] # "none"
    BY <1>5, <1>2, <2>1 DEF StartRound
  <2>4. UNCHANGED entry
    BY <1>5 DEF StartRound
  <2> QED BY <1>1, <2>1, <2>2, <2>3, <2>4 DEF UnstartedIsEntered, Rounds
<1>6. CASE DropRegistration(j, r)
  <2>1. /\ UNCHANGED report
        /\ \A k \in Jobs, s \in Rounds : pc'[k][s] # "none" => pc[k][s] # "none" /\ ~ (k = j /\ s = r)
    BY <1>6, <1>2 DEF DropRegistration
  <2>2. \A k \in Jobs : entry'[k] = IF k = j /\ entry[k] = r THEN 0 ELSE entry[k]
    BY <1>6 DEF DropRegistration, EntryAfterDrop, TypeOK, TableTyped
  <2> QED BY <2>1, <2>2 DEF UnstartedIsEntered
<1>7. CASE \/ HoldCache(j, r) \/ CancelledBeforeStart(j, r) \/ StopsBeforeStart(j, r)
           \/ ConfigRead(j, r) \/ ConfigUnreadable(j, r) \/ RunnerCreates(j, r)
           \/ RoundLaunched(j, r) \/ LaunchFails(j, r) \/ Reattached(j, r)
           \/ ReattachFails(j, r) \/ CancelReachesRunner(j, r)
           \/ (\E verdict \in Verdicts : CollectVerdict(j, r, verdict))
           \/ StreamEnds(j, r) \/ VerdictMissing(j, r)
           \/ StreamBreaks(j, r) \/ RoundIsGivenUp(j, r)
  <2>1. UNCHANGED entry
    BY <1>7 DEF HoldCache, CancelledBeforeStart, StopsBeforeStart, ConfigRead, ConfigUnreadable,
       RunnerCreates, RoundLaunched, LaunchFails, Reattached, ReattachFails,
       CancelReachesRunner, CollectVerdict, StreamEnds, VerdictMissing,
       StreamBreaks, RoundIsGivenUp
  <2>2. pc[j][r] # "none" /\ (UNCHANGED pc \/ \E to : Move(j, r, to))
    BY <1>7 DEF HoldCache, CancelledBeforeStart, StopsBeforeStart, ConfigRead, ConfigUnreadable,
       RunnerCreates, RoundLaunched, LaunchFails, Reattached, ReattachFails,
       CancelReachesRunner, CollectVerdict, StreamEnds, VerdictMissing,
       StreamBreaks, RoundIsGivenUp
  <2>3. \A k \in Jobs : report'[k].rounds = report[k].rounds
    <3>1. \/ UNCHANGED report
          \/ Log(j, AfterRoundFailed(report[j])) \/ Log(j, AfterRoundPassed(report[j]))
          \/ Log(j, AfterRoundLaunched(report[j], r))
      BY <1>7 DEF HoldCache, CancelledBeforeStart, StopsBeforeStart, ConfigRead, ConfigUnreadable,
         RunnerCreates, RoundLaunched, LaunchFails, Reattached, ReattachFails,
         CancelReachesRunner, CollectVerdict, StreamEnds, VerdictMissing,
         StreamBreaks, RoundIsGivenUp, LogVerdict
    <3> QED BY <3>1, <1>3, <1>4
  <2>4. \A k \in Jobs, s \in Rounds : pc'[k][s] # "none" => pc[k][s] # "none"
    BY <2>2, <1>2
  <2> QED BY <2>1, <2>3, <2>4 DEF UnstartedIsEntered
<1> QED BY <1>5, <1>6, <1>7 DEF TaskStep, TaskGoesOn

\* A task is spawned where there is none: a round given up before its start is
\* awaited for as long as its task is there.
LEMMA SpawnKeepsTallies ==
  ASSUME TypeOK, RoundsInv, SlotInv, TallyInv, NEW j \in Jobs, NEW r \in Rounds,
         \/ ResumeReattach(j, r)
         \/ inHand = j /\ DispatcherLaunches(r)
  PROVE  TallyInv'
<1>1. /\ running \in Int /\ exiting \in Int /\ launching \in Int
      /\ report[j].rounds \in Nat /\ r \in Nat
      /\ TalliesAreExact /\ UnstartedIsEntered
  BY ReportOf, BoundsAssumption DEF TypeOK, TallyTyped, TallyInv, Rounds
<1>2. pc[j][r] = "none" /\ r \in {report[j].rounds, report[j].rounds + 1}
  <2>1. CASE ResumeReattach(j, r)
    <3>1. owed[j] # OwedNothing
      BY <2>1 DEF ResumeReattach, OwedNothing
    <3>2. owed[j] = ResumptionFor(report[j]) /\ \A s \in Rounds : pc[j][s] = "none"
      BY <2>1, <3>1 DEF ResumeReattach, RoundsInv, ResumesFirst
    <3>3. r = report[j].rounds
      BY <2>1, <3>2 DEF ResumeReattach, ResumptionFor
    <3> QED BY <3>2, <3>3
  <2>2. CASE inHand = j /\ DispatcherLaunches(r)
    <3>1. r = report[j].rounds + 1 /\ report[j].state = "Queued" /\ ~ IsAwaitedBy(entry[j], report[j])
      BY <2>2 DEF DispatcherLaunches
    <3>2. entry[j] # r
      BY <3>1 DEF IsAwaitedBy
    <3>3. ~ (r <= report[j].rounds)
      BY <1>1, <3>1
    <3> QED BY <1>1, <3>1, <3>2, <3>3 DEF UnstartedIsEntered
  <2> QED BY <2>1, <2>2
<1>3. PICK to \in {"waiting", "reattaching"} :
        /\ Move(j, r, to) /\ entry' = [entry EXCEPT ![j] = r] /\ UNCHANGED report
        /\ running' = running + 1 /\ exiting' = exiting
        /\ launching' = IF to = "waiting" THEN launching + 1 ELSE launching
  BY DEF ResumeReattach, DispatcherLaunches
<1>4. TalliesAreExact'
  BY <1>1, <1>2, <1>3, TalliesMove DEF TaskPc, LaunchingPc, One
<1>5. UnstartedIsEntered'
  <2>1. \A k \in Jobs, s \in Rounds : pc'[k][s] = IF k = j /\ s = r THEN to ELSE pc[k][s]
    BY <1>3 DEF Move, TypeOK, TaskTyped
  <2>2. \A k \in Jobs : entry'[k] = IF k = j THEN r ELSE entry[k]
    BY <1>3 DEF TypeOK, TableTyped
  <2>3. ASSUME NEW s \in Rounds, pc[j][s] # "none", s # r
        PROVE  s <= report[j].rounds
    <3>1. CASE ResumeReattach(j, r)
      <4>1. owed[j] # OwedNothing
        BY <3>1 DEF ResumeReattach, OwedNothing
      <4>2. pc[j][s] = "none"
        BY <3>1, <4>1 DEF ResumeReattach, RoundsInv, ResumesFirst
      <4> QED BY <2>3, <4>2
    <3>2. CASE inHand = j /\ DispatcherLaunches(r)
      <4>1. r = report[j].rounds + 1
        BY <3>2 DEF DispatcherLaunches
      <4> QED BY <2>3, <4>1, <1>1 DEF UnstartedIsEntered
    <3> QED BY <3>1, <3>2
  <2> QED BY <1>1, <1>2, <1>3, <2>1, <2>2, <2>3 DEF UnstartedIsEntered
<1> QED BY <1>4, <1>5 DEF TallyInv

LEMMA TallyInvKept ==
  ASSUME TypeOK, SlotInv, RoundsInv, TallyInv, [Next]_vars
  PROVE  TallyInv'
<1>1. running \in Int /\ exiting \in Int /\ launching \in Int
  BY DEF TypeOK, TallyTyped
\* What changes neither a task, nor a tally, nor how many rounds have started.
<1>2. ASSUME UNCHANGED <<pc, entry, tallyVars>>,
             \A j \in Jobs : report'[j].rounds = report[j].rounds
      PROVE  TallyInv'
  BY <1>2 DEF TallyInv, TalliesAreExact, UnstartedIsEntered, Tasks, LaunchingTasks
<1>3. \A j \in Jobs : AfterRoundFailed(report[j]).rounds = report[j].rounds
  BY ReportOf DEF TypeOK, AfterRoundFailed, LoggedReports
<1>4. ASSUME NEW j \in Jobs, NEW after, Log(j, after), after.rounds = report[j].rounds
      PROVE  \A k \in Jobs : report'[k].rounds = report[k].rounds
  BY <1>4 DEF Log, TypeOK, LogTyped
<1>5. CASE UNCHANGED vars
  BY <1>2, <1>5 DEF vars
<1>6. CASE StartDaemon \/ ShutDown
  BY <1>2, <1>6 DEF StartDaemon, RootIsFree, ShutDown
<1>7. CASE ExitSettled \/ ExitGraceOver \/ Crash
  <2>1. DaemonGone
    BY <1>7 DEF ExitSettled, ExitGraceOver, Crash
  <2>2. Tasks' = {} /\ LaunchingTasks' = {}
    BY <2>1 DEF DaemonGone, Tasks, LaunchingTasks, LaunchingPc
  <2>3. UnstartedIsEntered'
    BY <2>1 DEF DaemonGone, UnstartedIsEntered
  <2> QED BY <2>1, <2>2, <2>3, FS_EmptySet DEF DaemonGone, TallyInv, TalliesAreExact
<1>8. CASE DropSlot
  <2>1. Tasks' = Tasks /\ LaunchingTasks' = LaunchingTasks /\ UnstartedIsEntered'
    BY <1>8 DEF DropSlot, Tasks, LaunchingTasks, TallyInv, UnstartedIsEntered
  <2> QED BY <1>1, <1>8, <2>1, TasksAreFinite DEF DropSlot, TallyInv, TalliesAreExact
<1>9. CASE ResumeStep
  <2>1. ASSUME NEW j \in Jobs, ResumeLost(j)
        PROVE  TallyInv'
    BY <1>2, <1>3, <1>4, <2>1 DEF ResumeLost, LogVerdict
  <2>2. CASE RequeueAndServe
    BY <1>2, <2>2 DEF RequeueAndServe
  <2> QED BY <1>9, <2>1, <2>2, SpawnKeepsTallies DEF ResumeStep
<1>10. ASSUME NEW j \in Jobs, RequestStep(j)
      PROVE  TallyInv'
  <2>1. CASE SubmitRecord(j)
    BY <1>2, <1>4, <2>1 DEF SubmitRecord, AfterRoundRequested
  <2>2. CASE CancelQueued(j)
    BY <1>2, <1>3, <1>4, <2>2 DEF CancelQueued, LogVerdict
  <2>3. CASE SubmitPreflight(j) \/ SubmitRefused(j) \/ SubmitEnqueue(j)
             \/ \E r \in Rounds : CancelLaunched(j, r)
    BY <1>2, <2>3 DEF SubmitPreflight, SubmitRefused, SubmitEnqueue, CancelLaunched
  <2> QED BY <1>10, <2>1, <2>2, <2>3 DEF RequestStep
<1>11. CASE DispatcherStep
  <2>1. ASSUME NEW r \in Rounds, DispatcherLaunches(r)
        PROVE  TallyInv'
    <3>1. inHand \in Jobs
      BY <2>1 DEF DispatcherLaunches, SlotInv
    <3> QED BY <2>1, <3>1, SpawnKeepsTallies
  <2>2. CASE DispatcherReceives \/ DispatcherFindsSlot \/ DispatcherSkips \/ DispatcherReturns
    BY <1>2, <2>2
    DEF DispatcherReceives, DispatcherFindsSlot, DispatcherSkips, DispatcherReturns
  <2> QED BY <1>11, <2>1, <2>2 DEF DispatcherStep
<1>12. ASSUME NEW j \in Jobs, NEW r \in Rounds, TaskStep(j, r)
       PROVE  TallyInv'
  BY <1>12, TaskKeepsTallies, TaskStaysEntered DEF TallyInv
<1>13. ASSUME NEW j \in Jobs, NEW r \in Rounds, WorldStep(j, r)
       PROVE  TallyInv'
  BY <1>2, <1>13 DEF WorldStep, RoundJudged, RoundEnds, RoundDies, RoundObeysCancel
<1> QED BY <1>5, <1>6, <1>7, <1>8, <1>9, <1>10, <1>11, <1>12, <1>13 DEF Next

-----------------------------------------------------------------------------
(* Stops.  A daemon that waits for `launching` to come to zero leaves no   *)
(* round between its start and its handle; no other daemon runs until the  *)
(* next one reads the logs.                                                *)

LostRound(j) == report[j].state = "Running" /\ report[j].launched = NoHandle

StopInv ==
  unclean = 0 =>
    /\ \A j \in Jobs : owed[j].owes # "LostWhileLaunching"
    /\ phase = "down" => \A j \in Jobs : ~ LostRound(j)

\* Once its launches have settled, a stopping daemon has no round without a handle.
LEMMA SettledMeansLaunched ==
  ASSUME TypeOK, RoundsInv, TallyInv, Stopping, LaunchesSettled
  PROVE  \A j \in Jobs : ~ LostRound(j)
<1>1. LaunchingTasks = {}
  BY TasksAreFinite, FS_EmptySet DEF LaunchesSettled, TallyInv, TalliesAreExact
<1>2. ASSUME NEW j \in Jobs, NEW r \in Rounds PROVE pc[j][r] \notin LaunchingPc
  <2>1. <<j, r>> \notin LaunchingTasks
    BY <1>1
  <2> QED BY <2>1 DEF LaunchingTasks
<1>3. SUFFICES ASSUME NEW j \in Jobs, LostRound(j) PROVE FALSE
  OBVIOUS
<1>4. PICK r \in Rounds : r = report[j].rounds /\ Unjudged(j, r)
  BY <1>3 DEF RoundsInv, RunningJobIsKnown, Stopping, LostRound
<1>5. pc[j][r] \in Following
  BY <1>2, <1>4, UnjudgedIsOpen DEF RoundsInv, UnjudgedPc, Following, LaunchingPc
<1>6. report[j].launched = r
  BY <1>5 DEF RoundsInv, TasksMatchTheLog, Following
<1> QED BY <1>3, <1>6 DEF LostRound, NoHandle, Rounds

LEMMA StopInvKept ==
  ASSUME TypeOK, RoundsInv, TallyInv, StopInv, [Next]_vars
  PROVE  StopInv'
<1>1. unclean \in Nat /\ owed \in [Jobs -> Owed]
  BY BoundsAssumption DEF TypeOK, ServeTyped
\* A daemon that is up changes what is owed only to take it off.
<1>2. ASSUME phase # "down", phase' # "down", UNCHANGED unclean,
             \A j \in Jobs : owed'[j] \in {owed[j], OwedNothing}
      PROVE  StopInv'
  BY <1>2 DEF StopInv, OwedNothing
<1>3. CASE UNCHANGED vars
  BY <1>3 DEF vars, StopInv, LostRound
<1>4. CASE StartDaemon
  <2>1. ASSUME unclean = 0, NEW j \in Jobs
        PROVE  ResumptionFor(report[j]).owes # "LostWhileLaunching"
    <3>1. ~ LostRound(j)
      BY <1>4, <2>1 DEF StartDaemon, RootIsFree, StopInv
    <3> QED BY <3>1 DEF ResumptionFor, LostRound
  <2> QED BY <1>4, <2>1 DEF StartDaemon, StopInv
<1>5. CASE ExitSettled
  <2>1. \A j \in Jobs : ~ LostRound(j)
    BY <1>5, SettledMeansLaunched DEF ExitSettled
  <2> QED BY <1>5, <2>1 DEF ExitSettled, DaemonGone, StopInv, LostRound, OwedNothing
<1>6. CASE ExitGraceOver \/ Crash
  BY <1>6, <1>1 DEF ExitGraceOver, Crash, StopInv
<1>7. CASE ShutDown \/ DropSlot
  <2>1. CASE ShutDown
    BY <1>2, <2>1 DEF ShutDown
  <2>2. CASE DropSlot
    BY <2>2 DEF DropSlot, StopInv, LostRound
  <2> QED BY <1>7, <2>1, <2>2
<1>8. CASE ResumeStep
  <2>1. phase = "resuming" /\ phase' # "down" /\ UNCHANGED unclean
    BY <1>8 DEF ResumeStep, ResumeReattach, ResumeLost, RequeueAndServe
  <2>2. \A j \in Jobs : owed'[j] \in {owed[j], OwedNothing}
    BY <1>8, <1>1 DEF ResumeStep, ResumeReattach, ResumeLost, RequeueAndServe
  <2> QED BY <1>2, <2>1, <2>2
<1>9. ASSUME NEW j \in Jobs, RequestStep(j)
      PROVE  StopInv'
  <2>1. UNCHANGED <<phase, owed, unclean>>
    BY <1>9 DEF RequestStep, SubmitPreflight, SubmitRefused, SubmitRecord, SubmitEnqueue,
                CancelQueued, CancelLaunched
  <2>2. phase # "down"
    BY <1>9 DEF RequestStep, SubmitPreflight, SubmitRefused, SubmitRecord, SubmitEnqueue,
                CancelQueued, CancelLaunched, Answering, RoundsInv, ResumesFirst
  <2> QED BY <1>2, <2>1, <2>2
<1>10. CASE DispatcherStep
  <2>1. UNCHANGED <<phase, owed, unclean>> /\ dispatcher # "off"
    BY <1>10 DEF DispatcherStep, DispatcherReceives, DispatcherFindsSlot, DispatcherSkips,
                DispatcherReturns, DispatcherLaunches
  <2> QED BY <1>2, <2>1 DEF RoundsInv, ResumesFirst
<1>11. ASSUME NEW j \in Jobs, NEW r \in Rounds, TaskStep(j, r)
       PROVE  StopInv'
  <2>1. UNCHANGED <<phase, owed, unclean>> /\ pc[j][r] # "none"
    BY <1>11 DEF TaskStep, TaskGoesOn, HoldCache, CancelledBeforeStart, StopsBeforeStart, ConfigRead,
       StartRound, ConfigUnreadable, RunnerCreates, RoundLaunched, LaunchFails,
       Reattached, ReattachFails, CancelReachesRunner, CollectVerdict, StreamEnds,
       VerdictMissing, StreamBreaks, RoundIsGivenUp, DropRegistration
  <2> QED BY <1>2, <2>1 DEF RoundsInv, ResumesFirst
<1>12. ASSUME NEW j \in Jobs, NEW r \in Rounds, WorldStep(j, r)
       PROVE  StopInv'
  BY <1>12 DEF WorldStep, RoundJudged, RoundEnds, RoundDies, RoundObeysCancel, StopInv, LostRound
<1> QED BY <1>3, <1>4, <1>5, <1>6, <1>7, <1>8, <1>9, <1>10, <1>11, <1>12 DEF Next

-----------------------------------------------------------------------------
(* The queue of one slot.  A queued job loses its place in line only to a  *)
(* task about to start it: the place is used up by the dispatcher, which   *)
(* with a slot free finds no task and so no entry in the table.            *)

QueueInv ==
  /\ dispatcher \in {"off", "receiving", "returned"} => inHand = NoJob
  /\ phase = "serving" => dispatcher \in {"receiving", "awaitingSlot", "slotFree"}
  /\ phase = "resuming" =>
       \A j \in Jobs : report[j].state = "Queued" => owed[j].owes = "Requeue"
  /\ QueuedJobIsOwedALaunch

\* The line a starting daemon makes has a place for each job owed one.
LEMMA LineHasAll ==
  ASSUME NEW S \in SUBSET Jobs, NEW line \in InRequestOrder(S)
  PROVE  \A j \in S : \E i \in 1 .. Len(line) : line[i] = j
<1>1. IsFiniteSet(S) /\ Cardinality(S) \in Nat
  BY JobsAssumption, FS_Subset, FS_CardinalityType
<1>2. line \in [1 .. Cardinality(S) -> S] /\ Len(line) = Cardinality(S)
  BY <1>1, LineIsTyped DEF InRequestOrder
<1>3. line \in Injection(1 .. Cardinality(S), S)
  <2>1. \A i, k \in 1 .. Cardinality(S) : i # k => line[i] # line[k]
    BY <1>1 DEF InRequestOrder
  <2> QED BY <1>2, <2>1 DEF Injection, IsInjective
<1>4. Cardinality(1 .. Cardinality(S)) = Cardinality(S)
  <2>1. 1 \in Int /\ Cardinality(S) \in Int
    BY <1>1
  <2>2. Cardinality(1 .. Cardinality(S)) =
          IF 1 > Cardinality(S) THEN 0 ELSE Cardinality(S) - 1 + 1
    BY <2>1, FS_Interval, Zenon
  <2> QED BY <1>1, <2>2
<1>5. line \in Surjection(1 .. Cardinality(S), S)
  BY <1>1, <1>3, <1>4, FS_Injection
<1> QED BY <1>2, <1>5 DEF Surjection

Unstarted == {"waiting", "reading", "ready"}

\* With one slot, a job in hand when the slot is free has no task to await.
LEMMA FreeSlotAwaitsNobody ==
  ASSUME MaxJobs = 1, TypeOK, SlotInv, RoundsInv, TallyInv,
         dispatcher = "slotFree", report[inHand].state = "Queued"
  PROVE  ~ IsAwaitedBy(entry[inHand], report[inHand])
<1>1. inHand \in Jobs /\ running < 1
  BY DEF SlotInv
<1>2. Tasks = {}
  <2>1. Cardinality(Tasks) = 0
    BY <1>1, TasksAreFinite DEF TallyInv, TalliesAreExact, TypeOK, TallyTyped
  <2> QED BY <2>1, TasksAreFinite, FS_EmptySet
<1>3. \A r \in Rounds : pc[inHand][r] = "none"
  <2> SUFFICES ASSUME NEW r \in Rounds PROVE pc[inHand][r] = "none"
    OBVIOUS
  <2>1. <<inHand, r>> \notin Tasks /\ <<inHand, r>> \in Jobs \X Rounds
    BY <1>1, <1>2
  <2> QED BY <2>1 DEF Tasks
<1>4. entry[inHand] = 0
  BY <1>1, <1>3, EntryIsARound DEF RoundsInv, EntryLeadsToTheUnjudgedTask
<1>5. report[inHand].rounds \in Nat
  BY <1>1, ReportOf, BoundsAssumption DEF TypeOK
<1> QED BY <1>4, <1>5 DEF IsAwaitedBy

\* What a task does to the job's report and to its place, seen from the queue.
LEMMA TaskSeenFromTheQueue ==
  ASSUME TypeOK, RoundsInv, NEW j \in Jobs, NEW r \in Rounds, TaskStep(j, r)
  PROVE  /\ \A k \in Jobs : report'[k].state = "Queued" => report'[k] = report[k]
         /\ \A k \in Jobs, s \in Rounds :
              phase = "serving" /\ report'[k].state = "Queued" /\ pc[k][s] \in Unstarted =>
                pc'[k][s] \in Unstarted
         /\ UNCHANGED <<phase, owed, submit, pending, inHand, dispatcher>>
<1>1. report \in [Jobs -> LoggedReports] /\ pc \in [Jobs -> [Rounds -> TaskPc]]
  BY DEF TypeOK, LogTyped, TaskTyped
<1>2. \A after : Log(j, after) => \A k \in Jobs : report'[k] = IF k = j THEN after ELSE report[k]
  BY <1>1 DEF Log
<1>3. \A to : Move(j, r, to) =>
        \A k \in Jobs, s \in Rounds : pc'[k][s] = IF k = j /\ s = r THEN to ELSE pc[k][s]
  BY <1>1 DEF Move
<1>4. UNCHANGED <<phase, owed, submit, pending, inHand, dispatcher>>
  BY DEF TaskStep, TaskGoesOn, HoldCache, CancelledBeforeStart, StopsBeforeStart, ConfigRead,
     StartRound, ConfigUnreadable, RunnerCreates, RoundLaunched, LaunchFails,
     Reattached, ReattachFails, CancelReachesRunner, CollectVerdict, StreamEnds,
     VerdictMissing, StreamBreaks, RoundIsGivenUp, DropRegistration
\* It records something, and the job is not queued any more, or nothing.
<1>5. UNCHANGED report \/ \E after : Log(j, after) /\ after.state # "Queued"
  <2>1. /\ AfterRoundFailed(report[j]).state # "Queued"
        /\ AfterRoundPassed(report[j]).state # "Queued"
        /\ AfterRoundStarted(report[j], r).state # "Queued"
    BY <1>1 DEF AfterRoundFailed, AfterRoundPassed, AfterRoundStarted, LoggedReports
  <2>2. CASE RoundLaunched(j, r)
    <3>1. report[j].state = "Running"
      BY <2>2 DEF RoundLaunched, RoundsInv, TasksMatchTheLog, Following
    <3>2. AfterRoundLaunched(report[j], r).state # "Queued"
      BY <1>1, <3>1 DEF AfterRoundLaunched, LoggedReports
    <3> QED BY <2>2, <3>2 DEF RoundLaunched
  <2>3. CASE ~ RoundLaunched(j, r)
    BY <2>1, <2>3
    DEF TaskStep, TaskGoesOn, HoldCache, CancelledBeforeStart, StopsBeforeStart, ConfigRead,
        StartRound, ConfigUnreadable, RunnerCreates, LaunchFails,
        Reattached, ReattachFails, CancelReachesRunner, CollectVerdict, StreamEnds,
        VerdictMissing, StreamBreaks, RoundIsGivenUp, DropRegistration, LogVerdict
  <2> QED BY <2>2, <2>3
<1>6. \A k \in Jobs : report'[k].state = "Queued" => report'[k] = report[k]
  BY <1>5, <1>2
\* It leaves the places before a start for one of them, or for a start, or at a stop.
<1>7. \/ UNCHANGED pc
      \/ pc[j][r] \notin Unstarted /\ \E to : Move(j, r, to)
      \/ \E to \in Unstarted : Move(j, r, to)
      \/ Stopping
      \/ report'[j].state # "Queued"
  <2>1. CASE CancelledBeforeStart(j, r) \/ StartRound(j, r)
    <3>1. report'[j].state # "Queued"
      BY <2>1, <1>2, <1>1 DEF CancelledBeforeStart, StartRound, LogVerdict,
         AfterRoundFailed, AfterRoundStarted, LoggedReports
    <3> QED BY <3>1
  <2>2. CASE ~ CancelledBeforeStart(j, r) /\ ~ StartRound(j, r)
    BY <2>2
    DEF TaskStep, TaskGoesOn, HoldCache, StopsBeforeStart, ConfigRead, ConfigUnreadable, RunnerCreates,
        RoundLaunched, LaunchFails, Reattached, ReattachFails, CancelReachesRunner,
        CollectVerdict, StreamEnds, VerdictMissing, StreamBreaks, RoundIsGivenUp, DropRegistration,
        Unstarted
  <2> QED BY <2>1, <2>2
<1>8. ASSUME NEW k \in Jobs, NEW s \in Rounds, phase = "serving",
             report'[k].state = "Queued", pc[k][s] \in Unstarted
      PROVE  pc'[k][s] \in Unstarted
  <2>1. pc'[k][s] = pc[k][s] \/ (k = j /\ s = r)
    <3>1. UNCHANGED pc \/ \E to : Move(j, r, to)
      BY DEF TaskStep, TaskGoesOn, HoldCache, CancelledBeforeStart, StopsBeforeStart, ConfigRead,
         StartRound, ConfigUnreadable, RunnerCreates, RoundLaunched, LaunchFails,
         Reattached, ReattachFails, CancelReachesRunner, CollectVerdict, StreamEnds,
         VerdictMissing, StreamBreaks, RoundIsGivenUp, DropRegistration
    <3> QED BY <1>3, <3>1
  <2> QED BY <1>7, <1>8, <1>3, <2>1 DEF Stopping
<1> QED BY <1>4, <1>6, <1>8

LEMMA QueueInvKept ==
  ASSUME MaxJobs = 1, TypeOK, SlotInv, RoundsInv, TallyInv, QueueInv, [Next]_vars
  PROVE  QueueInv'
<1>1. /\ pending \in Seq(Jobs) /\ NoJob \notin Jobs
      /\ report \in [Jobs -> LoggedReports] /\ submit \in [Jobs -> SubmitPc]
      /\ owed \in [Jobs -> Owed]
  BY JobsAssumption DEF TypeOK, QueueTyped, LogTyped, SubmitTyped, ServeTyped
\* Nobody loses a place, nobody is queued anew.
<1>2. ASSUME UNCHANGED <<phase, inHand, dispatcher>>,
             phase = "resuming" => UNCHANGED owed,
             \A j \in Jobs : report'[j].state = "Queued" =>
               /\ report[j].state = "Queued"
               /\ phase = "serving" /\ InLine(j) => InLine(j)'
               /\ phase = "serving" /\ LaunchToCome(j) => LaunchToCome(j)'
      PROVE  QueueInv'
  BY <1>2 DEF QueueInv, QueuedJobIsOwedALaunch
<1>3. CASE UNCHANGED vars
  BY <1>2, <1>3 DEF vars, InLine, LaunchToCome
<1>4. CASE StartDaemon
  BY <1>4 DEF StartDaemon, RootIsFree, QueueInv, QueuedJobIsOwedALaunch, ResumptionFor,
     RoundsInv, ResumesFirst
<1>5. CASE ExitSettled \/ ExitGraceOver \/ Crash
  BY <1>5 DEF ExitSettled, ExitGraceOver, Crash, DaemonGone, QueueInv, QueuedJobIsOwedALaunch
<1>6. CASE ShutDown
  BY <1>6 DEF ShutDown, QueueInv, QueuedJobIsOwedALaunch
<1>7. CASE DropSlot
  BY <1>2, <1>7 DEF DropSlot, InLine, LaunchToCome
<1>8. CASE ResumeStep
  <2>1. ASSUME NEW j \in Jobs, NEW r \in Rounds, ResumeReattach(j, r)
        PROVE  QueueInv'
    <3>1. \A k \in Jobs : owed'[k] = IF k = j THEN OwedNothing ELSE owed[k]
      BY <1>1, <2>1 DEF ResumeReattach
    <3>2. owed[j].owes # "Requeue" /\ phase = "resuming" /\ UNCHANGED <<phase, report, inHand, dispatcher>>
      BY <2>1 DEF ResumeReattach
    <3> QED BY <3>1, <3>2 DEF QueueInv, QueuedJobIsOwedALaunch
  <2>2. ASSUME NEW j \in Jobs, ResumeLost(j)
        PROVE  QueueInv'
    <3>1. \A k \in Jobs : owed'[k] = IF k = j THEN OwedNothing ELSE owed[k]
      BY <1>1, <2>2 DEF ResumeLost
    <3>2. /\ report'[j].state = "Failed" /\ \A k \in Jobs : k # j => report'[k] = report[k]
          /\ phase = "resuming" /\ UNCHANGED <<phase, inHand, dispatcher>>
      BY <1>1, <2>2 DEF ResumeLost, LogVerdict, Log, AfterRoundFailed, LoggedReports
    <3> QED BY <3>1, <3>2 DEF QueueInv, QueuedJobIsOwedALaunch
  <2>3. CASE RequeueAndServe
    <3>1. PICK line \in InRequestOrder({j \in Jobs : owed[j].owes = "Requeue"}) : pending' = line
      BY <2>3 DEF RequeueAndServe
    <3>2. \A j \in Jobs : owed[j].owes = "Requeue" => InLine(j)'
      BY <3>1, LineHasAll DEF InLine
    <3>3. /\ UNCHANGED <<report, inHand>> /\ phase = "resuming" /\ phase' = "serving"
          /\ dispatcher' = "receiving"
      BY <2>3 DEF RequeueAndServe
    <3>4. inHand = NoJob
      BY <3>3 DEF QueueInv, RoundsInv, ResumesFirst
    <3> QED BY <3>2, <3>3, <3>4 DEF QueueInv, QueuedJobIsOwedALaunch
  <2> QED BY <1>8, <2>1, <2>2, <2>3 DEF ResumeStep
<1>9. ASSUME NEW j \in Jobs, RequestStep(j)
      PROVE  QueueInv'
  <2>1. UNCHANGED <<phase, owed, inHand, dispatcher, pc>>
    BY <1>9 DEF RequestStep, SubmitPreflight, SubmitRefused, SubmitRecord, SubmitEnqueue,
                CancelQueued, CancelLaunched
  <2>2. CASE SubmitRecord(j)
    <3>1. /\ \A k \in Jobs : k # j => report'[k] = report[k] /\ submit'[k] = submit[k]
          /\ submit'[j] = "recorded" /\ UNCHANGED pending
      BY <1>1, <2>2 DEF SubmitRecord, Log
    <3>2. \A k \in Jobs : k # j => /\ InLine(k) => InLine(k)'
                                   /\ LaunchToCome(k) => LaunchToCome(k)'
      BY <2>1, <3>1 DEF InLine, LaunchToCome
    <3>3. InLine(j)'
      BY <3>1 DEF InLine
    <3>4. phase \notin {"down", "resuming"}
      BY <2>2 DEF SubmitRecord, RoundsInv, ResumesFirst
    <3> QED BY <2>1, <3>1, <3>2, <3>3, <3>4 DEF QueueInv, QueuedJobIsOwedALaunch
  <2>3. CASE SubmitEnqueue(j)
    <3>1. /\ UNCHANGED report
          /\ \A k \in Jobs : k # j => submit'[k] = submit[k]
          /\ phase = "serving" => pending' = Append(pending, j)
      BY <1>1, <2>3 DEF SubmitEnqueue, QueueInv
    <3>2. ASSUME NEW k \in Jobs, phase = "serving", InLine(k)
          PROVE  InLine(k)'
      <4>1. /\ Len(pending') = Len(pending) + 1 /\ Len(pending) \in Nat
            /\ \A i \in 1 .. Len(pending) : pending'[i] = pending[i]
            /\ pending'[Len(pending) + 1] = j
        BY <1>1, <3>1, <3>2
      <4>2. CASE \E i \in 1 .. Len(pending) : pending[i] = k
        BY <4>1, <4>2 DEF InLine
      <4>3. CASE inHand = k
        BY <2>1, <4>3 DEF InLine
      <4>4. CASE submit[k] = "recorded"
        <5>1. CASE k = j
          <6>1. Len(pending) + 1 \in 1 .. Len(pending')
            BY <4>1
          <6> QED BY <4>1, <5>1, <6>1 DEF InLine
        <5>2. CASE k # j
          BY <3>1, <4>4, <5>2 DEF InLine
        <5> QED BY <5>1, <5>2
      <4> QED BY <3>2, <4>2, <4>3, <4>4 DEF InLine
    <3> QED BY <1>2, <2>1, <3>1, <3>2 DEF LaunchToCome
  <2>4. CASE CancelQueued(j)
    <3>1. /\ report'[j].state = "Failed" /\ \A k \in Jobs : k # j => report'[k] = report[k]
          /\ UNCHANGED <<pending, submit>>
      BY <1>1, <2>4 DEF CancelQueued, LogVerdict, Log, AfterRoundFailed, LoggedReports
    <3> QED BY <1>2, <2>1, <3>1 DEF InLine, LaunchToCome
  <2>5. CASE SubmitPreflight(j) \/ SubmitRefused(j) \/ \E r \in Rounds : CancelLaunched(j, r)
    <3>1. /\ UNCHANGED <<report, pending>>
          /\ \A k \in Jobs : submit[k] = "recorded" => submit'[k] = "recorded"
      BY <1>1, <2>5 DEF SubmitPreflight, SubmitRefused, CancelLaunched
    <3> QED BY <1>2, <2>1, <3>1 DEF InLine, LaunchToCome
  <2> QED BY <1>9, <2>2, <2>3, <2>4, <2>5 DEF RequestStep
<1>10. CASE DispatcherStep
  <2>1. UNCHANGED <<phase, owed, report, submit>> /\ phase # "resuming"
    BY <1>10 DEF DispatcherStep, DispatcherReceives, DispatcherFindsSlot, DispatcherSkips,
                DispatcherReturns, DispatcherLaunches, RoundsInv, ResumesFirst
  <2>2. CASE DispatcherReceives
    <3>1. /\ inHand = NoJob /\ inHand' = Head(pending) /\ pending' = Tail(pending)
          /\ pending # <<>> /\ dispatcher' = "awaitingSlot" /\ UNCHANGED pc
      BY <2>2 DEF DispatcherReceives, QueueInv
    <3>2. ASSUME NEW k \in Jobs, InLine(k)
          PROVE  InLine(k)'
      <4>1. CASE \E i \in 1 .. Len(pending) : pending[i] = k
        <5>1. PICK i \in 1 .. Len(pending) : pending[i] = k
          BY <4>1
        <5>2. CASE i = 1
          BY <3>1, <5>1, <5>2 DEF InLine
        <5>3. CASE i # 1
          <6>1. i - 1 \in 1 .. Len(pending') /\ pending'[i - 1] = k
            BY <1>1, <3>1, <5>1, <5>3
          <6> QED BY <6>1 DEF InLine
        <5> QED BY <5>2, <5>3
      <4>2. CASE submit[k] = "recorded"
        BY <2>1, <4>2 DEF InLine
      <4> QED BY <1>1, <3>1, <3>2, <4>1, <4>2 DEF InLine
    <3> QED BY <2>1, <3>1, <3>2 DEF QueueInv, QueuedJobIsOwedALaunch, LaunchToCome
  <2>3. CASE DispatcherFindsSlot
    BY <2>1, <2>3 DEF DispatcherFindsSlot, QueueInv, QueuedJobIsOwedALaunch, InLine, LaunchToCome
  <2>4. CASE DispatcherSkips
    <3>1. report[inHand].state # "Queued"
      BY <2>4, FreeSlotAwaitsNobody DEF DispatcherSkips
    <3>2. /\ inHand' = NoJob /\ dispatcher' = "receiving" /\ UNCHANGED <<pending, pc>>
      BY <2>4 DEF DispatcherSkips
    <3>3. \A k \in Jobs : report[k].state = "Queued" /\ InLine(k) => InLine(k)'
      BY <2>1, <3>1, <3>2 DEF InLine
    <3> QED BY <2>1, <3>2, <3>3 DEF QueueInv, QueuedJobIsOwedALaunch, LaunchToCome
  <2>5. ASSUME NEW r \in Rounds, DispatcherLaunches(r)
        PROVE  QueueInv'
    <3>1. /\ inHand \in Jobs /\ Move(inHand, r, "waiting") /\ r = report[inHand].rounds + 1
          /\ inHand' = NoJob /\ dispatcher' = "receiving" /\ UNCHANGED pending
      BY <2>5 DEF DispatcherLaunches, SlotInv
    <3>2. \A k \in Jobs, s \in Rounds :
            pc'[k][s] = IF k = inHand /\ s = r THEN "waiting" ELSE pc[k][s]
      BY <3>1 DEF Move, TypeOK, TaskTyped
    <3>3. ASSUME NEW k \in Jobs, k = inHand
          PROVE  LaunchToCome(k)'
      BY <2>1, <3>1, <3>2, <3>3 DEF LaunchToCome
    <3>4. \A k \in Jobs : /\ LaunchToCome(k) => LaunchToCome(k)'
                          /\ InLine(k) /\ k # inHand => InLine(k)'
      BY <2>1, <3>1, <3>2 DEF LaunchToCome, InLine
    <3>5. \A k \in Jobs : InLine(k) \/ LaunchToCome(k) => InLine(k)' \/ LaunchToCome(k)'
      BY <3>3, <3>4
    <3> QED BY <2>1, <3>1, <3>5 DEF QueueInv, QueuedJobIsOwedALaunch
  <2>6. CASE DispatcherReturns
    BY <2>1, <2>6 DEF DispatcherReturns, Stopping, QueueInv, QueuedJobIsOwedALaunch
  <2> QED BY <1>10, <2>2, <2>3, <2>4, <2>5, <2>6 DEF DispatcherStep
<1>11. ASSUME NEW j \in Jobs, NEW r \in Rounds, TaskStep(j, r)
       PROVE  QueueInv'
  <2>1. /\ \A k \in Jobs : report'[k].state = "Queued" => report'[k] = report[k]
        /\ \A k \in Jobs, s \in Rounds :
             phase = "serving" /\ report'[k].state = "Queued" /\ pc[k][s] \in Unstarted =>
               pc'[k][s] \in Unstarted
        /\ UNCHANGED <<phase, owed, submit, pending, inHand, dispatcher>>
    BY <1>11, TaskSeenFromTheQueue
  <2> QED BY <1>2, <2>1 DEF InLine, LaunchToCome, Unstarted
<1>12. ASSUME NEW j \in Jobs, NEW r \in Rounds, WorldStep(j, r)
       PROVE  QueueInv'
  BY <1>2, <1>12 DEF WorldStep, RoundJudged, RoundEnds, RoundDies, RoundObeysCancel,
     InLine, LaunchToCome
<1> QED BY <1>3, <1>4, <1>5, <1>6, <1>7, <1>8, <1>9, <1>10, <1>11, <1>12 DEF Next

-----------------------------------------------------------------------------
(* The order of the line.  Requests of one repository are recorded and put *)
(* in line under its lock, so that one recorded and not in line yet is the *)
(* newest of its repository, and goes behind all others.                   *)

SubmitHoldsLock == \A j \in Jobs : submit[j] # "idle" => repoLock[RepoOf[j]] = BySubmit(j)

\* No two requests are recorded at one time.
TimesAreDistinct ==
  /\ \A j \in Jobs : report[j].requested_at <= clock
  /\ \A j \in Jobs : report[j].state = "Queued" => report[j].requested_at > 0
  /\ \A j, k \in Jobs : j # k /\ report[j].requested_at > 0 =>
       report[j].requested_at # report[k].requested_at

RecordedIsNewest ==
  \A j, k \in Jobs :
    submit[j] = "recorded" /\ k # j /\ RepoOf[k] = RepoOf[j] =>
      report[k].requested_at < report[j].requested_at

\* As LineIsInRequestOrder has it, of the jobs that are queued and of all others.
LastPlacesAreInOrder ==
  phase = "serving" => \A i, k \in 1 .. Len(pending) :
    /\ i < k
    /\ LastPlace(i) /\ LastPlace(k)
    /\ submit[pending[i]] # "recorded" /\ submit[pending[k]] # "recorded"
    /\ RepoOf[pending[i]] = RepoOf[pending[k]]
    => report[pending[i]].requested_at < report[pending[k]].requested_at

\* The line takes requests for as long as the daemon serves.
QueueOpen == phase = "serving" => dispatcher # "returned"

OrderInv == TimesAreDistinct /\ SubmitHoldsLock /\ RecordedIsNewest /\ LastPlacesAreInOrder

\* Nobody else's lock is a submit's.
LEMMA LocksDiffer ==
  ASSUME NEW j, NEW k, NEW r
  PROVE  /\ BySubmit(j) # Nobody /\ BySubmit(j) # ByRound(k, r)
         /\ BySubmit(j) = BySubmit(k) => j = k
<1>1. BySubmit(j)[1] = "submit" /\ BySubmit(j)[2] = j /\ BySubmit(k)[2] = k
  BY DEF BySubmit
<1>2. ByRound(k, r)[1] = "round" /\ Nobody[1] = "nobody"
  BY DEF ByRound, Nobody
<1>3. BySubmit(j) # Nobody /\ BySubmit(j) # ByRound(k, r)
  BY <1>1, <1>2
<1>4. ASSUME BySubmit(j) = BySubmit(k) PROVE j = k
  BY <1>1, <1>4
<1> QED BY <1>3, <1>4

\* What keeps the times of requests, the submits and their locks, and the line.
LEMMA OrderSeesNothing ==
  ASSUME OrderInv, UNCHANGED <<clock, submit>>,
         \A j \in Jobs : /\ report'[j].requested_at = report[j].requested_at
                         /\ report'[j].state = "Queued" => report[j].state = "Queued"
                         /\ submit[j] # "idle" => repoLock'[RepoOf[j]] = repoLock[RepoOf[j]],
         UNCHANGED pending, pending \in Seq(Jobs), phase' = "serving" => phase = "serving"
  PROVE  OrderInv'
<1>1. TimesAreDistinct' /\ SubmitHoldsLock' /\ RecordedIsNewest'
  <2>1. TimesAreDistinct'
    BY DEF OrderInv, TimesAreDistinct
  <2>2. SubmitHoldsLock'
    BY DEF OrderInv, SubmitHoldsLock, BySubmit
  <2>3. RecordedIsNewest'
    BY DEF OrderInv, RecordedIsNewest
  <2> QED BY <2>1, <2>2, <2>3
<1>2. LastPlacesAreInOrder'
  <2>1. \A i \in 1 .. Len(pending) : pending[i] \in Jobs /\ pending'[i] = pending[i]
    OBVIOUS
  <2>2. \A i \in 1 .. Len(pending) : LastPlace(i)' <=> LastPlace(i)
    BY DEF LastPlace
  <2> QED BY <2>1, <2>2 DEF OrderInv, LastPlacesAreInOrder
<1> QED BY <1>1, <1>2 DEF OrderInv

\* A fold's step keeps the time of the request, all but the request's own.
LEMMA FoldKeepsTime ==
  ASSUME TypeOK, NEW j \in Jobs, NEW r \in Rounds
  PROVE  /\ AfterRoundFailed(report[j]).requested_at = report[j].requested_at
         /\ AfterRoundPassed(report[j]).requested_at = report[j].requested_at
         /\ AfterRoundStarted(report[j], r).requested_at = report[j].requested_at
         /\ AfterRoundLaunched(report[j], r).requested_at = report[j].requested_at
         /\ AfterRoundFailed(report[j]).state = "Failed"
         /\ AfterRoundPassed(report[j]).state = "Passed"
         /\ AfterRoundStarted(report[j], r).state = "Running"
         /\ AfterRoundLaunched(report[j], r).state = report[j].state
  BY ReportOf DEF TypeOK, AfterRoundFailed, AfterRoundPassed, AfterRoundStarted,
     AfterRoundLaunched, LoggedReports

LEMMA TaskKeepsOrder ==
  ASSUME TypeOK, OrderInv, NEW j \in Jobs, NEW r \in Rounds, TaskStep(j, r)
  PROVE  OrderInv'
<1>1. /\ report \in [Jobs -> LoggedReports] /\ pending \in Seq(Jobs)
      /\ repoLock \in [Repos -> Holders] /\ RepoOf \in [Jobs -> Repos]
  BY RepoAssumption DEF TypeOK, LogTyped, QueueTyped, SubmitTyped
<1>2. UNCHANGED <<clock, submit, pending, phase>>
  BY DEF TaskStep, TaskGoesOn, HoldCache, CancelledBeforeStart, StopsBeforeStart, ConfigRead,
     StartRound, ConfigUnreadable, RunnerCreates, RoundLaunched, LaunchFails,
     Reattached, ReattachFails, CancelReachesRunner, CollectVerdict, StreamEnds,
     VerdictMissing, StreamBreaks, RoundIsGivenUp, DropRegistration, LogVerdict
<1>3. \/ UNCHANGED repoLock
      \/ Release(j, ByRound(j, r))
      \/ Free(j) /\ Hold(j, ByRound(j, r))
  BY DEF TaskStep, TaskGoesOn, HoldCache, CancelledBeforeStart, StopsBeforeStart, ConfigRead,
     StartRound, ConfigUnreadable, RunnerCreates, RoundLaunched, LaunchFails,
     Reattached, ReattachFails, CancelReachesRunner, CollectVerdict, StreamEnds,
     VerdictMissing, StreamBreaks, RoundIsGivenUp, DropRegistration
<1>4. \A k \in Jobs : submit[k] # "idle" => repoLock'[RepoOf[k]] = repoLock[RepoOf[k]]
  <2>1. ASSUME NEW k \in Jobs, submit[k] # "idle"
        PROVE  /\ repoLock[RepoOf[k]] # Nobody
               /\ repoLock[RepoOf[k]] # ByRound(j, r)
    BY <2>1, LocksDiffer DEF OrderInv, SubmitHoldsLock
  <2> QED BY <1>1, <1>3, <2>1 DEF Release, Free, Hold
<1>5. \/ UNCHANGED report
      \/ \E after : /\ Log(j, after) /\ after.requested_at = report[j].requested_at
                    /\ after.state = "Queued" => report[j].state = "Queued"
  BY FoldKeepsTime
  DEF TaskStep, TaskGoesOn, HoldCache, CancelledBeforeStart, StopsBeforeStart, ConfigRead,
     StartRound, ConfigUnreadable, RunnerCreates, RoundLaunched, LaunchFails,
     Reattached, ReattachFails, CancelReachesRunner, CollectVerdict, StreamEnds,
     VerdictMissing, StreamBreaks, RoundIsGivenUp, DropRegistration, LogVerdict
<1>6. \A k \in Jobs : /\ report'[k].requested_at = report[k].requested_at
                      /\ report'[k].state = "Queued" => report[k].state = "Queued"
  BY <1>1, <1>5 DEF Log
<1> QED BY <1>1, <1>2, <1>4, <1>6, OrderSeesNothing

\* A submit's steps: the lock makes it the only one of its repository.
LEMMA RequestKeepsOrder ==
  ASSUME TypeOK, QueueOpen, OrderInv, NEW j \in Jobs, RequestStep(j)
  PROVE  OrderInv'
<1>1. /\ report \in [Jobs -> LoggedReports] /\ pending \in Seq(Jobs) /\ clock \in Nat
      /\ \A k \in Jobs : report[k].requested_at \in Nat
      /\ repoLock \in [Repos -> Holders] /\ RepoOf \in [Jobs -> Repos]
      /\ submit \in [Jobs -> SubmitPc]
  BY RepoAssumption, BoundsAssumption
  DEF TypeOK, LogTyped, QueueTyped, SubmitTyped, LoggedReports
<1>2. UNCHANGED phase
  BY DEF RequestStep, SubmitPreflight, SubmitRefused, SubmitRecord, SubmitEnqueue,
         CancelQueued, CancelLaunched
<1>3. \A k, l \in Jobs : submit[k] # "idle" /\ submit[l] # "idle" /\ RepoOf[k] = RepoOf[l] => k = l
  BY LocksDiffer DEF OrderInv, SubmitHoldsLock
<1>4. CASE SubmitPreflight(j) \/ SubmitRefused(j)
  <2>1. /\ UNCHANGED <<report, clock, pending>>
        /\ \A k \in Jobs : k # j => submit'[k] = submit[k]
        /\ submit[j] # "recorded" /\ submit'[j] # "recorded"
    BY <1>4, <1>1 DEF SubmitPreflight, SubmitRefused
  <2>2. SubmitHoldsLock'
    <3>1. CASE SubmitPreflight(j)
      <4>1. repoLock[RepoOf[j]] = Nobody /\ repoLock' = [repoLock EXCEPT ![RepoOf[j]] = BySubmit(j)]
        BY <3>1 DEF SubmitPreflight, Free, Hold
      <4>2. \A k \in Jobs : k # j /\ submit[k] # "idle" => RepoOf[k] # RepoOf[j]
        BY <4>1, LocksDiffer DEF OrderInv, SubmitHoldsLock
      <4> QED BY <1>1, <2>1, <4>1, <4>2 DEF OrderInv, SubmitHoldsLock, BySubmit
    <3>2. CASE SubmitRefused(j)
      <4>1. submit[j] # "idle" /\ submit'[j] = "idle" /\ Release(j, BySubmit(j))
        BY <1>1, <3>2 DEF SubmitRefused
      <4>2. \A k \in Jobs : k # j /\ submit[k] # "idle" => repoLock'[RepoOf[k]] = repoLock[RepoOf[k]]
        BY <1>1, <1>3, <4>1 DEF Release
      <4> QED BY <2>1, <4>1, <4>2 DEF OrderInv, SubmitHoldsLock, BySubmit
    <3> QED BY <1>4, <3>1, <3>2
  <2>3. TimesAreDistinct'
    BY <2>1 DEF OrderInv, TimesAreDistinct
  <2>4. RecordedIsNewest'
    BY <2>1 DEF OrderInv, RecordedIsNewest
  <2>5. LastPlacesAreInOrder'
    <3>1. \A k \in Jobs : submit'[k] = "recorded" <=> submit[k] = "recorded"
      BY <2>1
    <3>2. \A i \in 1 .. Len(pending) : pending[i] \in Jobs /\ (LastPlace(i)' <=> LastPlace(i))
      BY <1>1, <2>1 DEF LastPlace
    <3> QED BY <1>2, <2>1, <3>1, <3>2 DEF OrderInv, LastPlacesAreInOrder
  <2> QED BY <2>2, <2>3, <2>4, <2>5 DEF OrderInv
<1>5. CASE SubmitRecord(j)
  <2>1. /\ report' = [report EXCEPT ![j] = AfterRoundRequested(report[j], clock + 1)]
        /\ clock' = clock + 1 /\ UNCHANGED <<pending, repoLock>>
        /\ submit' = [submit EXCEPT ![j] = "recorded"] /\ submit[j] = "preflight"
    BY <1>5 DEF SubmitRecord, Log
  <2>2. /\ report'[j].requested_at = clock + 1
        /\ \A k \in Jobs : k # j => report'[k] = report[k] /\ submit'[k] = submit[k]
        /\ submit'[j] = "recorded"
    BY <1>1, <2>1 DEF AfterRoundRequested
  <2>3. \A k \in Jobs : report[k].requested_at <= clock
    BY DEF OrderInv, TimesAreDistinct
  <2>4. TimesAreDistinct'
    <3>1. \A k \in Jobs : report'[k].requested_at <= clock'
      BY <1>1, <2>1, <2>2, <2>3
    <3>2. \A k \in Jobs : report'[k].state = "Queued" => report'[k].requested_at > 0
      BY <1>1, <2>2 DEF OrderInv, TimesAreDistinct
    <3>3. ASSUME NEW k \in Jobs, NEW l \in Jobs, k # l, report'[k].requested_at > 0
          PROVE  report'[k].requested_at # report'[l].requested_at
      BY <1>1, <2>2, <2>3, <3>3 DEF OrderInv, TimesAreDistinct
    <3> QED BY <3>1, <3>2, <3>3 DEF TimesAreDistinct
  <2>5. SubmitHoldsLock'
    BY <2>1, <2>2 DEF OrderInv, SubmitHoldsLock, BySubmit
  <2>6. RecordedIsNewest'
    <3>1. ASSUME NEW k \in Jobs, NEW l \in Jobs, submit'[k] = "recorded", l # k, RepoOf[l] = RepoOf[k]
          PROVE  report'[l].requested_at < report'[k].requested_at
      <4>1. CASE k = j
        BY <1>1, <2>2, <2>3, <3>1, <4>1
      <4>2. CASE k # j
        <5>1. submit[k] = "recorded" /\ l # j
          BY <1>3, <2>1, <2>2, <3>1, <4>2
        <5> QED BY <2>2, <3>1, <4>2, <5>1 DEF OrderInv, RecordedIsNewest
      <4> QED BY <4>1, <4>2
    <3> QED BY <3>1 DEF RecordedIsNewest
  <2>7. LastPlacesAreInOrder'
    <3>1. \A i \in 1 .. Len(pending) : pending[i] \in Jobs /\ (LastPlace(i)' <=> LastPlace(i))
      BY <1>1, <2>1 DEF LastPlace
    <3>2. \A k \in Jobs : submit'[k] # "recorded" => submit[k] # "recorded" /\ report'[k] = report[k]
      BY <2>2
    <3> QED BY <1>2, <2>1, <3>1, <3>2 DEF OrderInv, LastPlacesAreInOrder
  <2> QED BY <2>4, <2>5, <2>6, <2>7 DEF OrderInv
<1>6. CASE SubmitEnqueue(j)
  <2>1. /\ UNCHANGED <<report, clock>>
        /\ \A k \in Jobs : k # j => submit'[k] = submit[k]
        /\ submit[j] = "recorded" /\ submit'[j] = "idle" /\ Release(j, BySubmit(j))
    BY <1>6, <1>1 DEF SubmitEnqueue
  <2>2. SubmitHoldsLock'
    <3>1. \A k \in Jobs : k # j /\ submit[k] # "idle" => repoLock'[RepoOf[k]] = repoLock[RepoOf[k]]
      BY <1>1, <1>3, <2>1 DEF Release
    <3> QED BY <2>1, <3>1 DEF OrderInv, SubmitHoldsLock, BySubmit
  <2>3. TimesAreDistinct'
    BY <2>1 DEF OrderInv, TimesAreDistinct
  <2>4. RecordedIsNewest'
    BY <2>1 DEF OrderInv, RecordedIsNewest
  <2>5. LastPlacesAreInOrder'
    <3> SUFFICES ASSUME phase = "serving",
                        NEW i \in 1 .. Len(pending'), NEW k \in 1 .. Len(pending'), i < k,
                        LastPlace(i)', LastPlace(k)',
                        submit'[pending'[i]] # "recorded", submit'[pending'[k]] # "recorded",
                        RepoOf[pending'[i]] = RepoOf[pending'[k]]
                 PROVE  report[pending'[i]].requested_at < report[pending'[k]].requested_at
      BY <1>2, <2>1 DEF LastPlacesAreInOrder
    <3>1. pending' = Append(pending, j)
      BY <1>6 DEF SubmitEnqueue, QueueOpen
    <3>2. /\ Len(pending') = Len(pending) + 1 /\ Len(pending) \in Nat
          /\ \A m \in 1 .. Len(pending) : pending'[m] = pending[m] /\ pending[m] \in Jobs
          /\ pending'[Len(pending) + 1] = j
      BY <1>1, <3>1
    <3>3. i \in 1 .. Len(pending) /\ pending[i] # j
      <4>1. i \in 1 .. Len(pending)
        BY <3>2
      <4>2. Len(pending) + 1 \in i + 1 .. Len(pending')
        BY <3>2, <4>1
      <4>3. pending'[Len(pending) + 1] # pending'[i]
        BY <4>2 DEF LastPlace
      <4> QED BY <3>2, <4>1, <4>3
    <3>4. CASE k = Len(pending) + 1
      BY <2>1, <3>2, <3>3, <3>4 DEF OrderInv, RecordedIsNewest
    <3>5. CASE k # Len(pending) + 1
      <4>1. k \in 1 .. Len(pending)
        BY <3>2, <3>5
      <4>2. Len(pending) + 1 \in k + 1 .. Len(pending')
        BY <3>2, <4>1
      <4>3. pending[k] # j
        BY <3>2, <4>1, <4>2 DEF LastPlace
      <4>4. LastPlace(i) /\ LastPlace(k)
        <5>1. \A m \in {i, k} : m + 1 .. Len(pending) \subseteq m + 1 .. Len(pending')
          BY <3>2, <3>3, <4>1
        <5> QED BY <3>2, <3>3, <4>1, <5>1 DEF LastPlace
      <4>5. submit[pending[i]] # "recorded" /\ submit[pending[k]] # "recorded"
        BY <2>1, <3>2, <3>3, <4>1, <4>3
      <4> QED BY <3>2, <3>3, <4>1, <4>4, <4>5 DEF OrderInv, LastPlacesAreInOrder
    <3> QED BY <3>4, <3>5
  <2> QED BY <2>2, <2>3, <2>4, <2>5 DEF OrderInv
<1>7. CASE CancelQueued(j)
  <2>1. /\ UNCHANGED <<clock, submit, repoLock, pending>>
        /\ Log(j, AfterRoundFailed(report[j]))
    BY <1>7 DEF CancelQueued, LogVerdict
  <2>2. \A k \in Jobs : /\ report'[k].requested_at = report[k].requested_at
                        /\ report'[k].state = "Queued" => report[k].state = "Queued"
    BY <1>1, <2>1 DEF Log, AfterRoundFailed, LoggedReports
  <2> QED BY <1>1, <1>2, <2>1, <2>2, OrderSeesNothing
<1>8. ASSUME NEW r \in Rounds, CancelLaunched(j, r)
      PROVE  OrderInv'
  BY <1>1, <1>8, OrderSeesNothing DEF CancelLaunched
<1> QED BY <1>4, <1>5, <1>6, <1>7, <1>8 DEF RequestStep

LEMMA QueueOpenKept ==
  ASSUME QueueOpen, [Next]_vars
  PROVE  QueueOpen'
<1> USE DEF QueueOpen
<1>1. CASE UNCHANGED vars
  BY <1>1 DEF vars
<1>2. CASE StartDaemon \/ ShutDown \/ DropSlot \/ ExitSettled \/ ExitGraceOver \/ Crash
  BY <1>2 DEF StartDaemon, ShutDown, DropSlot, ExitSettled, ExitGraceOver, Crash, DaemonGone
<1>3. CASE ResumeStep \/ \E j \in Jobs : RequestStep(j)
  BY <1>3 DEF ResumeStep, ResumeReattach, ResumeLost, RequeueAndServe, RequestStep,
     SubmitPreflight, SubmitRefused, SubmitRecord, SubmitEnqueue, CancelQueued, CancelLaunched
<1>4. CASE DispatcherStep
  BY <1>4 DEF DispatcherStep, DispatcherReceives, DispatcherFindsSlot, DispatcherSkips,
     DispatcherReturns, DispatcherLaunches, Stopping
<1>5. ASSUME NEW j \in Jobs, NEW r \in Rounds, TaskStep(j, r) \/ WorldStep(j, r)
      PROVE  QueueOpen'
  BY <1>5 DEF TaskStep, TaskGoesOn, HoldCache, CancelledBeforeStart, StopsBeforeStart, ConfigRead,
     StartRound, ConfigUnreadable, RunnerCreates, RoundLaunched, LaunchFails,
     Reattached, ReattachFails, CancelReachesRunner, CollectVerdict, StreamEnds,
     VerdictMissing, StreamBreaks, RoundIsGivenUp, DropRegistration,
       WorldStep, RoundJudged, RoundEnds, RoundDies,
     RoundObeysCancel
<1> QED BY <1>1, <1>2, <1>3, <1>4, <1>5 DEF Next

LEMMA OrderInvKept ==
  ASSUME TypeOK, RoundsInv, QueueOpen, OrderInv, [Next]_vars
  PROVE  OrderInv'
<1>1. /\ report \in [Jobs -> LoggedReports] /\ pending \in Seq(Jobs)
      /\ \A j \in Jobs : report[j].requested_at \in Nat
  BY BoundsAssumption DEF TypeOK, LogTyped, QueueTyped, LoggedReports
<1>2. CASE UNCHANGED vars
  BY <1>2, <1>1, OrderSeesNothing DEF vars
<1>3. CASE StartDaemon \/ ShutDown \/ DropSlot
  BY <1>3, <1>1, OrderSeesNothing DEF StartDaemon, ShutDown, DropSlot
<1>4. CASE ExitSettled \/ ExitGraceOver \/ Crash
  <2>1. DaemonGone
    BY <1>4 DEF ExitSettled, ExitGraceOver, Crash
  <2>2. TimesAreDistinct'
    BY <2>1 DEF DaemonGone, OrderInv, TimesAreDistinct
  <2>3. SubmitHoldsLock' /\ RecordedIsNewest' /\ LastPlacesAreInOrder'
    BY <2>1 DEF DaemonGone, SubmitHoldsLock, RecordedIsNewest, LastPlacesAreInOrder
  <2> QED BY <2>2, <2>3 DEF OrderInv
<1>5. CASE ResumeStep
  <2>1. ASSUME NEW j \in Jobs, NEW r \in Rounds, ResumeReattach(j, r)
        PROVE  OrderInv'
    BY <1>1, <2>1, OrderSeesNothing DEF ResumeReattach
  <2>2. ASSUME NEW j \in Jobs, ResumeLost(j)
        PROVE  OrderInv'
    <3>1. /\ UNCHANGED <<clock, submit, repoLock, pending, phase>>
          /\ Log(j, AfterRoundFailed(report[j]))
      BY <2>2 DEF ResumeLost, LogVerdict
    <3>2. \A k \in Jobs : /\ report'[k].requested_at = report[k].requested_at
                          /\ report'[k].state = "Queued" => report[k].state = "Queued"
      BY <1>1, <3>1 DEF Log, AfterRoundFailed, LoggedReports
    <3> QED BY <1>1, <3>1, <3>2, OrderSeesNothing
  <2>3. CASE RequeueAndServe
    <3> DEFINE S == {j \in Jobs : owed[j].owes = "Requeue"}
    <3>1. PICK line \in InRequestOrder(S) : pending' = line
      BY <2>3 DEF RequeueAndServe
    <3>2. UNCHANGED <<report, clock, submit, repoLock>> /\ phase = "resuming"
      BY <2>3 DEF RequeueAndServe
    <3>3. \A j \in S : report[j].state = "Queued"
      <4>1. \A j \in S : owed[j] # OwedNothing
        BY DEF OwedNothing
      <4>2. \A j \in S : owed[j] = ResumptionFor(report[j])
        BY <3>2, <4>1 DEF RoundsInv, ResumesFirst
      <4>3. \A j \in S : ResumptionFor(report[j]).owes = "Requeue"
        BY <4>2
      <4>4. ASSUME NEW p, ResumptionFor(p).owes = "Requeue"
            PROVE  p.state = "Queued"
        BY <4>4 DEF ResumptionFor
      <4> QED BY <4>3, <4>4
    <3>4. Cardinality(S) \in Nat /\ line \in [1 .. Cardinality(S) -> S] /\ Len(line) = Cardinality(S)
      <4>1. S \in SUBSET Jobs
        OBVIOUS
      <4>2. IsFiniteSet(S)
        BY <4>1, JobsAssumption, FS_Subset, Zenon
      <4>3. Cardinality(S) \in Nat
        BY <4>2, FS_CardinalityType, Zenon
      <4>4. line \in [1 .. Cardinality(S) -> S] /\ line \in Seq(Jobs)
        BY <4>1, LineIsTyped DEF InRequestOrder
      <4> HIDE DEF S
      <4> QED BY <4>3, <4>4
    <3>5. ASSUME NEW i \in 1 .. Len(line), NEW k \in 1 .. Len(line), i < k
          PROVE  report[line[i]].requested_at < report[line[k]].requested_at
      <4>1. /\ line[i] # line[k]
            /\ report[line[i]].requested_at <= report[line[k]].requested_at
        BY <3>4, <3>5 DEF InRequestOrder
      <4>2. /\ line[i] \in Jobs /\ line[k] \in Jobs
            /\ report[line[i]].state = "Queued"
        BY <3>3, <3>4
      <4>3. report[line[i]].requested_at # report[line[k]].requested_at
        BY <4>1, <4>2 DEF OrderInv, TimesAreDistinct
      <4> QED BY <1>1, <4>1, <4>2, <4>3
    <3>6. LastPlacesAreInOrder'
      BY <3>1, <3>2, <3>5 DEF LastPlacesAreInOrder
    <3>7. TimesAreDistinct'
      BY <3>2 DEF OrderInv, TimesAreDistinct
    <3>8. SubmitHoldsLock' /\ RecordedIsNewest'
      BY <3>2 DEF OrderInv, SubmitHoldsLock, RecordedIsNewest, BySubmit
    <3> QED BY <3>6, <3>7, <3>8 DEF OrderInv
  <2> QED BY <1>5, <2>1, <2>2, <2>3 DEF ResumeStep
<1>6. CASE DispatcherStep
  <2>1. CASE DispatcherReceives
    <3>1. /\ UNCHANGED <<report, clock, submit, repoLock, phase>>
          /\ pending' = Tail(pending) /\ pending # <<>>
      BY <2>1 DEF DispatcherReceives
    <3>2. TimesAreDistinct'
      BY <3>1 DEF OrderInv, TimesAreDistinct
    <3>3. SubmitHoldsLock' /\ RecordedIsNewest'
      BY <3>1 DEF OrderInv, SubmitHoldsLock, RecordedIsNewest, BySubmit
    <3>4. /\ Len(pending') = Len(pending) - 1 /\ Len(pending) \in Nat
          /\ \A i \in 1 .. Len(pending') : i + 1 \in 1 .. Len(pending) /\ pending'[i] = pending[i + 1]
      BY <1>1, <3>1
    <3>5. ASSUME NEW i \in 1 .. Len(pending'), LastPlace(i)'
          PROVE  LastPlace(i + 1)
      <4>1. ASSUME NEW m \in i + 1 + 1 .. Len(pending)
            PROVE  pending[m] # pending[i + 1]
        <5>1. m - 1 \in i + 1 .. Len(pending') /\ m - 1 \in 1 .. Len(pending') /\ m - 1 + 1 = m
          BY <3>4
        <5>2. pending'[m - 1] # pending'[i]
          BY <3>5, <5>1 DEF LastPlace
        <5>3. pending'[m - 1] = pending[m]
          BY <3>4, <5>1
        <5> QED BY <3>4, <5>2, <5>3
      <4> QED BY <4>1 DEF LastPlace
    <3>6. LastPlacesAreInOrder'
      <4> SUFFICES ASSUME phase = "serving",
                          NEW i \in 1 .. Len(pending'), NEW k \in 1 .. Len(pending'), i < k,
                          LastPlace(i)', LastPlace(k)',
                          submit[pending'[i]] # "recorded", submit[pending'[k]] # "recorded",
                          RepoOf[pending'[i]] = RepoOf[pending'[k]]
                   PROVE  report[pending'[i]].requested_at < report[pending'[k]].requested_at
        BY <3>1 DEF LastPlacesAreInOrder
      <4>1. LastPlace(i + 1) /\ LastPlace(k + 1) /\ i + 1 < k + 1
        BY <3>5
      <4> QED BY <3>4, <4>1 DEF OrderInv, LastPlacesAreInOrder
    <3> QED BY <3>2, <3>3, <3>6 DEF OrderInv
  <2>2. CASE DispatcherFindsSlot \/ DispatcherSkips \/ DispatcherReturns
             \/ \E r \in Rounds : DispatcherLaunches(r)
    BY <1>1, <2>2, OrderSeesNothing
    DEF DispatcherFindsSlot, DispatcherSkips, DispatcherReturns, DispatcherLaunches
  <2> QED BY <1>6, <2>1, <2>2 DEF DispatcherStep
<1>7. ASSUME NEW j \in Jobs, NEW r \in Rounds, WorldStep(j, r)
      PROVE  OrderInv'
  BY <1>7, <1>1, OrderSeesNothing DEF WorldStep, RoundJudged, RoundEnds, RoundDies, RoundObeysCancel
<1> QED BY <1>2, <1>3, <1>4, <1>5, <1>6, <1>7, RequestKeepsOrder, TaskKeepsOrder DEF Next

-----------------------------------------------------------------------------

LEMMA InitOfAll ==
  Init => TallyInv /\ StopInv /\ QueueInv /\ QueueOpen /\ OrderInv
<1> SUFFICES ASSUME Init PROVE TallyInv /\ StopInv /\ QueueInv /\ QueueOpen /\ OrderInv
  OBVIOUS
<1> USE DEF Init
<1>1. TallyInv
  <2>1. Tasks = {} /\ LaunchingTasks = {} /\ UnstartedIsEntered
    BY DEF Tasks, LaunchingTasks, LaunchingPc, UnstartedIsEntered
  <2> QED BY <2>1, FS_EmptySet DEF TallyInv, TalliesAreExact
<1>2. StopInv
  BY DEF StopInv, LostRound, OwedNothing, EmptyReport
<1>3. QueueInv /\ QueueOpen
  BY DEF QueueInv, QueuedJobIsOwedALaunch, QueueOpen
<1>4. OrderInv
  BY DEF OrderInv, TimesAreDistinct, SubmitHoldsLock, RecordedIsNewest,
         LastPlacesAreInOrder, EmptyReport
<1> QED BY <1>1, <1>2, <1>3, <1>4

LEMMA TalliesInvHold == Spec => [](TallyInv /\ StopInv)
<1>1. TypeOK /\ SlotInv /\ RoundsInv /\ TallyInv /\ StopInv /\ [Next]_vars =>
        TallyInv' /\ StopInv'
  BY TallyInvKept, StopInvKept
<1> QED BY <1>1, InitOfAll, InvHolds, PTL DEF Spec

\* The two tallies count what they are read for, in every interleaving of the
\* counts taken and the destructors that give them back.
THEOREM TalliesCount == Spec => []TalliesAreExact
<1>1. TallyInv => TalliesAreExact
  BY DEF TallyInv
<1> QED BY <1>1, TalliesInvHold, PTL

\* A daemon stopped within its grace loses no round between its start and its handle.
THEOREM StopsLoseNoRound == Spec => []GracefulStopLosesNoRound
<1>1. StopInv => GracefulStopLosesNoRound
  BY DEF StopInv, GracefulStopLosesNoRound
<1> QED BY <1>1, TalliesInvHold, PTL

\* With one slot, no place in line is used up on a round that was given up.
THEOREM OneSlotForgetsNobody ==
  ASSUME MaxJobs = 1
  PROVE  Spec => []QueuedJobIsOwedALaunch
<1>1. TypeOK /\ SlotInv /\ RoundsInv /\ TallyInv /\ QueueInv /\ [Next]_vars =>
        QueueInv'
  BY QueueInvKept
<1>2. QueueInv => QueuedJobIsOwedALaunch
  BY DEF QueueInv
<1> QED BY <1>1, <1>2, InitOfAll, InvHolds, TalliesInvHold, PTL DEF Spec

\* Jobs of one repository stand in line in the order of their requests, after
\* any cancels, revises and restarts.
THEOREM LineIsFair == Spec => []LineIsInRequestOrder
<1>1. TypeOK /\ RoundsInv /\ QueueOpen /\ OrderInv /\ [Next]_vars => QueueOpen' /\ OrderInv'
  BY QueueOpenKept, OrderInvKept
<1>2. OrderInv => LineIsInRequestOrder
  BY DEF OrderInv, LastPlacesAreInOrder, LineIsInRequestOrder
<1> QED BY <1>1, <1>2, InitOfAll, InvHolds, PTL DEF Spec
=============================================================================
