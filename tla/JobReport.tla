------------------------------ MODULE JobReport ------------------------------
(***************************************************************************)
(* A job's event log and what the daemon reads out of it.                  *)
(*                                                                         *)
(* A job is its log: report.rs folds the events one by one, and every      *)
(* decision of the daemon -- may this job be revised, cancelled, launched, *)
(* reattached -- is taken from that fold and from nothing else.  This      *)
(* module keeps the four facts those decisions read.  The facts that are   *)
(* only printed (prompts, diff, duration, branch, pull request) are left   *)
(* out, and so are the events that change only those.                      *)
(*                                                                         *)
(* A runner handle is abstracted to the round it was issued for, so that   *)
(* a handle recorded for one round and used for another can be told.       *)
(***************************************************************************)
EXTENDS Naturals, Sequences, SequencesExt

JobState == {"Pending", "Queued", "Running", "Passed", "Failed"}

\* A round is over for its job once the log holds its verdict.
Verdicts == {"Passed", "Failed"}

\* No runner handle is recorded: `launched: None`.
NoHandle == 0

Reports == [state : JobState, rounds : Nat, launched : Nat, requested_at : Nat]

\* A log with no event in it.
EmptyReport ==
  [state |-> "Pending", rounds |-> 0, launched |-> NoHandle, requested_at |-> 0]

-----------------------------------------------------------------------------
(* Slips to check the properties against; no definition below uses them.   *)

\* Counts a round when it is asked for, and again when it starts.
CountsRoundsAsked(p, at) ==
  [state |-> "Queued", rounds |-> p.rounds + 1, launched |-> NoHandle, requested_at |-> at]

\* Lets a queued job be asked for again.
RevisesWhileQueued(p) == p.state # "Running"

\* Looks for the queued round under the number of the last one.
AwaitsTheLastRound(round, p) ==
  p.state \in {"Queued", "Running"} /\ p.rounds = round

\* Closes no round lost mid-launch.
ForgetsLostRounds(p) ==
  CASE p.state = "Queued" -> [owes |-> "Requeue", round |-> 0]
    [] p.state = "Running" /\ p.launched # NoHandle ->
         [owes |-> "Reattach", round |-> p.rounds]
    [] OTHER -> [owes |-> "Nothing", round |-> 0]

\* A revise keeps the handle of the round before it.
KeepsOldHandle(p, at) == [p EXCEPT !.state = "Queued", !.requested_at = at]

-----------------------------------------------------------------------------
(* One operator per kind of event: the fold's step on it.                  *)

AfterRoundRequested(p, at) ==
  [state |-> "Queued", rounds |-> p.rounds, launched |-> NoHandle, requested_at |-> at]

\* `(*round).max(self.rounds)`: a late RoundStarted never lowers the count.
AfterRoundStarted(p, round) ==
  [state |-> "Running", rounds |-> IF round > p.rounds THEN round ELSE p.rounds,
   launched |-> NoHandle, requested_at |-> p.requested_at]

AfterRoundLaunched(p, handle) == [p EXCEPT !.launched = handle]

AfterRoundPassed(p) == [p EXCEPT !.state = "Passed"]

AfterRoundFailed(p) == [p EXCEPT !.state = "Failed"]

\* The whole match; every kind not listed keeps the four facts.
AfterEvent(p, e) ==
  CASE e.t = "RoundRequested" -> AfterRoundRequested(p, e.at)
    [] e.t = "RoundStarted"   -> AfterRoundStarted(p, e.round)
    [] e.t = "RoundLaunched"  -> AfterRoundLaunched(p, e.handle)
    [] e.t = "RoundPassed"    -> AfterRoundPassed(p)
    [] e.t = "RoundFailed"    -> AfterRoundFailed(p)
    [] OTHER                  -> p

FromEvents(events) == FoldLeft(AfterEvent, EmptyReport, events)

-----------------------------------------------------------------------------
(* The decisions taken from a report.                                      *)

\* A round numbered `round` is the one the job waits on: not yet started, or
\* running -- rather than one past its verdict.
IsAwaitedBy(round, p) ==
  \/ p.state = "Queued"  /\ p.rounds + 1 = round
  \/ p.state = "Running" /\ p.rounds = round

\* What a daemon starting on the root owes the job.
ResumptionFor(p) ==
  CASE p.state = "Queued" ->
         [owes |-> "Requeue", round |-> 0]
    [] p.state = "Running" /\ p.launched # NoHandle ->
         [owes |-> "Reattach", round |-> p.rounds]
    [] p.state = "Running" /\ p.launched = NoHandle ->
         [owes |-> "LostWhileLaunching", round |-> p.rounds]
    [] OTHER ->
         [owes |-> "Nothing", round |-> 0]

\* A revise is refused while the job is queued or running.
MayBeAskedFor(p) == p.state \notin {"Queued", "Running"}
=============================================================================
