---------------------------- MODULE EventLogFile ----------------------------
(***************************************************************************)
(* events.jsonl as the bytes say it: one event to a line, appended by      *)
(* several handles, read back line by line.                                *)
(*                                                                         *)
(* A writer writes an event's text, then its newline, in two calls; the    *)
(* process may die between the two, and another handle may write between   *)
(* them.  A reader skips every line that is not one event, once the whole  *)
(* file has decoded as UTF-8.  The text of an event is its number; a line  *)
(* is the sequence of texts in it.  What is read is folded by JobReport:   *)
(* also from logs with events missing, which is what lines torn and glued  *)
(* leave.                                                                  *)
(***************************************************************************)
EXTENDS JobReport, FiniteSets

CONSTANTS
  Writers,     \* handles open on the log: the collector's, a request's
  MaxEvents,   \* bound: events appended
  MaxRound,    \* bound: round numbers in them
  MaxFailures  \* bound: crashes and failed writes

ASSUME WritersAssumption == IsFiniteSet(Writers)
ASSUME FileBounds ==
  MaxEvents \in Nat /\ MaxRound \in Nat \ {0} /\ MaxFailures \in Nat

VARIABLES
  file,     \* the lines; the last one has no newline yet
  writing,  \* [Writers -> the event whose newline is not written, or 0]
  acked,    \* events whose append has returned Ok, in that order
  handed,   \* the events whose text is written, by number
  failures, \* crashes and failed writes so far
  overlaps  \* texts written while another handle's newline was missing

vars == <<file, writing, acked, handed, failures, overlaps>>

\* Any event may follow any other: a job's rounds, a request and a restart
\* append to it, and events are missing from it.  Requests carry the time they
\* were made at, here their number.
Events(at) ==
  {[t |-> "RoundRequested", at |-> at]}
    \cup {[t |-> "RoundStarted", round |-> r] : r \in 1 .. MaxRound}
    \cup {[t |-> "RoundLaunched", handle |-> r] : r \in 1 .. MaxRound}
    \cup {[t |-> t] : t \in {"RoundPassed", "RoundFailed", "BranchPushed"}}

\* Part of an event's text, cut between two characters or inside one: a prompt
\* is text of any kind, and is written as UTF-8.
TornBetween == 0
TornInside  == MaxEvents + 1
Torn == {TornBetween, TornInside}

-----------------------------------------------------------------------------

\* Writes to what is open in append mode land after all that is there.
Extend(text) == file' = [file EXCEPT ![Len(file)] = Append(@, text)]

\* `src.lines()`: one line that is not UTF-8 fails the read of the whole file,
\* and no text appended to it makes it UTF-8 again.
Decodes(lines) == \A i \in DOMAIN lines : ~ Contains(lines[i], TornInside)

IsEvent(line) == Len(line) = 1 /\ line[1] \notin Torn

-----------------------------------------------------------------------------
(* Slips to check the properties against; no definition below uses them.   *)

\* The reader gives up on a file with a line it cannot read.
RefusesABadFile(lines) ==
  LET bad == {i \in DOMAIN lines : lines[i] # <<>> /\ ~ IsEvent(lines[i])}
      readable == SelectSeq(lines, IsEvent)
  IN  IF bad = {} THEN [i \in DOMAIN readable |-> readable[i][1]] ELSE <<>>

\* The flush and Ok of a handle that has written nothing.
AcksUnwritten(w) ==
  /\ file' = Append(file, <<>>)
  /\ acked' = Append(acked, writing[w])
  /\ writing' = [writing EXCEPT ![w] = 0]
  /\ UNCHANGED <<handed, failures, overlaps>>

-----------------------------------------------------------------------------

\* read_events: every line that is not one event is skipped.
AfterLine(texts, line) == IF IsEvent(line) THEN Append(texts, line[1]) ELSE texts

Readable(lines) == FoldLeft(AfterLine, <<>>, lines)

\* What EventLog::read gives, as events.
ReadEvents(lines) ==
  [i \in DOMAIN Readable(lines) |-> handed[Readable(lines)[i]]]

Init ==
  /\ file = << <<>> >>
  /\ writing = [w \in Writers |-> 0]
  /\ acked = <<>>
  /\ handed = <<>>
  /\ failures = 0
  /\ overlaps = 0

\* write_line's first write_all.
WriteText(w) ==
  /\ writing[w] = 0
  /\ Len(handed) < MaxEvents
  /\ \E e \in Events(Len(handed) + 1) : handed' = Append(handed, e)
  /\ writing' = [writing EXCEPT ![w] = Len(handed')]
  /\ Extend(Len(handed'))
  /\ overlaps' = IF \E x \in Writers : writing[x] # 0 THEN overlaps + 1 ELSE overlaps
  /\ UNCHANGED <<acked, failures>>

\* Its second, the flush, and Ok.
WriteNewline(w) ==
  /\ writing[w] # 0
  /\ file' = Append(file, <<>>)
  /\ acked' = Append(acked, writing[w])
  /\ writing' = [writing EXCEPT ![w] = 0]
  /\ UNCHANGED <<handed, failures, overlaps>>

\* The disk takes part of the text, or the text and no newline: append returns
\* the error, which its caller treats as fatal to what it was doing.
WriteFails(w) ==
  /\ failures < MaxFailures
  /\ failures' = failures + 1
  /\ \/ /\ writing[w] = 0
        /\ \E text \in Torn : Extend(text)
        /\ UNCHANGED writing
     \/ /\ writing[w] # 0
        /\ writing' = [writing EXCEPT ![w] = 0]
        /\ UNCHANGED file
  /\ UNCHANGED <<acked, handed, overlaps>>

\* The daemon is killed.  The next one opens the file and appends to it as is.
Crash ==
  /\ failures < MaxFailures
  /\ failures' = failures + 1
  /\ writing' = [w \in Writers |-> 0]
  /\ UNCHANGED <<file, acked, handed, overlaps>>

Next ==
  \/ \E w \in Writers : WriteText(w) \/ WriteNewline(w) \/ WriteFails(w)
  \/ Crash

Spec == Init /\ [][Next]_vars

-----------------------------------------------------------------------------

TypeOK ==
  /\ file \in Seq(Seq(0 .. MaxEvents + 1)) /\ file # <<>>
  /\ writing \in [Writers -> 0 .. MaxEvents]
  /\ acked \in Seq(1 .. MaxEvents)
  /\ handed \in Seq(UNION {Events(i) : i \in 1 .. MaxEvents})
  /\ Len(handed) <= MaxEvents
  /\ \A i \in DOMAIN handed : handed[i] \in Events(i)
  /\ failures \in 0 .. MaxFailures
  /\ overlaps \in 0 .. MaxEvents

\* A crash or a failed write costs at most the event it interrupts and the one
\* appended next, whose text the first one's line takes in; two handles writing
\* at once cost at most the events of both.  Every other event appended is
\* read, in the order the texts were written.
LossesAreAccountedFor ==
  Decodes(file) =>
    LET lost == {i \in DOMAIN acked : ~ Contains(Readable(file), acked[i])}
    IN  /\ Cardinality(lost) <= failures + 2 * overlaps
        /\ \A i, k \in DOMAIN Readable(file) :
             i < k => Readable(file)[i] < Readable(file)[k]

At(log, kinds) == {i \in DOMAIN log : log[i].t \in kinds}
LastOf(log, kinds) == IF At(log, kinds) = {} THEN 0 ELSE Max(At(log, kinds))

StateKinds == {"RoundRequested", "RoundStarted", "RoundPassed", "RoundFailed"}
StateAfter == [RoundRequested |-> "Queued", RoundStarted |-> "Running",
               RoundPassed |-> "Passed", RoundFailed |-> "Failed"]

\* The report's fields mean what JobReport documents, of whatever events the
\* file still gives: the state of the last event that changes it; the highest
\* round any RoundStarted records; the handle of the latest round once it has
\* launched, none before; the time of the latest request.
ReportMeansWhatItSays ==
  LET log == ReadEvents(file)
      p == FromEvents(log)
      last == LastOf(log, StateKinds)
      opened == LastOf(log, {"RoundRequested", "RoundStarted"})
      launch == LastOf(log, {"RoundLaunched"})
      asked == LastOf(log, {"RoundRequested"})
  IN /\ p.state = IF last = 0 THEN "Pending" ELSE StateAfter[log[last].t]
     /\ p.rounds = Max({0} \cup {log[i].round : i \in At(log, {"RoundStarted"})})
     /\ p.launched = IF launch > opened THEN log[launch].handle ELSE NoHandle
     /\ p.requested_at = IF asked = 0 THEN 0 ELSE log[asked].at

\* A daemon starting on the log requeues what was asked for and never started,
\* reattaches to what was launched without a verdict, closes what started and
\* was never recorded as launched, and leaves the rest alone.
RestartOwesWhatTheLogLacks ==
  LET log == ReadEvents(file)
      owes == ResumptionFor(FromEvents(log)).owes
      asked == LastOf(log, {"RoundRequested"})
      started == LastOf(log, {"RoundStarted"})
      judged == LastOf(log, {"RoundPassed", "RoundFailed"})
      launch == LastOf(log, {"RoundLaunched"})
      unjudgedRound == started > asked /\ started > judged
  IN owes = IF asked > started /\ asked > judged THEN "Requeue"
            ELSE IF unjudgedRound /\ launch > started THEN "Reattach"
            ELSE IF unjudgedRound THEN "LostWhileLaunching"
            ELSE "Nothing"

\* "Append one event and flush, so a crashing *process* cannot lose it": what
\* append has returned Ok for is read.
AckedEventsAreRead ==
  \A i \in DOMAIN acked : Decodes(file) /\ Contains(Readable(file), acked[i])
=============================================================================
