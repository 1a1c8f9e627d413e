----------------------------- MODULE Collector -----------------------------
(***************************************************************************)
(* A round's stream, collected into the job's logs across restarts of the  *)
(* collector: collect.rs, and the position it keeps of frame.rs.           *)
(*                                                                         *)
(* A frame carries its number in the stream; a line that is not a frame -- *)
(* run's own stderr, a backtrace -- carries none.  The stream is kept by   *)
(* the runner and replayed from its start to whoever reattaches; it may be *)
(* cut, within a line or for good.  A crash or a failed write may tear the *)
(* event appended to the log, and that line takes in the next one; of      *)
(* the output log, an append happens or does not.                          *)
(***************************************************************************)
EXTENDS Naturals, FiniteSets, Sequences

CONSTANTS
  MaxLines,        \* bound: lines in the round's stream
  MaxInterruptions \* bound: times the collector is killed, a write fails, or the stream is cut

ASSUME CollectorBounds ==
  MaxLines \in Nat /\ MaxInterruptions \in Nat

VARIABLES
  \* the round, on its runner
  stream,     \* the lines it has printed
  round,      \* "running" or "ended"
  told,       \* whether the runner was told to cancel it
  cut,        \* the frames that were cut off while they were read
  broken,     \* whether a connection to it ended before it did
  \* on disk
  events,     \* the job's event log: this round's part of it
  last_line,  \* the log's last line: "whole", whole but for its newline
              \* ("text"), or "torn"
  output,     \* the job's output log
  position,   \* the position file, 0 while there is none
  written,    \* position.new, 0 while there is none
  \* the collector
  pc,         \* where it is
  next_line,  \* the line of the stream it reads next
  last_seq, replaying_to,  \* its StreamPosition
  line,       \* the line in hand
  collected,  \* whether a verdict is among the events it has collected
  cancel,     \* whether its cancel token has fired
  cancelling, \* whether it has acted on that
  \* bound
  interruptions

worldVars  == <<stream, round, cut, broken>>
eventsVars == <<events, last_line>>
diskVars   == <<eventsVars, output, position, written>>
whereVars  == <<next_line, last_seq, replaying_to, line>>
cancelVars == <<told, cancel, cancelling>>
vars == <<worldVars, diskVars, pc, whereVars, collected, cancelVars, interruptions>>

EventKinds == {"event", "verdict"}
Lines == [seq : 1 .. MaxLines, is : EventKinds \cup {"output"}] \cup [seq : {0}, is : {"raw"}]
NoLine == [seq |-> 0, is |-> "raw"]
IsFrame(l) == l.seq # 0

\* An entry of a log: the line of the stream it was made from, 0 for a failure
\* the collector records itself; of the event log, whether it is read.
Entry(n, is) == [line |-> n, is |-> is]
Event(n, is, read) == [line |-> n, is |-> is, read |-> read]
Judged == \E i \in DOMAIN events : events[i].is = "verdict" /\ events[i].read

\* "awaiting": the stream is over and the round may not be; its termination is
\* awaited, and the token looked at no more.
Pc == {"idle", "reading", "routed", "recording", "renaming", "awaiting", "settling",
       "waitingOut", "over", "gaveUp"}

TypeOK ==
  /\ stream \in Seq(Lines) /\ Len(stream) <= MaxLines
  /\ round \in {"running", "ended"} /\ told \in BOOLEAN
  /\ cut \in SUBSET (1 .. MaxLines) /\ broken \in BOOLEAN
  /\ events \in Seq([line : 0 .. MaxLines, is : EventKinds, read : BOOLEAN])
  /\ last_line \in {"whole", "text", "torn"}
  /\ output \in Seq([line : 1 .. MaxLines, is : {"output", "raw"}])
  /\ position \in 0 .. MaxLines /\ written \in 0 .. MaxLines
  /\ pc \in Pc
  /\ next_line \in 1 .. MaxLines + 1
  /\ last_seq \in 0 .. MaxLines /\ replaying_to \in 0 .. MaxLines
  /\ line \in Lines
  /\ collected \in BOOLEAN
  /\ cancel \in BOOLEAN /\ cancelling \in BOOLEAN
  /\ interruptions \in 0 .. MaxInterruptions

-----------------------------------------------------------------------------
(* Slips to check the properties against.                                  *)

\* Never notices that the replay has reached what was routed.
ForgetsTheReplay(l) ==
  [last_seq |-> IF IsFrame(l) /\ l.seq > last_seq THEN l.seq ELSE last_seq,
   replaying_to |-> replaying_to]

\* Takes the last frame routed for a new one.
RoutesTheLastAgain(l) ==
  IF IsFrame(l) THEN l.seq < last_seq ELSE replaying_to > 0

\* Resumes without the bookmark.
StartsAfresh == 0

\* Settles a verdict whether or not one was collected.
SettlesAlways ==
  /\ pc = "settling"
  /\ events' = Append(events, Event(0, "verdict", last_line = "whole"))
  /\ last_line' = "whole"
  /\ pc' = "over"
  /\ UNCHANGED <<worldVars, output, position, written, whereVars, collected,
                 cancelVars, interruptions>>

\* Gives up without telling the round.
LeavesItRunning ==
  /\ pc \in {"routed", "recording", "renaming"}
  /\ interruptions < MaxInterruptions
  /\ interruptions' = interruptions + 1
  /\ pc' = "waitingOut"
  /\ UNCHANGED <<worldVars, diskVars, whereVars, collected, cancelVars>>

\* Sends what commands printed to the event log.
LogsOutputAsEvents ==
  /\ pc = "routed"
  /\ events' = Append(events, Event(next_line - 1, line.is, TRUE))
  /\ collected' = (collected \/ line.is = "verdict")
  /\ pc' = IF IsFrame(line) THEN "recording" ELSE "reading"
  /\ UNCHANGED <<worldVars, last_line, output, position, written, whereVars, cancelVars,
                 interruptions>>

-----------------------------------------------------------------------------
(* StreamPosition.                                                         *)

\* Whether a line was collected before: a frame at or before the last routed,
\* or a line that is none while the replay has yet to reach that frame.
AlreadyCollected(l) ==
  IF IsFrame(l) THEN l.seq <= last_seq ELSE replaying_to > 0

\* The position past a line.
Past(l) ==
  CASE ~ IsFrame(l) -> [last_seq |-> last_seq, replaying_to |-> replaying_to]
    [] IsFrame(l) /\ l.seq <= last_seq ->
         [last_seq |-> last_seq,
          replaying_to |-> IF l.seq >= replaying_to THEN 0 ELSE replaying_to]
    [] OTHER -> [last_seq |-> l.seq, replaying_to |-> 0]

MoveTo(p) == last_seq' = p.last_seq /\ replaying_to' = p.replaying_to

-----------------------------------------------------------------------------
(* The event log: a text and then its newline.                             *)

\* Text on the log's last line makes that line no event.
Spoilt ==
  IF last_line = "text" THEN [events EXCEPT ![Len(events)].read = FALSE] ELSE events

TextWritten(n, is) == Append(Spoilt, Event(n, is, last_line = "whole"))

AppendEvent(n, is) == events' = TextWritten(n, is) /\ last_line' = "whole"

\* None of it is written, or part of its text, or the text and no newline.
TearEvent(n, is) ==
  \/ UNCHANGED eventsVars
  \/ events' = Spoilt /\ last_line' = "torn"
  \/ /\ events' = TextWritten(n, is)
     /\ last_line' = IF last_line = "whole" THEN "text" ELSE "torn"

\* What a crash or a failed write leaves of the append under way.
Interrupted ==
  CASE pc = "routed" /\ line.is \in EventKinds -> TearEvent(next_line - 1, line.is)
    [] pc = "settling" /\ ~ collected -> TearEvent(0, "verdict")
    [] OTHER -> UNCHANGED eventsVars

-----------------------------------------------------------------------------

Init ==
  /\ stream = <<>> /\ round = "running" /\ told = FALSE /\ cut = {} /\ broken = FALSE
  /\ events = <<>> /\ last_line = "whole" /\ output = <<>> /\ position = 0 /\ written = 0
  /\ pc = "idle"
  /\ next_line = 1 /\ last_seq = 0 /\ replaying_to = 0 /\ line = NoLine
  /\ collected = FALSE
  /\ cancel = FALSE /\ cancelling = FALSE
  /\ interruptions = 0

(* The round: frames numbered from 1, one verdict at most, and lines of no *)
(* number anywhere; after its verdict it delivers and says so.             *)

Frames == {i \in DOMAIN stream : IsFrame(stream[i])}
RoundSaysVerdict == \E i \in DOMAIN stream : stream[i].is = "verdict"

RoundPrints ==
  /\ round = "running"
  /\ Len(stream) < MaxLines
  /\ \/ \E is \in {"event", "output", "verdict"} \ (IF RoundSaysVerdict THEN {"verdict"} ELSE {}) :
          stream' = Append(stream, [seq |-> Cardinality(Frames) + 1, is |-> is])
     \/ stream' = Append(stream, NoLine)
  /\ UNCHANGED <<round, cut, broken, diskVars, pc, whereVars, collected, cancelVars, interruptions>>

\* With its verdict or without.
RoundExits ==
  /\ round = "running"
  /\ round' = "ended"
  /\ UNCHANGED <<stream, cut, broken, diskVars, pc, whereVars, collected, cancelVars, interruptions>>

-----------------------------------------------------------------------------
(* The collector.                                                          *)

\* last_seq_routed: what the position file says.
LastSeqRouted == position

\* A daemon collects a round it launched, or one whose log has no verdict.
StartCollecting ==
  /\ pc = "idle"
  /\ ~ Judged
  /\ pc' = "reading"
  /\ next_line' = 1
  /\ last_seq' = LastSeqRouted
  /\ replaying_to' = LastSeqRouted
  /\ UNCHANGED <<worldVars, diskVars, line, collected, cancelVars, interruptions>>

\* What there is of a frame that was cut is none.
Take(l) ==
  /\ pc = "reading"
  /\ next_line <= Len(stream)
  /\ IF AlreadyCollected(l)
     THEN pc' = "reading" /\ MoveTo(Past(l)) /\ UNCHANGED line
     ELSE pc' = "routed" /\ line' = l /\ UNCHANGED <<last_seq, replaying_to>>
  /\ next_line' = next_line + 1
  /\ UNCHANGED <<stream, round, broken, diskVars, collected, cancelVars>>

TakeLine ==
  /\ Take(stream[next_line])
  /\ UNCHANGED <<cut, interruptions>>

TakeCutFrame ==
  /\ Take(NoLine)
  /\ IsFrame(stream[next_line])
  /\ interruptions < MaxInterruptions
  /\ interruptions' = interruptions + 1
  /\ cut' = cut \cup {next_line}

\* The line in hand goes to its log.
AppendLine ==
  /\ pc = "routed"
  /\ IF line.is \in EventKinds
     THEN AppendEvent(next_line - 1, line.is) /\ UNCHANGED output
     ELSE output' = Append(output, Entry(next_line - 1, line.is)) /\ UNCHANGED eventsVars
  /\ collected' = (collected \/ line.is = "verdict")
  /\ pc' = IF Past(line).last_seq # last_seq THEN "recording" ELSE "reading"
  /\ UNCHANGED <<worldVars, position, written, whereVars, cancelVars, interruptions>>

\* record_position writes the bookmark beside the one there is ...
WritePosition ==
  /\ pc = "recording"
  /\ written' = Past(line).last_seq
  /\ pc' = "renaming"
  /\ UNCHANGED <<worldVars, eventsVars, output, position, whereVars, collected,
                 cancelVars, interruptions>>

\* ... and renames it over that.
RenamePosition ==
  /\ pc = "renaming"
  /\ position' = written /\ written' = 0
  /\ MoveTo(Past(line))
  /\ pc' = "reading" /\ line' = NoLine
  /\ UNCHANGED <<worldVars, eventsVars, output, next_line, collected,
                 cancelVars, interruptions>>

\* A log or the position file cannot be written: the round is cancelled and
\* the rest of its stream discarded.
WriteFails ==
  /\ pc \in {"routed", "recording", "renaming"}
  /\ interruptions < MaxInterruptions
  /\ interruptions' = interruptions + 1
  /\ Interrupted
  /\ told' = TRUE
  /\ pc' = "waitingOut" /\ line' = NoLine
  /\ UNCHANGED <<worldVars, output, position, written, next_line, last_seq, replaying_to,
                 collected, cancel, cancelling>>

WaitedOut ==
  /\ pc = "waitingOut"
  /\ round = "ended"
  /\ pc' = "gaveUp"
  /\ UNCHANGED <<worldVars, diskVars, whereVars, collected, cancelVars, interruptions>>

\* The token fires: a client's cancel.  Later, there is nothing left to cancel.
CancelFires ==
  /\ pc \in {"reading", "routed", "recording", "renaming", "awaiting"}
  /\ ~ cancel
  /\ cancel' = TRUE
  /\ UNCHANGED <<worldVars, diskVars, pc, whereVars, collected, told, cancelling,
                 interruptions>>

\* The runner is told, once, and its stream read on.
CancelSeen ==
  /\ pc = "reading"
  /\ cancel /\ ~ cancelling
  /\ told' = TRUE
  /\ cancelling' = TRUE
  /\ UNCHANGED <<worldVars, diskVars, pc, whereVars, collected, cancel, interruptions>>

StreamEnds ==
  /\ pc = "reading"
  /\ next_line > Len(stream)
  /\ round = "ended"
  /\ pc' = "settling"
  /\ UNCHANGED <<worldVars, diskVars, whereVars, collected, cancelVars, interruptions>>

\* The connection to the round drops or is given up, and next_line says the
\* same: collect leaves the loop that looks at the token.
StreamBreaks ==
  /\ pc = "reading"
  /\ interruptions < MaxInterruptions
  /\ interruptions' = interruptions + 1
  /\ pc' = "awaiting"
  /\ broken' = TRUE
  /\ UNCHANGED <<stream, round, cut, diskVars, whereVars, collected, cancelVars>>

\* termination returns: the round has ended ...
Terminates ==
  /\ pc = "awaiting"
  /\ round = "ended"
  /\ pc' = "settling"
  /\ UNCHANGED <<worldVars, diskVars, whereVars, collected, cancelVars, interruptions>>

\* ... or it cannot be awaited: it is taken for ended and removed, which may
\* fail.
RoundIsGivenUp ==
  /\ round = "running"
  /\ round' \in {"running", "ended"}
  /\ broken' = TRUE
  /\ \/ pc = "awaiting" /\ pc' = "settling" /\ UNCHANGED interruptions
     \/ /\ pc = "waitingOut" /\ pc' = "gaveUp"
        /\ interruptions < MaxInterruptions
        /\ interruptions' = interruptions + 1
  /\ UNCHANGED <<stream, cut, diskVars, whereVars, collected, cancelVars>>

\* verdict_missing_from: what this collection has collected, not the log.
Settle ==
  /\ pc = "settling"
  /\ IF ~ collected THEN AppendEvent(0, "verdict") ELSE UNCHANGED eventsVars
  /\ pc' = "over"
  /\ UNCHANGED <<worldVars, output, position, written, whereVars, collected,
                 cancelVars, interruptions>>

SettleFails ==
  /\ pc = "settling"
  /\ ~ collected
  /\ interruptions < MaxInterruptions
  /\ interruptions' = interruptions + 1
  /\ Interrupted
  /\ pc' = "gaveUp"
  /\ UNCHANGED <<worldVars, output, position, written, whereVars, collected, cancelVars>>

\* The process is killed, or stopped: what it had in memory is gone.
Restart ==
  /\ pc # "idle"
  /\ interruptions < MaxInterruptions
  /\ interruptions' = interruptions + 1
  /\ Interrupted
  /\ pc' = "idle"
  /\ next_line' = 1 /\ last_seq' = 0 /\ replaying_to' = 0 /\ line' = NoLine
  /\ collected' = FALSE
  /\ cancel' = FALSE /\ cancelling' = FALSE
  /\ UNCHANGED <<worldVars, output, position, written, told>>

CollectorStep ==
  \/ StartCollecting \/ TakeLine \/ AppendLine \/ WritePosition \/ RenamePosition
  \/ WaitedOut \/ CancelSeen \/ StreamEnds \/ Terminates \/ Settle

Next ==
  \/ RoundPrints \/ RoundExits
  \/ CollectorStep
  \/ TakeCutFrame \/ StreamBreaks \/ RoundIsGivenUp \/ WriteFails \/ SettleFails
  \/ CancelFires \/ Restart

Spec == Init /\ [][Next]_vars

-----------------------------------------------------------------------------
(* What collecting promises.                                               *)

\* Entries made from lines of the stream, of either log; of those, from frames.
FromStream(log) == {i \in DOMAIN log : log[i].line # 0}
FramesIn(log) == {i \in FromStream(log) : log[i].is # "raw"}
LinesIn(log, entries) == {log[i].line : i \in entries}

Unread == {i \in DOMAIN events : ~ events[i].read}
Logged == LinesIn(events, FromStream(events)) \cup LinesIn(output, DOMAIN output)
Readable == LinesIn(events, FromStream(events) \ Unread) \cup LinesIn(output, DOMAIN output)

\* The line in hand, not in a log yet.
InHand == IF pc \in {"routed", "waitingOut", "gaveUp"} THEN {next_line - 1} ELSE {}

\* Nothing read is dropped: a line the collector is past -- also one a resumed
\* collection took for collected, a line without a number among them -- is in
\* a log, and can be read there but for one line for each crash and failed
\* write; but for frames that were cut, and lines without a number after that.
EveryLinePassedIsInALog ==
  LET passed == (1 .. next_line - 1) \ InHand
      due == {n \in passed \ cut : cut = {} \/ IsFrame(stream[n])}
  IN  /\ due \subseteq Logged
      /\ Cardinality(due \ Readable) <= interruptions

\* The event log tells the round's events in the order it had them; all but
\* frames that were cut once and come whole to a later collection.
EventsAreInOrder ==
  \A i, k \in FromStream(events) :
    i < k => events[i].line <= events[k].line \/ events[k].line \in cut

\* "A crash between routing a frame and rewriting the file repeats that one
\* frame": no restart or failed write repeats more frames than one.
RestartRepeatsOneFrame ==
  Cardinality(FramesIn(events)) + Cardinality(FramesIn(output))
    <= Cardinality(LinesIn(events, FramesIn(events)) \cup LinesIn(output, FramesIn(output)))
         + interruptions

\* One verdict at most is read, and it is the round's own if it had one: a
\* failure is made up for it only after its own was cut off or torn.  A
\* collection that ends has one in the log, unless that was torn.
VerdictIsTheRounds ==
  LET verdicts == {i \in DOMAIN events : events[i].is = "verdict"}
      tornVerdicts == {i \in verdicts : ~ events[i].read}
      readVerdicts == verdicts \ tornVerdicts
  IN  /\ Cardinality(readVerdicts) <= 1
      /\ \A i \in readVerdicts :
           events[i].line = 0 /\ RoundSaysVerdict =>
             broken \/ cut # {} \/ \E k \in tornVerdicts : events[k].line # 0
      /\ pc = "over" => verdicts # {}

-----------------------------------------------------------------------------
(* Liveness: the collector is scheduled, select! looks at its branches in  *)
(* random order, and a round told to stop stops.                           *)

FairSpec ==
  Spec /\ WF_vars(CollectorStep) /\ SF_vars(CancelSeen) /\ WF_vars(told /\ RoundExits)

\* A collection that cannot write, and one that is cancelled, still comes to
\* its end, whatever the round goes on printing -- but for one whose stream
\* broke before the runner was told of the cancel: it lasts while the round does.
CancelledCollectionEnds ==
  (pc = "waitingOut" \/ (cancel /\ pc \in {"reading", "awaiting"}))
    ~> \/ pc \in {"over", "gaveUp", "idle"}
       \/ pc = "awaiting" /\ ~ told /\ round = "running"
=============================================================================
