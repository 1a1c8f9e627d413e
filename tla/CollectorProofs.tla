-------------------------- MODULE CollectorProofs --------------------------
(***************************************************************************)
(* What collecting promises, for any number of lines and interruptions:    *)
(* the invariant of the collector, the position and the two logs, and the  *)
(* properties of Collector it has as parts or implies.                     *)
(***************************************************************************)
EXTENDS Collector, FiniteSetTheorems, SequenceTheorems, TLAPS

USE CollectorBounds

-----------------------------------------------------------------------------
(* Types.                                                                  *)

WorldTypes ==
  /\ stream \in Seq(Lines) /\ Len(stream) <= MaxLines
  /\ round \in {"running", "ended"}
  /\ cut \in SUBSET (1 .. MaxLines)

EventLog == Seq([line : 0 .. MaxLines, is : EventKinds, read : BOOLEAN])
OutputLog == Seq([line : 1 .. MaxLines, is : {"output", "raw"}])

LogTypes ==
  /\ events \in EventLog
  /\ last_line \in {"whole", "text", "torn"}
  /\ output \in OutputLog

PlaceTypes ==
  /\ position \in 0 .. MaxLines /\ written \in 0 .. MaxLines
  /\ pc \in Pc
  /\ next_line \in 1 .. MaxLines + 1
  /\ last_seq \in 0 .. MaxLines /\ replaying_to \in 0 .. MaxLines
  /\ line \in Lines
  /\ interruptions \in 0 .. MaxInterruptions

FlagTypes ==
  /\ told \in BOOLEAN /\ broken \in BOOLEAN
  /\ collected \in BOOLEAN
  /\ cancel \in BOOLEAN /\ cancelling \in BOOLEAN

LEMMA TypesInParts ==
  /\ TypeOK <=> WorldTypes /\ LogTypes /\ PlaceTypes /\ FlagTypes
  /\ TypeOK' <=> WorldTypes' /\ LogTypes' /\ PlaceTypes' /\ FlagTypes'
BY Zenon DEF TypeOK, WorldTypes, LogTypes, PlaceTypes, FlagTypes, EventLog, OutputLog

-----------------------------------------------------------------------------
(* The invariant.                                                          *)

\* A collection that reads on, one with a line in hand, one with that line in its log.
Reading == {"reading", "routed", "recording", "renaming"}
Holding == {"routed", "recording", "renaming"}
Recording == {"recording", "renaming"}

\* Frames are numbered upwards, and the position is the number of one.
StreamIsNumbered ==
  /\ \A i, k \in Frames : i < k => stream[i].seq < stream[k].seq
  /\ \A i \in Frames : stream[i].seq <= Cardinality(Frames)
  /\ \A i, k \in DOMAIN stream : stream[i].is = "verdict" /\ stream[k].is = "verdict" => i = k
  /\ position > 0 => \E i \in Frames : stream[i].seq = position

\* The line in hand is the last one read, new to the position; what there is
\* of a cut frame is none.
LineInHand ==
  /\ next_line <= Len(stream) + 1
  /\ pc # "idle" => last_seq = position
  /\ pc \in Holding =>
       /\ next_line > 1
       /\ \/ line = stream[next_line - 1] /\ (IsFrame(line) => line.seq > position)
          \/ line = NoLine /\ next_line - 1 \in cut
  /\ pc \in Recording => IsFrame(line) /\ (line.is \in EventKinds => last_line = "whole")
  /\ pc = "renaming" => written = line.seq
  /\ pc = "idle" => ~ collected /\ next_line = 1

\* While the replay is behind the position no frame at it was read.
ReplayIsBehind ==
  pc # "idle" =>
    /\ replaying_to \in {0, position}
    /\ cut = {} /\ replaying_to > 0 =>
         \A i \in Frames : i < next_line => stream[i].seq < replaying_to

\* Lines passed are in the logs; so is what a bookmark will have passed over,
\* the frames and, where none was cut, the lines between them.
PassedAreLogged ==
  \A n \in ((1 .. next_line - 1) \ InHand) \ cut : cut = {} \/ n \in Frames => n \in Logged

BookmarkIsLogged ==
  /\ \A n \in Frames \ cut : stream[n].seq <= position => n \in Logged
  /\ cut = {} => \A k \in Frames : stream[k].seq <= position => 1 .. k \subseteq Logged

\* A frame that was read is at or before the position.
PassedAreRecorded ==
  pc \in Reading =>
    \A n \in Frames \ cut :
      n < (IF pc \in Holding THEN next_line - 1 ELSE next_line) => stream[n].seq <= position

\* An entry is the line it names, as the stream has it or as it was cut.
EntriesAreLines ==
  /\ \A i \in FromStream(events) :
       events[i].line \in Frames /\ stream[events[i].line].is = events[i].is
  /\ \A i \in DOMAIN output :
       /\ output[i].line \in DOMAIN stream
       /\ stream[output[i].line].is = output[i].is \/ (output[i].is = "raw" /\ output[i].line \in cut)

\* The event whose newline is missing comes next again, unless it is cut.
TextIsNext ==
  last_line = "text" =>
    /\ events # <<>>
    /\ LET n == events[Len(events)].line
       IN  n # 0 =>
             /\ n \in cut \/ stream[n].seq > position
             /\ \A k \in Frames \ cut : k < n => stream[k].seq <= position

\* Lines that cannot be read, but those that were cut; while a text has no
\* newline, one more may be.
Lost == LinesIn(events, FromStream(events) \cap Unread) \ (Readable \cup cut)
Owed == IF last_line = "whole" THEN 0 ELSE 1

LossesAreInterruptions == Cardinality(Lost) + Owed <= interruptions

\* What is in the event log is no later than the next frame that is new.
RoutedComeNext ==
  \A i \in FromStream(events), k \in Frames \ cut :
    stream[k].seq > position => events[i].line <= k

\* Frames in a log; of them, those that come again after a restart.
FrameLines == LinesIn(events, FramesIn(events)) \cup LinesIn(output, FramesIn(output))
Repeatable == {n \in FrameLines : stream[n].seq > position}

\* Entries over frames, those that may come again counted as if they had.
RepeatsAreInterruptions ==
  /\ Cardinality(FramesIn(events)) + Cardinality(FramesIn(output)) + Cardinality(Repeatable)
       <= Cardinality(FrameLines) + interruptions + (IF pc \in Recording THEN 1 ELSE 0)
  /\ pc \in Recording => next_line - 1 \in FrameLines

ReadVerdicts == {i \in DOMAIN events : events[i].is = "verdict" /\ events[i].read}

\* No verdict is read before the collection has collected one.
VerdictsAreOne ==
  /\ \A i, k \in ReadVerdicts : i = k
  /\ pc \in Reading \cup {"awaiting", "settling"} /\ ~ collected => ~ Judged
  /\ pc \in Reading /\ collected =>
       \E i \in DOMAIN stream :
         i < (IF pc = "routed" THEN next_line - 1 ELSE next_line) /\ stream[i].is = "verdict"
  /\ collected \/ pc = "over" => \E i \in DOMAIN events : events[i].is = "verdict"

SettlesForCause == broken \/ (round = "ended" /\ next_line > Len(stream))

\* A verdict is made up at the end of a stream, when its own is not read.
MadeUpForCause ==
  /\ \A i \in DOMAIN events : events[i].line = 0 => round = "ended" \/ broken
  /\ pc \in {"awaiting", "settling"} => SettlesForCause
  /\ \A i \in ReadVerdicts :
       events[i].line = 0 /\ RoundSaysVerdict =>
         broken \/ cut # {} \/ \E k \in DOMAIN events :
           events[k].is = "verdict" /\ ~ events[k].read /\ events[k].line # 0

CollectorInv ==
  /\ TypeOK /\ StreamIsNumbered /\ LineInHand /\ ReplayIsBehind
  /\ PassedAreLogged /\ BookmarkIsLogged /\ PassedAreRecorded /\ EntriesAreLines
  /\ TextIsNext /\ LossesAreInterruptions /\ RoutedComeNext /\ EventsAreInOrder
  /\ RepeatsAreInterruptions /\ VerdictsAreOne /\ MadeUpForCause

-----------------------------------------------------------------------------
(* What a step does to the stream, the cut frames, the position and the    *)
(* logs: one of a few things, whatever it does besides.                    *)

Spoils ==
  events' = Spoilt /\ last_line' = "torn" /\ interruptions' = interruptions + 1

Writes(n, is) ==
  /\ events' = TextWritten(n, is)
  /\ \/ last_line' = "whole" /\ UNCHANGED interruptions
     \/ /\ last_line' = IF last_line = "whole" THEN "text" ELSE "torn"
        /\ interruptions' = interruptions + 1

StreamGrows == RoundPrints
FrameIsCut == TakeCutFrame
PositionMoves == RenamePosition
OutputGrows == AppendLine /\ line.is \notin EventKinds
EventIsSpoilt == Spoils /\ UNCHANGED <<worldVars, output, position>>
LineIsWritten ==
  /\ pc = "routed" /\ line.is \in EventKinds /\ Writes(next_line - 1, line.is)
  /\ UNCHANGED <<worldVars, output, position>>
VerdictIsMadeUp ==
  /\ pc = "settling" /\ ~ collected /\ Writes(0, "verdict")
  /\ UNCHANGED <<worldVars, output, position>>
NoneIsTouched ==
  /\ UNCHANGED <<stream, cut, eventsVars, output, position>>
  /\ interruptions' \in {interruptions, interruptions + 1}

LEMMA InterruptedLeaves ==
  ASSUME Interrupted, interruptions' = interruptions + 1,
         UNCHANGED <<worldVars, output, position>>
  PROVE  EventIsSpoilt \/ LineIsWritten \/ VerdictIsMadeUp \/ NoneIsTouched
<1>1. CASE pc = "routed" /\ line.is \in EventKinds
  <2>1. TearEvent(next_line - 1, line.is)
    BY <1>1, Zenon DEF Interrupted
  <2> QED BY <1>1, <2>1 DEF TearEvent, EventIsSpoilt, LineIsWritten, NoneIsTouched, Spoils, Writes,
      worldVars, eventsVars
<1>2. CASE pc = "settling" /\ ~ collected
  <2>1. ~ (pc = "routed" /\ line.is \in EventKinds)
    BY <1>2
  <2>2. TearEvent(0, "verdict")
    BY <1>2, <2>1, Zenon DEF Interrupted
  <2> QED BY <1>2, <2>2 DEF TearEvent, EventIsSpoilt, VerdictIsMadeUp, NoneIsTouched, Spoils, Writes,
      worldVars, eventsVars
<1>3. CASE ~ (pc = "routed" /\ line.is \in EventKinds) /\ ~ (pc = "settling" /\ ~ collected)
  <2>1. UNCHANGED eventsVars
    BY <1>3, Zenon DEF Interrupted
  <2> QED BY <2>1 DEF NoneIsTouched, worldVars, eventsVars
<1> QED BY <1>1, <1>2, <1>3

LEMMA StepsOnLogs ==
  ASSUME TypeOK, [Next]_vars
  PROVE  \/ StreamGrows \/ FrameIsCut \/ PositionMoves \/ OutputGrows
         \/ EventIsSpoilt \/ LineIsWritten \/ VerdictIsMadeUp \/ NoneIsTouched
<1> USE DEF worldVars, diskVars, eventsVars, whereVars, cancelVars
<1>1. CASE RoundPrints
  BY <1>1 DEF StreamGrows
<1>2. CASE TakeCutFrame
  BY <1>2 DEF FrameIsCut
<1>3. CASE RenamePosition
  BY <1>3 DEF PositionMoves
<1>4. CASE AppendLine
  <2>1. CASE line.is \in EventKinds
    BY <1>4, <2>1 DEF AppendLine, AppendEvent, LineIsWritten, Writes
  <2> QED BY <1>4, <2>1 DEF OutputGrows
<1>5. CASE Settle
  <2>1. CASE ~ collected
    BY <1>5, <2>1 DEF Settle, AppendEvent, VerdictIsMadeUp, Writes
  <2> QED BY <1>5, <2>1 DEF Settle, NoneIsTouched
<1>6. CASE WriteFails
  BY <1>6, InterruptedLeaves DEF WriteFails
<1>7. CASE SettleFails
  BY <1>7, InterruptedLeaves DEF SettleFails
<1>8. CASE Restart
  BY <1>8, InterruptedLeaves DEF Restart
<1>9. CASE RoundExits \/ StartCollecting \/ WritePosition
  BY <1>9 DEF RoundExits, StartCollecting, WritePosition, NoneIsTouched
<1>10. CASE WaitedOut \/ CancelSeen \/ StreamEnds \/ StreamBreaks \/ CancelFires
  BY <1>10 DEF WaitedOut, CancelSeen, StreamEnds, StreamBreaks, CancelFires, NoneIsTouched
<1>11. CASE TakeLine
  BY <1>11 DEF TakeLine, Take, NoneIsTouched
<1>12. CASE Terminates \/ RoundIsGivenUp
  BY <1>12 DEF Terminates, RoundIsGivenUp, NoneIsTouched
<1>13. CASE UNCHANGED vars
  BY <1>13 DEF vars, NoneIsTouched
<1> QED
  BY <1>1, <1>2, <1>3, <1>4, <1>5, <1>6, <1>7, <1>8, <1>9, <1>10, <1>11, <1>12, <1>13, Zenon
     DEF Next, CollectorStep

-----------------------------------------------------------------------------
(* What the logs hold after a step.                                        *)

\* Whether an event is the one whose newline is missing.
Bare(i) == last_line = "text" /\ i = Len(events)

LEMMA EventsInLogs ==
  ASSUME TypeOK
  PROVE  /\ Len(events) \in Nat /\ DOMAIN events = 1 .. Len(events)
         /\ \A i \in DOMAIN events :
              /\ events[i] \in [line : 0 .. MaxLines, is : EventKinds, read : BOOLEAN]
              /\ events[i].line \in 0 .. MaxLines /\ events[i].is \in EventKinds
              /\ events[i].read \in BOOLEAN
         /\ Len(output) \in Nat /\ DOMAIN output = 1 .. Len(output)
         /\ \A i \in DOMAIN output :
              output[i].line \in 1 .. MaxLines /\ output[i].is \in {"output", "raw"}
<1> DEFINE Es == [line : 0 .. MaxLines, is : EventKinds, read : BOOLEAN]
           Os == [line : 1 .. MaxLines, is : {"output", "raw"}]
<1>1. events \in Seq(Es) /\ output \in Seq(Os)
  BY TypesInParts DEF LogTypes, EventLog, OutputLog
<1>2. \A e \in Es : e.line \in 0 .. MaxLines /\ e.is \in EventKinds /\ e.read \in BOOLEAN
  OBVIOUS
<1>3. \A e \in Os : e.line \in 1 .. MaxLines /\ e.is \in {"output", "raw"}
  OBVIOUS
<1> HIDE DEF Es, Os
<1>4. /\ Len(events) \in Nat /\ DOMAIN events = 1 .. Len(events)
      /\ \A i \in DOMAIN events : events[i] \in Es
      /\ Len(output) \in Nat /\ DOMAIN output = 1 .. Len(output)
      /\ \A i \in DOMAIN output : output[i] \in Os
  BY <1>1
<1>5. \A i \in DOMAIN events :
        /\ events[i].line \in 0 .. MaxLines /\ events[i].is \in EventKinds
        /\ events[i].read \in BOOLEAN
  BY <1>2, <1>4, Zenon
<1>6. \A i \in DOMAIN output : output[i].line \in 1 .. MaxLines /\ output[i].is \in {"output", "raw"}
  BY <1>3, <1>4, Zenon
<1> QED BY <1>4, <1>5, <1>6, Zenon DEF Es

LEMMA SpoiltEvents ==
  ASSUME TypeOK
  PROVE  /\ Spoilt \in EventLog /\ Len(Spoilt) = Len(events) /\ DOMAIN Spoilt = DOMAIN events
         /\ \A i \in DOMAIN events :
              /\ Spoilt[i].line = events[i].line /\ Spoilt[i].is = events[i].is
              /\ Spoilt[i].read <=> events[i].read /\ ~ Bare(i)
<1> DEFINE Es == [line : 0 .. MaxLines, is : EventKinds, read : BOOLEAN]
<1>1. events \in Seq(Es)
  BY TypesInParts DEF LogTypes, EventLog
<1>2. CASE last_line # "text"
  BY <1>1, <1>2 DEF Spoilt, Bare, EventLog
<1>3. CASE last_line = "text" /\ events = <<>>
  <2>1. Spoilt = <<>>
    BY <1>3 DEF Spoilt
  <2> QED BY <1>1, <1>3, <2>1 DEF EventLog
<1>4. CASE last_line = "text" /\ events # <<>>
  <2> DEFINE m == Len(events)
             e == [events[m] EXCEPT !.read = FALSE]
  <2>1. m \in 1 .. Len(events) /\ events[m] \in Es
    <3> HIDE DEF Es
    <3> QED BY <1>1, <1>4, EmptySeq
  <2>2. e \in Es /\ e.line = events[m].line /\ e.is = events[m].is /\ e.read = FALSE
    BY <2>1
  <2>3. Spoilt = [events EXCEPT ![m] = e]
    BY <1>4 DEF Spoilt
  <2> HIDE DEF m, e, Es
  <2>4. /\ Spoilt \in Seq(Es) /\ Len(Spoilt) = Len(events)
        /\ \A j \in 1 .. Len(events) : Spoilt[j] = IF j = m THEN e ELSE events[j]
    BY <1>1, <2>1, <2>2, <2>3, ExceptSeq
  <2>5. DOMAIN Spoilt = 1 .. Len(events) /\ DOMAIN events = 1 .. Len(events)
    BY <1>1, <2>4
  <2>6. \A i \in DOMAIN events :
          /\ Spoilt[i].line = events[i].line /\ Spoilt[i].is = events[i].is
          /\ Spoilt[i].read <=> events[i].read /\ ~ Bare(i)
    <3> TAKE i \in DOMAIN events
    <3>1. CASE i = m
      <4>1. Spoilt[i] = e /\ Bare(i)
        BY <1>4, <2>4, <2>5, <3>1 DEF Bare, m
      <4> QED BY <2>2, <3>1, <4>1
    <3>2. CASE i # m
      <4>1. Spoilt[i] = events[i] /\ ~ Bare(i)
        BY <2>4, <2>5, <3>2 DEF Bare, m
      <4> QED BY <4>1, Zenon
    <3> QED BY <3>1, <3>2
  <2> QED BY <2>4, <2>5, <2>6, Zenon DEF EventLog, Es
<1> QED BY <1>2, <1>3, <1>4

LEMMA WrittenEvents ==
  ASSUME TypeOK, NEW n \in 0 .. MaxLines, NEW is \in EventKinds
  PROVE  /\ TextWritten(n, is) \in EventLog
         /\ Len(TextWritten(n, is)) = Len(events) + 1
         /\ DOMAIN TextWritten(n, is) = DOMAIN events \cup {Len(events) + 1}
         /\ Len(events) + 1 \notin DOMAIN events
         /\ TextWritten(n, is)[Len(events) + 1].line = n
         /\ TextWritten(n, is)[Len(events) + 1].is = is
         /\ TextWritten(n, is)[Len(events) + 1].read <=> last_line = "whole"
         /\ \A i \in DOMAIN events :
              /\ TextWritten(n, is)[i].line = events[i].line
              /\ TextWritten(n, is)[i].is = events[i].is
              /\ TextWritten(n, is)[i].read <=> events[i].read /\ ~ Bare(i)
<1> DEFINE Es == [line : 0 .. MaxLines, is : EventKinds, read : BOOLEAN]
           e == Event(n, is, last_line = "whole")
           w == TextWritten(n, is)
           last == Len(events) + 1
<1>1. e \in Es /\ e.line = n /\ e.is = is /\ (e.read <=> last_line = "whole")
  BY DEF Event
<1>2. w = Append(Spoilt, e)
  BY DEF TextWritten
<1>3. Spoilt \in Seq(Es) /\ Len(Spoilt) = Len(events) /\ DOMAIN Spoilt = DOMAIN events
  BY SpoiltEvents DEF EventLog
<1> HIDE DEF e, Es, w
<1>4. /\ w \in Seq(Es) /\ Len(w) = last /\ DOMAIN w = 1 .. last /\ w[last] = e
      /\ \A i \in 1 .. Len(events) : w[i] = Spoilt[i]
      /\ Len(events) \in Nat /\ DOMAIN events = 1 .. Len(events)
  BY <1>1, <1>2, <1>3, EventsInLogs
<1>5. DOMAIN w = DOMAIN events \cup {last} /\ last \notin DOMAIN events
  BY <1>4
<1>6. \A i \in DOMAIN events :
        /\ w[i].line = events[i].line /\ w[i].is = events[i].is
        /\ w[i].read <=> events[i].read /\ ~ Bare(i)
  <2> TAKE i \in DOMAIN events
  <2>1. w[i] = Spoilt[i]
    BY <1>4
  <2> QED BY <2>1, SpoiltEvents, Zenon
<1>7. w[last].line = n /\ w[last].is = is /\ (w[last].read <=> last_line = "whole")
  BY <1>1, <1>4, Zenon
<1>8. w \in EventLog
  BY <1>4 DEF Es, EventLog
<1> QED BY <1>4, <1>5, <1>6, <1>7, <1>8, Zenon DEF w

-----------------------------------------------------------------------------
(* Types are kept.                                                         *)

LEMMA RoundTypesKept ==
  ASSUME TypeOK, [Next]_vars PROVE WorldTypes'
<1> USE DEF WorldTypes, worldVars
<1>1. WorldTypes /\ next_line \in 1 .. MaxLines + 1
  BY TypesInParts DEF PlaceTypes
<1>2. CASE RoundPrints
  <2>1. Frames \subseteq 1 .. Len(stream) /\ Len(stream) \in Nat /\ Len(stream) + 1 <= MaxLines
    BY <1>1, <1>2 DEF Frames, RoundPrints
  <2>2. IsFiniteSet(1 .. Len(stream)) /\ Cardinality(1 .. Len(stream)) <= Len(stream)
    <3>1. 1 \in Int /\ Len(stream) \in Int
      BY <2>1
    <3>2. /\ IsFiniteSet(1 .. Len(stream))
          /\ Cardinality(1 .. Len(stream)) = IF 1 > Len(stream) THEN 0 ELSE Len(stream) - 1 + 1
      BY <3>1, FS_Interval, Zenon
    <3> QED BY <2>1, <3>2
  <2>3. Cardinality(Frames) \in Nat /\ Cardinality(Frames) + 1 <= MaxLines
    <3>1. IsFiniteSet(Frames) /\ Cardinality(Frames) <= Cardinality(1 .. Len(stream))
      BY <2>1, <2>2, FS_Subset
    <3>2. Cardinality(Frames) \in Nat /\ Cardinality(1 .. Len(stream)) \in Nat
      BY <2>2, <3>1, FS_CardinalityType
    <3> QED BY <2>1, <2>2, <3>1, <3>2
  <2>4. PICK l \in Lines : stream' = Append(stream, l)
    <3>1. NoLine \in Lines
      BY DEF NoLine, Lines
    <3>2. \A is \in {"event", "output", "verdict"} : [seq |-> Cardinality(Frames) + 1, is |-> is] \in Lines
      BY <2>3 DEF Lines, EventKinds
    <3> QED BY <1>2, <3>1, <3>2 DEF RoundPrints
  <2>5. stream' \in Seq(Lines) /\ Len(stream') = Len(stream) + 1
    BY <1>1, <2>4
  <2> QED BY <1>1, <1>2, <2>1, <2>5 DEF RoundPrints
<1>3. CASE RoundExits
  BY <1>1, <1>3 DEF RoundExits
<1>4. CASE TakeCutFrame
  <2>1. next_line \in 1 .. MaxLines
    BY <1>1, <1>4 DEF TakeCutFrame, Take
  <2> QED BY <1>1, <1>4, <2>1 DEF TakeCutFrame, Take
<1>5. CASE StreamBreaks \/ Terminates \/ RoundIsGivenUp \/ TakeLine
  BY <1>1, <1>5 DEF StreamBreaks, Terminates, RoundIsGivenUp, TakeLine, Take
<1>6. CASE StartCollecting \/ AppendLine \/ WritePosition \/ RenamePosition
  BY <1>1, <1>6 DEF StartCollecting, AppendLine, WritePosition, RenamePosition
<1>7. CASE WaitedOut \/ CancelSeen \/ StreamEnds \/ Settle
  BY <1>1, <1>7 DEF WaitedOut, CancelSeen, StreamEnds, Settle
<1>8. CASE WriteFails \/ SettleFails \/ CancelFires \/ Restart
  BY <1>1, <1>8 DEF WriteFails, SettleFails, CancelFires, Restart
<1>9. CASE UNCHANGED vars
  BY <1>1, <1>9 DEF vars
<1> QED
  BY <1>2, <1>3, <1>4, <1>5, <1>6, <1>7, <1>8, <1>9, Zenon DEF Next, CollectorStep

LEMMA LogTypesKept ==
  ASSUME TypeOK, LineInHand, [Next]_vars PROVE LogTypes'
<1> USE DEF LogTypes, eventsVars
<1>1. LogTypes /\ "verdict" \in EventKinds
  BY TypesInParts DEF EventKinds
<1>2. pc = "routed" => next_line - 1 \in 1 .. MaxLines
  BY TypesInParts DEF LineInHand, Holding, PlaceTypes
<1>3. CASE OutputGrows
  <2>1. pc = "routed" /\ line \in Lines
    BY <1>3, TypesInParts DEF PlaceTypes, OutputGrows, AppendLine
  <2>2. UNCHANGED eventsVars /\ output' = Append(output, Entry(next_line - 1, line.is))
    BY <1>3, Zenon DEF OutputGrows, AppendLine
  <2>3. Entry(next_line - 1, line.is) \in [line : 1 .. MaxLines, is : {"output", "raw"}]
    BY <1>2, <1>3, <2>1 DEF Entry, Lines, EventKinds, OutputGrows
  <2> QED BY <1>1, <2>2, <2>3 DEF OutputLog
<1>4. \A n \in 0 .. MaxLines, is \in EventKinds :
        Writes(n, is) => events' \in EventLog /\ last_line' \in {"whole", "text", "torn"}
  BY WrittenEvents DEF Writes
<1>5. CASE LineIsWritten
  <2>1. next_line - 1 \in 0 .. MaxLines /\ output' = output
    BY <1>2, <1>5 DEF LineIsWritten
  <2> QED BY <1>1, <1>4, <1>5, <2>1 DEF LineIsWritten
<1>6. CASE VerdictIsMadeUp
  <2>1. 0 \in 0 .. MaxLines
    OBVIOUS
  <2> QED BY <1>1, <1>4, <1>6, <2>1 DEF VerdictIsMadeUp
<1>7. CASE EventIsSpoilt
  BY <1>1, <1>7, SpoiltEvents DEF EventIsSpoilt, Spoils
<1>8. CASE StreamGrows \/ FrameIsCut \/ PositionMoves \/ NoneIsTouched
  BY <1>1, <1>8 DEF StreamGrows, RoundPrints, FrameIsCut, TakeCutFrame, Take, PositionMoves,
     RenamePosition, NoneIsTouched, diskVars
<1> QED BY <1>3, <1>5, <1>6, <1>7, <1>8, StepsOnLogs

LEMMA PositionInTypes ==
  ASSUME TypeOK
  PROVE  Past(line).last_seq \in 0 .. MaxLines /\ Past(line).replaying_to \in 0 .. MaxLines
<1>1. /\ line.seq \in 0 .. MaxLines
      /\ last_seq \in 0 .. MaxLines /\ replaying_to \in 0 .. MaxLines
  BY TypesInParts DEF PlaceTypes, Lines
<1> QED BY <1>1 DEF Past

LEMMA PlaceTypesKept ==
  ASSUME TypeOK, [Next]_vars PROVE PlaceTypes'
<1> USE DEF PlaceTypes, whereVars, diskVars
<1>1. PlaceTypes /\ WorldTypes /\ NoLine \in Lines
  BY TypesInParts DEF NoLine, Lines
<1>2. CASE TakeLine \/ TakeCutFrame
  <2>1. PICK l \in Lines : Take(l)
    <3>1. Len(stream) \in Nat /\ next_line \in 1 .. MaxLines + 1
      BY <1>1 DEF WorldTypes
    <3>2. next_line <= Len(stream)
      BY <1>2 DEF TakeLine, TakeCutFrame, Take
    <3>3. stream[next_line] \in Lines
      BY <1>1, <3>1, <3>2 DEF WorldTypes
    <3> QED BY <1>1, <1>2, <3>3, Zenon DEF TakeLine, TakeCutFrame
  <2>2. next_line < MaxLines + 1
    BY <1>1, <2>1 DEF Take, WorldTypes
  <2>3. Past(l).last_seq \in 0 .. MaxLines /\ Past(l).replaying_to \in 0 .. MaxLines
    <3>1. l.seq \in 0 .. MaxLines
      BY DEF Lines
    <3> QED BY <1>1, <3>1 DEF Past
  <2>4. interruptions' \in 0 .. MaxInterruptions
    BY <1>1, <1>2 DEF TakeLine, TakeCutFrame
  <2> QED BY <1>1, <2>1, <2>2, <2>3, <2>4 DEF Take, MoveTo, Pc
<1>3. CASE RoundPrints \/ RoundExits \/ StartCollecting
  BY <1>1, <1>3 DEF RoundPrints, RoundExits, StartCollecting, LastSeqRouted, Pc
<1>4. CASE AppendLine
  BY <1>1, <1>4 DEF AppendLine, Pc
<1>5. CASE WritePosition
  BY <1>1, <1>5, PositionInTypes DEF WritePosition, Pc
<1>6. CASE RenamePosition
  BY <1>1, <1>6, PositionInTypes DEF RenamePosition, MoveTo, Pc
<1>7. CASE WaitedOut \/ CancelSeen \/ StreamEnds \/ Settle \/ CancelFires
  BY <1>1, <1>7 DEF WaitedOut, CancelSeen, StreamEnds, Settle, CancelFires, Pc
<1>8. CASE WriteFails \/ SettleFails
  BY <1>1, <1>8 DEF WriteFails, SettleFails, Pc
<1>9. CASE Restart \/ StreamBreaks \/ Terminates \/ RoundIsGivenUp
  BY <1>1, <1>9 DEF Restart, StreamBreaks, Terminates, RoundIsGivenUp, Pc
<1>10. CASE UNCHANGED vars
  BY <1>1, <1>10 DEF vars
<1> QED
  BY <1>2, <1>3, <1>4, <1>5, <1>6, <1>7, <1>8, <1>9, <1>10, Zenon DEF Next, CollectorStep

LEMMA FlagTypesKept ==
  ASSUME TypeOK, [Next]_vars PROVE FlagTypes'
<1> USE DEF FlagTypes, cancelVars, worldVars
<1>1. FlagTypes
  BY TypesInParts
<1>2. CASE RoundPrints \/ RoundExits \/ StartCollecting \/ TakeLine \/ TakeCutFrame
  BY <1>1, <1>2 DEF RoundPrints, RoundExits, StartCollecting, TakeLine, TakeCutFrame, Take
<1>3. CASE AppendLine
  <2>1. collected' \in BOOLEAN
    BY <1>3 DEF AppendLine
  <2> QED BY <1>1, <1>3, <2>1 DEF AppendLine
<1>4. CASE WritePosition \/ RenamePosition \/ WaitedOut \/ CancelSeen \/ StreamEnds \/ Settle
  BY <1>1, <1>4 DEF WritePosition, RenamePosition, WaitedOut, CancelSeen, StreamEnds, Settle
<1>5. CASE StreamBreaks \/ WriteFails \/ SettleFails \/ CancelFires \/ Restart
  BY <1>1, <1>5 DEF StreamBreaks, WriteFails, SettleFails, CancelFires, Restart
<1>6. CASE Terminates \/ RoundIsGivenUp
  BY <1>1, <1>6 DEF Terminates, RoundIsGivenUp
<1>7. CASE UNCHANGED vars
  BY <1>1, <1>7 DEF vars
<1> QED BY <1>2, <1>3, <1>4, <1>5, <1>6, <1>7, Zenon DEF Next, CollectorStep

LEMMA TypesKept ==
  ASSUME TypeOK, LineInHand, [Next]_vars PROVE TypeOK'
BY RoundTypesKept, LogTypesKept, PlaceTypesKept, FlagTypesKept, TypesInParts

-----------------------------------------------------------------------------
(* The stream, and the place in it.                                        *)

LEMMA LinesOfStream ==
  ASSUME TypeOK
  PROVE  /\ Len(stream) \in Nat /\ DOMAIN stream = 1 .. Len(stream) /\ Len(stream) <= MaxLines
         /\ \A i \in DOMAIN stream :
              /\ stream[i] \in Lines /\ stream[i].seq \in 0 .. MaxLines
              /\ i \in Frames <=> stream[i].seq # 0
              /\ i \in Frames <=> stream[i].is # "raw"
              /\ stream[i].is \in {"event", "verdict", "output", "raw"}
         /\ Frames \subseteq DOMAIN stream
<1>1. stream \in Seq(Lines) /\ Len(stream) <= MaxLines
  BY TypesInParts DEF WorldTypes
<1>2. \A l \in Lines :
        /\ l.seq \in 0 .. MaxLines /\ l.is \in {"event", "verdict", "output", "raw"}
        /\ IsFrame(l) <=> l.seq # 0
        /\ IsFrame(l) <=> l.is # "raw"
  BY DEF Lines, IsFrame, EventKinds
<1>3. /\ Len(stream) \in Nat /\ DOMAIN stream = 1 .. Len(stream)
      /\ \A i \in DOMAIN stream : stream[i] \in Lines
  BY <1>1
<1>4. Frames \subseteq DOMAIN stream /\ \A i \in DOMAIN stream : i \in Frames <=> IsFrame(stream[i])
  BY DEF Frames
<1> QED BY <1>1, <1>2, <1>3, <1>4, Zenon

LEMMA FramesAreFinite ==
  ASSUME TypeOK PROVE IsFiniteSet(Frames) /\ Cardinality(Frames) \in Nat
<1>1. Frames \subseteq 1 .. Len(stream) /\ 1 \in Int /\ Len(stream) \in Int
  BY LinesOfStream
<1>2. IsFiniteSet(1 .. Len(stream))
  BY <1>1, FS_Interval, Zenon
<1> QED BY <1>1, <1>2, FS_Subset, FS_CardinalityType

LEMMA LineInHandIs ==
  ASSUME TypeOK
  PROVE  /\ line.seq \in 0 .. MaxLines /\ line.is \in {"event", "verdict", "output", "raw"}
         /\ IsFrame(line) <=> line.seq # 0
         /\ IsFrame(line) <=> line.is # "raw"
         /\ ~ IsFrame(NoLine) /\ NoLine.is = "raw"
BY TypesInParts DEF PlaceTypes, Lines, IsFrame, EventKinds, NoLine

LEMMA StreamGrown ==
  ASSUME TypeOK, StreamGrows
  PROVE  /\ Len(stream') = Len(stream) + 1 /\ DOMAIN stream' = 1 .. Len(stream) + 1
         /\ \A i \in DOMAIN stream : stream'[i] = stream[i]
         /\ \/ Frames' = Frames /\ stream'[Len(stream) + 1].is = "raw"
            \/ /\ Frames' = Frames \cup {Len(stream) + 1}
               /\ stream'[Len(stream) + 1].seq = Cardinality(Frames) + 1
               /\ stream'[Len(stream) + 1].is = "verdict" => ~ RoundSaysVerdict
<1>1. Len(stream) \in Nat /\ DOMAIN stream = 1 .. Len(stream) /\ stream \in Seq(Lines)
  BY LinesOfStream, TypesInParts DEF WorldTypes
<1>2. Cardinality(Frames) \in Nat
  BY FramesAreFinite
<1>3. PICK l : /\ stream' = Append(stream, l)
               /\ \/ l = NoLine
                  \/ l.seq = Cardinality(Frames) + 1 /\ (l.is = "verdict" => ~ RoundSaysVerdict)
  <2>1. CASE stream' = Append(stream, NoLine)
    BY <2>1, Zenon
  <2>2. CASE \E is \in {"event", "output", "verdict"} \ (IF RoundSaysVerdict THEN {"verdict"} ELSE {}) :
               stream' = Append(stream, [seq |-> Cardinality(Frames) + 1, is |-> is])
    <3>1. PICK is \in {"event", "output", "verdict"} \ (IF RoundSaysVerdict THEN {"verdict"} ELSE {}) :
                 stream' = Append(stream, [seq |-> Cardinality(Frames) + 1, is |-> is])
      BY <2>2
    <3> DEFINE l == [seq |-> Cardinality(Frames) + 1, is |-> is]
    <3>2. l.seq = Cardinality(Frames) + 1 /\ l.is = is /\ (is = "verdict" => ~ RoundSaysVerdict)
      OBVIOUS
    <3> QED BY <3>1, <3>2, Zenon
  <2> QED BY <1>2, <2>1, <2>2, Zenon DEF StreamGrows, RoundPrints
<1>4. /\ Len(stream') = Len(stream) + 1 /\ DOMAIN stream' = 1 .. Len(stream) + 1
      /\ \A i \in DOMAIN stream : stream'[i] = stream[i]
      /\ stream'[Len(stream) + 1] = l
  BY <1>1, <1>3
<1>5. \A i : i \in Frames' <=> i \in Frames \/ (i = Len(stream) + 1 /\ IsFrame(l))
  BY <1>1, <1>4 DEF Frames
<1>6. CASE l = NoLine
  <2>1. ~ IsFrame(l) /\ l.is = "raw"
    BY <1>6 DEF IsFrame, NoLine
  <2>2. Frames' = Frames
    BY <1>5, <2>1
  <2> QED BY <1>4, <2>1, <2>2
<1>7. CASE l # NoLine
  <2>1. l.seq = Cardinality(Frames) + 1 /\ (l.is = "verdict" => ~ RoundSaysVerdict)
    BY <1>3, <1>7
  <2>2. IsFrame(l)
    BY <1>2, <2>1 DEF IsFrame
  <2>3. Frames' = Frames \cup {Len(stream) + 1}
    BY <1>5, <2>2
  <2> QED BY <1>4, <2>1, <2>3
<1> QED BY <1>6, <1>7

\* A frame's number is the higher, the later it comes.
LEMMA LaterIsHigher ==
  ASSUME TypeOK, StreamIsNumbered, NEW i \in Frames, NEW k \in Frames
  PROVE  i < k <=> stream[i].seq < stream[k].seq
<1>1. i \in Nat /\ k \in Nat /\ stream[i].seq \in Nat /\ stream[k].seq \in Nat
  BY LinesOfStream
<1> QED BY <1>1 DEF StreamIsNumbered

\* The frame in hand is the next that is not recorded.
LEMMA FrameInHand ==
  ASSUME TypeOK, LineInHand, pc \in Holding, IsFrame(line)
  PROVE  /\ next_line - 1 \in Frames /\ line = stream[next_line - 1]
         /\ stream[next_line - 1].seq = line.seq /\ line.seq > position
<1>1. line # NoLine
  BY DEF IsFrame, NoLine
<1>2. line = stream[next_line - 1] /\ line.seq > position
  BY <1>1 DEF LineInHand
<1>3. next_line - 1 \in DOMAIN stream
  BY LinesOfStream, TypesInParts DEF LineInHand, PlaceTypes
<1> QED BY <1>2, <1>3 DEF Frames

\* The position past it is its number.
LEMMA PastFrameInHand ==
  ASSUME TypeOK, LineInHand, pc \in Holding, IsFrame(line)
  PROVE  Past(line).last_seq = line.seq /\ Past(line).replaying_to = 0
<1>1. last_seq = position /\ pc # "idle"
  BY DEF LineInHand, Holding
<1>2. line.seq > position /\ position \in Nat /\ line.seq \in Nat
  BY FrameInHand, LineInHandIs, TypesInParts DEF PlaceTypes
<1>3. ~ (line.seq <= last_seq)
  BY <1>1, <1>2
<1> QED BY <1>3 DEF Past

LEMMA NumbersKept ==
  ASSUME TypeOK, StreamIsNumbered, LineInHand, [Next]_vars PROVE StreamIsNumbered'
<1>1. CASE StreamGrows
  <2> DEFINE last == Len(stream) + 1
  <2>1. UNCHANGED position
    BY <1>1 DEF StreamGrows, RoundPrints, diskVars
  <2>2. /\ DOMAIN stream' = 1 .. last /\ DOMAIN stream = 1 .. Len(stream) /\ Len(stream) \in Nat
        /\ \A i \in DOMAIN stream : stream'[i] = stream[i]
        /\ Frames \subseteq DOMAIN stream
        /\ IsFiniteSet(Frames) /\ Cardinality(Frames) \in Nat
        /\ \A i \in Frames : stream[i].seq \in Nat
    BY <1>1, StreamGrown, LinesOfStream, FramesAreFinite
  <2>3. CASE Frames' = Frames /\ stream'[last].is = "raw"
    <3>1. Cardinality(Frames') = Cardinality(Frames)
      BY <2>3, Zenon
    <3>2. \A i, k \in Frames' : i < k => stream'[i].seq < stream'[k].seq
      BY <2>2, <2>3 DEF StreamIsNumbered
    <3>3. \A i \in Frames' : stream'[i].seq <= Cardinality(Frames')
      BY <2>2, <2>3, <3>1 DEF StreamIsNumbered
    <3>4. \A i, k \in DOMAIN stream' : stream'[i].is = "verdict" /\ stream'[k].is = "verdict" => i = k
      BY <2>2, <2>3 DEF StreamIsNumbered
    <3>5. position > 0 => \E i \in Frames' : stream'[i].seq = position
      BY <2>2, <2>3 DEF StreamIsNumbered
    <3> QED BY <2>1, <3>2, <3>3, <3>4, <3>5 DEF StreamIsNumbered
  <2>4. CASE /\ Frames' = Frames \cup {last} /\ stream'[last].seq = Cardinality(Frames) + 1
             /\ stream'[last].is = "verdict" => ~ RoundSaysVerdict
    <3>1. Cardinality(Frames') = Cardinality(Frames) + 1
      <4>1. last \notin Frames
        BY <2>2
      <4> QED BY <2>2, <2>4, <4>1, FS_AddElement
    <3>2. \A i \in Frames : i < last /\ stream'[i].seq = stream[i].seq /\ stream[i].seq <= Cardinality(Frames)
      BY <2>2 DEF StreamIsNumbered
    <3>3. \A i, k \in Frames' : i < k => stream'[i].seq < stream'[k].seq
      BY <2>2, <2>4, <3>2 DEF StreamIsNumbered
    <3>4. \A i \in Frames' : stream'[i].seq <= Cardinality(Frames')
      BY <2>2, <2>4, <3>1, <3>2
    <3>5. \A i, k \in DOMAIN stream' : stream'[i].is = "verdict" /\ stream'[k].is = "verdict" => i = k
      BY <2>2, <2>4 DEF StreamIsNumbered, RoundSaysVerdict
    <3>6. position > 0 => \E i \in Frames' : stream'[i].seq = position
      BY <2>2, <2>4 DEF StreamIsNumbered
    <3> QED BY <2>1, <3>3, <3>4, <3>5, <3>6 DEF StreamIsNumbered
  <2> QED BY <1>1, <2>3, <2>4, StreamGrown
<1>2. CASE PositionMoves
  <2>1. UNCHANGED stream /\ position' = written /\ pc = "renaming"
    BY <1>2 DEF PositionMoves, RenamePosition, worldVars
  <2>2. IsFrame(line) /\ written = line.seq /\ pc \in Holding
    BY <2>1 DEF LineInHand, Recording, Holding
  <2>3. next_line - 1 \in Frames /\ stream[next_line - 1].seq = position'
    BY <2>1, <2>2, FrameInHand
  <2>4. Frames' = Frames
    BY <2>1 DEF Frames
  <2> QED BY <2>1, <2>3, <2>4 DEF StreamIsNumbered
<1>3. CASE UNCHANGED <<stream, position>>
  BY <1>3 DEF StreamIsNumbered, Frames
<1> QED
  BY <1>1, <1>2, <1>3, StepsOnLogs DEF FrameIsCut, TakeCutFrame, Take, OutputGrows, AppendLine,
     EventIsSpoilt, LineIsWritten, VerdictIsMadeUp, NoneIsTouched, worldVars, diskVars

LEMMA LineKept ==
  ASSUME TypeOK, LineInHand, [Next]_vars PROVE LineInHand'
<1> USE DEF worldVars, diskVars, eventsVars, whereVars, cancelVars
<1>1. /\ Len(stream) \in Nat /\ next_line \in Nat /\ next_line >= 1 /\ position \in Nat
      /\ last_seq \in Nat /\ pc \in Pc /\ ~ IsFrame(NoLine) /\ ~ (NoLine.seq # 0)
  BY LinesOfStream, TypesInParts DEF PlaceTypes, NoLine, IsFrame
<1>2. CASE RoundPrints
  <2>1. Len(stream') = Len(stream) + 1 /\ \A i \in 1 .. Len(stream) : stream'[i] = stream[i]
    BY <1>2, StreamGrown, LinesOfStream DEF StreamGrows
  <2>2. pc \in Holding => next_line - 1 \in 1 .. Len(stream)
    BY <1>1 DEF LineInHand
  <2> QED BY <1>1, <1>2, <2>1, <2>2 DEF RoundPrints, LineInHand
<1>3. CASE StartCollecting
  BY <1>1, <1>3 DEF StartCollecting, LastSeqRouted, LineInHand, Holding, Recording
<1>4. CASE TakeLine
  <2>1. /\ pc = "reading" /\ next_line \in DOMAIN stream /\ next_line' = next_line + 1
        /\ next_line <= Len(stream)
        /\ UNCHANGED <<stream, position, written, collected, cut, last_line>>
    BY <1>1, <1>4, LinesOfStream DEF TakeLine, Take
  <2>2. stream[next_line].seq \in Nat /\ last_seq = position
    BY <2>1, LinesOfStream DEF LineInHand
  <2>3. CASE AlreadyCollected(stream[next_line])
    <3>1. pc' = "reading" /\ last_seq' = last_seq
      <4>1. pc' = "reading" /\ last_seq' = Past(stream[next_line]).last_seq
        BY <1>4, <2>3 DEF TakeLine, Take, MoveTo
      <4>2. Past(stream[next_line]).last_seq = last_seq
        BY <2>3 DEF Past, AlreadyCollected
      <4> QED BY <4>1, <4>2
    <3> QED BY <1>1, <2>1, <2>2, <3>1 DEF LineInHand, Holding, Recording
  <2>4. CASE ~ AlreadyCollected(stream[next_line])
    <3>1. pc' = "routed" /\ line' = stream[next_line] /\ last_seq' = last_seq
      BY <1>4, <2>4 DEF TakeLine, Take
    <3>2. IsFrame(line') => line'.seq > position
      BY <1>1, <2>2, <2>4, <3>1 DEF AlreadyCollected
    <3> QED BY <1>1, <2>1, <2>2, <3>1, <3>2 DEF LineInHand, Holding, Recording
  <2> QED BY <2>3, <2>4
<1>5. CASE TakeCutFrame
  <2>1. /\ pc = "reading" /\ next_line \in DOMAIN stream /\ next_line' = next_line + 1
        /\ next_line <= Len(stream) /\ cut' = cut \cup {next_line}
        /\ UNCHANGED <<stream, position, written, collected, last_line>>
    BY <1>1, <1>5, LinesOfStream DEF TakeCutFrame, Take
  <2>2. /\ \/ pc' = "reading" /\ last_seq' = Past(NoLine).last_seq
           \/ pc' = "routed" /\ line' = NoLine /\ last_seq' = last_seq
        /\ Past(NoLine).last_seq = last_seq
    BY <1>1, <1>5 DEF TakeCutFrame, Take, MoveTo, Past
  <2> QED BY <1>1, <2>1, <2>2 DEF LineInHand, Holding, Recording
<1>6. CASE AppendLine
  <2>1. /\ pc = "routed" /\ UNCHANGED <<stream, position, written, cut, next_line, last_seq, line>>
        /\ pc' \in {"reading", "recording"}
        /\ pc' = "recording" => Past(line).last_seq # last_seq
        /\ line.is \in EventKinds => last_line' = "whole"
    BY <1>6 DEF AppendLine, AppendEvent
  <2>2. pc' = "recording" => IsFrame(line)
    BY <2>1 DEF Past
  <2> QED BY <1>1, <2>1, <2>2 DEF LineInHand, Holding, Recording
<1>7. CASE WritePosition
  <2>1. Past(line).last_seq = line.seq
    BY <1>7, PastFrameInHand DEF WritePosition, LineInHand, Holding, Recording
  <2> QED BY <1>1, <1>7, <2>1 DEF WritePosition, LineInHand, Holding, Recording
<1>8. CASE RenamePosition
  <2>1. Past(line).last_seq = line.seq /\ written = line.seq
    BY <1>8, PastFrameInHand DEF RenamePosition, LineInHand, Holding, Recording
  <2> QED BY <1>1, <1>8, <2>1 DEF RenamePosition, MoveTo, LineInHand, Holding, Recording
<1>9. CASE Restart
  BY <1>1, <1>9 DEF Restart, LineInHand, Holding, Recording
<1>10. CASE RoundExits \/ CancelFires \/ CancelSeen \/ UNCHANGED vars
  BY <1>1, <1>10 DEF RoundExits, CancelFires, CancelSeen, vars, LineInHand
<1>11. CASE StreamBreaks \/ WriteFails \/ SettleFails
  BY <1>1, <1>11 DEF StreamBreaks, WriteFails, SettleFails, LineInHand, Holding, Recording
<1>12. CASE WaitedOut \/ StreamEnds \/ Terminates \/ RoundIsGivenUp \/ Settle
  BY <1>1, <1>12
     DEF WaitedOut, StreamEnds, Terminates, RoundIsGivenUp, Settle, LineInHand, Holding, Recording
<1> QED
  BY <1>2, <1>3, <1>4, <1>5, <1>6, <1>7, <1>8, <1>9, <1>10, <1>11, <1>12, Zenon
     DEF Next, CollectorStep

LEMMA ReplayKept ==
  ASSUME TypeOK, StreamIsNumbered, LineInHand, ReplayIsBehind, [Next]_vars
  PROVE  ReplayIsBehind'
<1> USE DEF worldVars, diskVars, eventsVars, whereVars, cancelVars
<1>1. /\ Len(stream) \in Nat /\ next_line \in Nat /\ next_line >= 1 /\ position \in Nat
      /\ replaying_to \in Nat /\ Frames \subseteq DOMAIN stream /\ DOMAIN stream = 1 .. Len(stream)
  BY LinesOfStream, TypesInParts DEF PlaceTypes
<1>2. UNCHANGED stream => Frames' = Frames
  BY DEF Frames
<1>3. CASE RoundPrints
  <2>1. UNCHANGED <<pc, replaying_to, position, cut, next_line>>
    BY <1>3 DEF RoundPrints
  <2>2. \A i \in Frames' : i < next_line => i \in Frames /\ stream'[i] = stream[i]
    BY <1>1, <1>3, StreamGrown DEF LineInHand, StreamGrows
  <2> QED BY <2>1, <2>2 DEF ReplayIsBehind
<1>4. CASE StartCollecting
  BY <1>1, <1>2, <1>4 DEF StartCollecting, LastSeqRouted, ReplayIsBehind
<1>5. CASE TakeLine
  <2> DEFINE l == stream[next_line]
  <2>1. /\ pc = "reading" /\ next_line \in DOMAIN stream /\ next_line' = next_line + 1
        /\ UNCHANGED <<stream, position, cut>>
        /\ last_seq = position /\ l.seq \in Nat
        /\ IsFrame(l) <=> next_line \in Frames
        /\ replaying_to \in {0, position}
    BY <1>1, <1>5, LinesOfStream DEF TakeLine, Take, LineInHand, ReplayIsBehind, Frames
  <2>2. \/ UNCHANGED replaying_to
        \/ replaying_to' = 0
    BY <1>5 DEF TakeLine, Take, MoveTo, Past
  <2>3. ASSUME cut = {}, replaying_to' > 0, next_line \in Frames
        PROVE  l.seq < replaying_to'
    <3>1. replaying_to' = replaying_to /\ replaying_to = position
      BY <2>1, <2>2, <2>3
    <3>2. l.seq <= position
      <4>1. PICK k \in Frames : stream[k].seq = position
        BY <1>1, <2>3, <3>1 DEF StreamIsNumbered
      <4>2. ~ (k < next_line)
        BY <2>1, <2>3, <3>1, <4>1 DEF ReplayIsBehind
      <4>3. k \in Nat
        BY <1>1
      <4>4. k = next_line \/ l.seq < position
        BY <1>1, <2>3, <4>1, <4>2, <4>3 DEF StreamIsNumbered
      <4> QED BY <1>1, <2>1, <4>1, <4>4
    <3>3. AlreadyCollected(l) /\ IsFrame(l)
      BY <2>1, <2>3, <3>2 DEF AlreadyCollected
    <3>4. replaying_to' = Past(l).replaying_to
      BY <1>5, <3>3 DEF TakeLine, Take, MoveTo
    <3>5. ~ (l.seq >= replaying_to)
      BY <2>1, <2>3, <3>2, <3>3, <3>4 DEF Past
    <3> QED BY <1>1, <2>1, <3>1, <3>5
  <2> HIDE DEF l
  <2>4. replaying_to' \in {0, position}
    BY <2>1, <2>2
  <2>5. ASSUME cut = {}, replaying_to' > 0, NEW i \in Frames, i < next_line + 1
        PROVE  stream[i].seq < replaying_to'
    <3>1. i = next_line \/ i < next_line
      BY <1>1, <2>5
    <3>2. replaying_to' = replaying_to
      BY <2>2, <2>5
    <3>3. CASE i < next_line
      BY <2>1, <2>5, <3>2, <3>3 DEF ReplayIsBehind
    <3> QED BY <2>3, <2>5, <3>1, <3>3 DEF l
  <2> QED BY <1>2, <2>1, <2>4, <2>5 DEF ReplayIsBehind
<1>6. CASE TakeCutFrame
  <2>1. pc = "reading" /\ position' = position /\ cut' # {}
    BY <1>6 DEF TakeCutFrame, Take
  <2>2. replaying_to' = replaying_to \/ replaying_to' = Past(NoLine).replaying_to
    BY <1>6 DEF TakeCutFrame, Take, MoveTo
  <2>3. Past(NoLine).replaying_to = replaying_to
    BY DEF Past, IsFrame, NoLine
  <2> QED BY <2>1, <2>2, <2>3 DEF ReplayIsBehind
<1>7. CASE RenamePosition
  <2>1. Past(line).replaying_to = 0
    BY <1>7, PastFrameInHand DEF RenamePosition, LineInHand, Holding, Recording
  <2> QED BY <1>7, <2>1 DEF RenamePosition, MoveTo, ReplayIsBehind
<1>8. CASE Restart
  BY <1>8 DEF Restart, ReplayIsBehind
<1>9. CASE RoundExits \/ CancelFires \/ CancelSeen \/ UNCHANGED vars
  BY <1>2, <1>9 DEF RoundExits, CancelFires, CancelSeen, vars, ReplayIsBehind
<1>10. CASE StreamBreaks \/ WriteFails \/ SettleFails
  BY <1>2, <1>10 DEF StreamBreaks, WriteFails, SettleFails, ReplayIsBehind
<1>11. CASE WaitedOut \/ StreamEnds \/ Terminates \/ RoundIsGivenUp \/ Settle
  BY <1>2, <1>11 DEF WaitedOut, StreamEnds, Terminates, RoundIsGivenUp, Settle, ReplayIsBehind
<1>12. CASE AppendLine \/ WritePosition
  BY <1>2, <1>12 DEF AppendLine, WritePosition, ReplayIsBehind
<1> QED
  BY <1>3, <1>4, <1>5, <1>6, <1>7, <1>8, <1>9, <1>10, <1>11, <1>12, Zenon
     DEF Next, CollectorStep

-----------------------------------------------------------------------------
(* What is in the logs stays there, if not readable; what comes to them is *)
(* the line in hand or a verdict made up.                                  *)

EventIsAdded == LineIsWritten \/ VerdictIsMadeUp
LogIsTouched == EventIsSpoilt \/ EventIsAdded

LEMMA EventsStay ==
  ASSUME TypeOK, LineInHand, [Next]_vars
  PROVE  /\ \A i \in DOMAIN events :
              /\ i \in DOMAIN events'
              /\ events'[i].line = events[i].line /\ events'[i].is = events[i].is
              /\ events'[i].read => events[i].read
              /\ events[i].read /\ ~ events'[i].read => Bare(i) /\ LogIsTouched
         /\ \A i \in DOMAIN events' \ DOMAIN events :
              /\ i = Len(events) + 1 /\ EventIsAdded
              /\ LineIsWritten => events'[i].line = next_line - 1 /\ events'[i].is = line.is
              /\ VerdictIsMadeUp => events'[i].line = 0 /\ events'[i].is = "verdict"
              /\ events'[i].read <=> last_line = "whole"
         /\ EventIsAdded => Len(events) + 1 \in DOMAIN events' /\ Len(events') = Len(events) + 1
<1> DEFINE Stay(e) ==
             \A i \in DOMAIN events :
               /\ i \in DOMAIN e
               /\ e[i].line = events[i].line /\ e[i].is = events[i].is
               /\ e[i].read => events[i].read
               /\ events[i].read /\ ~ e[i].read => Bare(i)
<1>1. CASE EventIsSpoilt
  <2>1. events' = Spoilt /\ ~ EventIsAdded /\ LogIsTouched
    <3>1. events' = Spoilt /\ Len(events') = Len(events)
      BY <1>1, SpoiltEvents DEF EventIsSpoilt, Spoils
    <3>2. ASSUME EventIsAdded PROVE FALSE
      <4>1. PICK n \in 0 .. MaxLines, is \in EventKinds : events' = TextWritten(n, is)
        <5>1. CASE LineIsWritten
          <6>1. next_line - 1 \in 0 .. MaxLines
            BY TypesInParts DEF PlaceTypes
          <6> QED BY <5>1, <6>1 DEF LineIsWritten, Writes
        <5>2. CASE VerdictIsMadeUp
          <6>1. 0 \in 0 .. MaxLines /\ "verdict" \in EventKinds
            BY DEF EventKinds
          <6> QED BY <5>2, <6>1 DEF VerdictIsMadeUp, Writes
        <5> QED BY <3>2, <5>1, <5>2 DEF EventIsAdded
      <4>2. Len(events') = Len(events) + 1
        BY <4>1, WrittenEvents, Zenon
      <4> QED BY <3>1, <4>2, EventsInLogs
    <3> QED BY <1>1, <3>1, <3>2 DEF LogIsTouched
  <2>2. DOMAIN events' = DOMAIN events /\ Stay(events')
    BY <2>1, SpoiltEvents
  <2> QED BY <2>1, <2>2
<1>2. CASE EventIsAdded
  <2> DEFINE last == Len(events) + 1
  <2>1. PICK n \in 0 .. MaxLines, is \in EventKinds :
          /\ events' = TextWritten(n, is)
          /\ LineIsWritten => n = next_line - 1 /\ is = line.is
          /\ VerdictIsMadeUp => n = 0 /\ is = "verdict"
    <3>1. CASE LineIsWritten
      <4>1. next_line - 1 \in 0 .. MaxLines /\ ~ VerdictIsMadeUp
        BY <3>1, TypesInParts DEF PlaceTypes, LineIsWritten, VerdictIsMadeUp
      <4> QED BY <3>1, <4>1 DEF LineIsWritten, Writes
    <3>2. CASE VerdictIsMadeUp
      <4>1. 0 \in 0 .. MaxLines /\ "verdict" \in EventKinds /\ ~ LineIsWritten
        BY <3>2 DEF EventKinds, LineIsWritten, VerdictIsMadeUp
      <4> QED BY <3>2, <4>1 DEF VerdictIsMadeUp, Writes
    <3> QED BY <1>2, <3>1, <3>2 DEF EventIsAdded
  <2>2. /\ Len(events') = last /\ DOMAIN events' = DOMAIN events \cup {last}
        /\ events'[last].line = n /\ events'[last].is = is
        /\ events'[last].read <=> last_line = "whole"
        /\ Stay(events')
    <3>1. /\ Len(TextWritten(n, is)) = last /\ DOMAIN TextWritten(n, is) = DOMAIN events \cup {last}
          /\ TextWritten(n, is)[last].line = n /\ TextWritten(n, is)[last].is = is
          /\ TextWritten(n, is)[last].read <=> last_line = "whole"
          /\ \A i \in DOMAIN events :
               /\ TextWritten(n, is)[i].line = events[i].line
               /\ TextWritten(n, is)[i].is = events[i].is
               /\ TextWritten(n, is)[i].read <=> events[i].read /\ ~ Bare(i)
      BY WrittenEvents
    <3>2. Stay(TextWritten(n, is))
      BY <3>1, Zenon
    <3> HIDE DEF Stay
    <3> QED BY <2>1, <3>1, <3>2, Zenon
  <2>3. LogIsTouched
    BY <1>2 DEF LogIsTouched
  <2> QED BY <1>2, <2>1, <2>2, <2>3
<1>3. CASE ~ EventIsAdded /\ ~ EventIsSpoilt
  <2>1. events' = events
    BY <1>3, StepsOnLogs DEF EventIsAdded, StreamGrows, RoundPrints, FrameIsCut, TakeCutFrame, Take,
       PositionMoves, RenamePosition, OutputGrows, AppendLine, NoneIsTouched, diskVars, eventsVars
  <2> QED BY <1>3, <2>1
<1> QED BY <1>1, <1>2, <1>3

LEMMA OutputStays ==
  ASSUME TypeOK, LineInHand, [Next]_vars
  PROVE  /\ \A i \in DOMAIN output : i \in DOMAIN output' /\ output'[i] = output[i]
         /\ \A i \in DOMAIN output' \ DOMAIN output :
              /\ i = Len(output) + 1 /\ OutputGrows
              /\ output'[i].line = next_line - 1 /\ output'[i].is = line.is
         /\ OutputGrows => Len(output) + 1 \in DOMAIN output' \ DOMAIN output
<1>1. output \in OutputLog /\ Len(output) \in Nat /\ DOMAIN output = 1 .. Len(output)
  BY TypesInParts, EventsInLogs DEF LogTypes
<1>2. CASE OutputGrows
  <2> DEFINE e == Entry(next_line - 1, line.is)
  <2>1. output' = Append(output, e) /\ e.line = next_line - 1 /\ e.is = line.is
    BY <1>2 DEF OutputGrows, AppendLine, Entry
  <2> HIDE DEF e
  <2>2. /\ DOMAIN output' = 1 .. Len(output) + 1 /\ output'[Len(output) + 1] = e
        /\ \A i \in DOMAIN output : output'[i] = output[i]
    BY <1>1, <2>1 DEF OutputLog
  <2> QED BY <1>1, <1>2, <2>1, <2>2
<1>3. CASE ~ OutputGrows
  <2>1. output' = output
    BY <1>3, StepsOnLogs DEF StreamGrows, RoundPrints, FrameIsCut, TakeCutFrame, Take, EventIsSpoilt,
       PositionMoves, RenamePosition, LineIsWritten, VerdictIsMadeUp, NoneIsTouched, diskVars
  <2> QED BY <1>3, <2>1
<1> QED BY <1>2, <1>3

LEMMA LoggedIs ==
  /\ \A n : n \in Logged <=>
       \/ \E i \in DOMAIN events : events[i].line = n /\ n # 0
       \/ \E i \in DOMAIN output : output[i].line = n
  /\ \A n : n \in Readable <=>
       \/ \E i \in DOMAIN events : events[i].line = n /\ n # 0 /\ events[i].read
       \/ \E i \in DOMAIN output : output[i].line = n
BY DEF Logged, Readable, LinesIn, FromStream, Unread

LEMMA LoggedStays ==
  ASSUME TypeOK, LineInHand, [Next]_vars
  PROVE  /\ Logged \subseteq Logged'
         /\ AppendLine => next_line - 1 \in Logged'
<1>1. /\ \A n : n \in Logged' <=>
           \/ \E i \in DOMAIN events' : events'[i].line = n /\ n # 0
           \/ \E i \in DOMAIN output' : output'[i].line = n
  BY DEF Logged, LinesIn, FromStream
<1>2. Logged \subseteq Logged'
  <2> SUFFICES ASSUME NEW n \in Logged PROVE n \in Logged'
    OBVIOUS
  <2>1. CASE \E i \in DOMAIN events : events[i].line = n /\ n # 0
    BY <1>1, <2>1, EventsStay
  <2>2. CASE \E i \in DOMAIN output : output[i].line = n
    BY <1>1, <2>2, OutputStays
  <2> QED BY <2>1, <2>2, LoggedIs
<1>3. ASSUME AppendLine PROVE next_line - 1 \in Logged'
  <2>1. pc = "routed" /\ next_line - 1 # 0
    BY <1>3, TypesInParts DEF AppendLine, LineInHand, Holding, PlaceTypes
  <2>2. CASE line.is \in EventKinds
    <3>1. LineIsWritten
      BY <1>3, <2>2 DEF AppendLine, AppendEvent, LineIsWritten, Writes
    <3>2. Len(events) + 1 \in DOMAIN events' \ DOMAIN events
      <4>1. Len(events) + 1 \in DOMAIN events'
        BY <3>1, EventsStay DEF EventIsAdded
      <4> QED BY <4>1, EventsInLogs
    <3> QED BY <1>1, <2>1, <3>1, <3>2, EventsStay
  <2>3. CASE line.is \notin EventKinds
    <3>1. OutputGrows
      BY <1>3, <2>3 DEF OutputGrows
    <3> QED BY <1>1, <3>1, OutputStays
  <2> QED BY <2>2, <2>3
<1> QED BY <1>2, <1>3

-----------------------------------------------------------------------------
(* Every line passed is in a log.                                          *)

LEMMA PassedKept ==
  ASSUME TypeOK, StreamIsNumbered, LineInHand, ReplayIsBehind, PassedAreLogged, BookmarkIsLogged,
         [Next]_vars
  PROVE  PassedAreLogged'
<1> USE DEF worldVars, diskVars, whereVars, cancelVars
<1>1. /\ Len(stream) \in Nat /\ next_line \in Nat /\ next_line >= 1 /\ position \in Nat
      /\ replaying_to \in Nat /\ Frames \subseteq DOMAIN stream /\ DOMAIN stream = 1 .. Len(stream)
      /\ next_line <= Len(stream) + 1
  BY LinesOfStream, TypesInParts DEF PlaceTypes, LineInHand
<1>2. UNCHANGED stream => Frames' = Frames
  BY DEF Frames
<1>3. Logged \subseteq Logged'
  BY LoggedStays
<1> DEFINE Holds == {"routed", "waitingOut", "gaveUp"}
<1>4. /\ pc \notin Holds => InHand = {}
      /\ pc \in Holds => InHand = {next_line - 1}
      /\ pc' \notin Holds => InHand' = {}
      /\ pc' \in Holds => InHand' = {next_line' - 1}
  BY DEF InHand
<1>5. CASE RoundPrints
  <2>1. UNCHANGED <<pc, cut, next_line>>
    BY <1>5 DEF RoundPrints
  <2>2. InHand' = InHand
    BY <2>1 DEF InHand
  <2>3. \A n \in 1 .. next_line - 1 : n \in Frames' => n \in Frames
    BY <1>1, <1>5, StreamGrown DEF StreamGrows
  <2> QED BY <1>3, <2>1, <2>2, <2>3 DEF PassedAreLogged
<1>6. CASE StartCollecting \/ Restart
  BY <1>6 DEF StartCollecting, Restart, PassedAreLogged
<1>7. CASE TakeLine
  <2> DEFINE l == stream[next_line]
  <2>1. /\ pc = "reading" /\ next_line \in DOMAIN stream /\ next_line' = next_line + 1
        /\ UNCHANGED <<stream, position, cut>>
        /\ last_seq = position /\ l.seq \in Nat
        /\ IsFrame(l) <=> next_line \in Frames
        /\ replaying_to \in {0, position}
    BY <1>1, <1>7, LinesOfStream DEF TakeLine, Take, LineInHand, ReplayIsBehind, Frames
  <2>2. \A n \in (1 .. next_line - 1) \ cut : cut = {} \/ n \in Frames => n \in Logged'
    BY <1>3, <1>4, <2>1 DEF PassedAreLogged
  <2>3. CASE ~ AlreadyCollected(l)
    <3>1. pc' = "routed"
      BY <1>7, <2>3 DEF TakeLine, Take
    <3>2. InHand' = {next_line}
      BY <1>1, <1>4, <2>1, <3>1
    <3> QED BY <1>1, <1>2, <2>1, <2>2, <3>2 DEF PassedAreLogged
  <2>4. CASE AlreadyCollected(l)
    <3>1. next_line \notin cut /\ (cut = {} \/ next_line \in Frames) => next_line \in Logged
      <4> SUFFICES ASSUME next_line \notin cut, cut = {} \/ next_line \in Frames
                   PROVE  next_line \in Logged
        OBVIOUS
      <4>1. CASE next_line \in Frames
        BY <2>1, <2>4, <4>1 DEF AlreadyCollected, BookmarkIsLogged
      <4>2. CASE next_line \notin Frames
        <5>1. replaying_to = position /\ position > 0 /\ cut = {}
          BY <2>1, <2>4, <4>2 DEF AlreadyCollected
        <5>2. PICK k \in Frames : stream[k].seq = position
          BY <5>1 DEF StreamIsNumbered
        <5>3. ~ (k < next_line) /\ k \in Nat
          BY <1>1, <2>1, <5>1, <5>2 DEF ReplayIsBehind
        <5>4. 1 .. k \subseteq Logged
          BY <1>1, <5>1, <5>2 DEF BookmarkIsLogged
        <5> QED BY <1>1, <5>3, <5>4
      <4> QED BY <4>1, <4>2
    <3> QED BY <1>1, <1>2, <1>3, <2>1, <2>2, <3>1 DEF PassedAreLogged
  <2> QED BY <2>3, <2>4
<1>8. CASE TakeCutFrame
  <2>1. /\ pc = "reading" /\ next_line' = next_line + 1 /\ UNCHANGED stream
        /\ cut' = cut \cup {next_line}
    BY <1>8 DEF TakeCutFrame, Take
  <2>2. \A n \in (1 .. next_line - 1) \ cut : cut = {} \/ n \in Frames => n \in Logged'
    BY <1>3, <1>4, <2>1 DEF PassedAreLogged
  <2> QED BY <1>1, <1>2, <2>1, <2>2 DEF PassedAreLogged
<1>9. CASE AppendLine
  <2>1. /\ pc = "routed" /\ pc' \notin Holds /\ UNCHANGED <<stream, cut, next_line>>
        /\ next_line - 1 \in Logged'
    BY <1>9, LoggedStays DEF AppendLine
  <2>2. InHand = {next_line - 1} /\ InHand' = {}
    BY <1>4, <2>1
  <2> QED BY <1>1, <1>2, <1>3, <2>1, <2>2 DEF PassedAreLogged
<1>10. CASE /\ UNCHANGED <<stream, cut, next_line>>
            /\ pc \in Holds => pc' \in Holds
  <2>1. InHand \subseteq InHand'
    BY <1>4, <1>10
  <2> QED BY <1>2, <1>3, <1>10, <2>1 DEF PassedAreLogged
<1>11. CASE RoundExits \/ WritePosition \/ RenamePosition \/ WaitedOut \/ CancelSeen \/ StreamEnds
  BY <1>10, <1>11 DEF RoundExits, WritePosition, RenamePosition, WaitedOut, CancelSeen, StreamEnds
<1>12. CASE Settle \/ StreamBreaks \/ WriteFails \/ SettleFails \/ CancelFires
  BY <1>10, <1>12 DEF Settle, StreamBreaks, WriteFails, SettleFails, CancelFires
<1>13. CASE Terminates \/ RoundIsGivenUp \/ UNCHANGED vars
  BY <1>10, <1>13 DEF Terminates, RoundIsGivenUp, vars
<1> QED
  BY <1>5, <1>6, <1>7, <1>8, <1>9, <1>11, <1>12, <1>13, Zenon DEF Next, CollectorStep

LEMMA BookmarkKept ==
  ASSUME TypeOK, StreamIsNumbered, LineInHand, PassedAreLogged, BookmarkIsLogged, [Next]_vars
  PROVE  BookmarkIsLogged'
<1>1. /\ Len(stream) \in Nat /\ next_line \in Nat /\ next_line >= 1 /\ position \in Nat
      /\ Frames \subseteq DOMAIN stream /\ DOMAIN stream = 1 .. Len(stream)
      /\ Logged \subseteq Logged'
      /\ \A i \in Frames : stream[i].seq \in Nat
  BY LinesOfStream, LoggedStays, TypesInParts DEF PlaceTypes
<1>2. UNCHANGED stream => Frames' = Frames
  BY DEF Frames
<1>3. CASE StreamGrows
  <2>1. UNCHANGED <<position, cut>>
    BY <1>3 DEF StreamGrows, RoundPrints, diskVars
  <2>2. position <= Cardinality(Frames) /\ Cardinality(Frames) \in Nat
    BY <1>1, FramesAreFinite DEF StreamIsNumbered
  <2>3. \A k \in Frames' : stream'[k].seq <= position => k \in Frames /\ stream[k].seq <= position
    BY <1>1, <1>3, <2>2, StreamGrown
  <2> QED BY <1>1, <2>1, <2>3 DEF BookmarkIsLogged
<1>4. CASE FrameIsCut
  <2>1. UNCHANGED <<stream, position>> /\ cut \subseteq cut' /\ cut' # {}
    BY <1>4 DEF FrameIsCut, TakeCutFrame, Take, diskVars
  <2> QED BY <1>1, <1>2, <2>1 DEF BookmarkIsLogged
<1>5. CASE PositionMoves
  <2>1. UNCHANGED <<stream, cut, next_line>> /\ position' = written /\ pc = "renaming"
    BY <1>5 DEF PositionMoves, RenamePosition, worldVars
  <2>2. IsFrame(line) /\ written = line.seq /\ pc \in Holding
    BY <2>1 DEF LineInHand, Recording, Holding
  <2>3. next_line - 1 \in Frames /\ stream[next_line - 1].seq = position'
    BY <2>1, <2>2, FrameInHand
  <2>4. \A n \in Frames : stream[n].seq <= position' => n <= next_line - 1
    <3> TAKE n \in Frames
    <3>1. next_line - 1 < n => stream[next_line - 1].seq < stream[n].seq
      BY <2>3, LaterIsHigher
    <3> QED BY <1>1, <2>3, <3>1
  <2>5. \A n \in (1 .. next_line - 1) \ cut : cut = {} \/ n \in Frames => n \in Logged'
    BY <1>1, <2>1 DEF PassedAreLogged, InHand
  <2>6. \A n \in Frames \ cut : stream[n].seq <= position' => n \in Logged'
    BY <1>1, <2>4, <2>5
  <2>7. cut = {} => \A k \in Frames : stream[k].seq <= position' => 1 .. k \subseteq Logged'
    BY <1>1, <2>4, <2>5
  <2> QED BY <1>2, <2>1, <2>6, <2>7 DEF BookmarkIsLogged
<1>6. CASE UNCHANGED <<stream, cut, position>>
  BY <1>1, <1>2, <1>6 DEF BookmarkIsLogged
<1> QED
  BY <1>3, <1>4, <1>5, <1>6, StepsOnLogs DEF OutputGrows, AppendLine, EventIsSpoilt, LineIsWritten,
     VerdictIsMadeUp, NoneIsTouched, worldVars

\* A frame that was read was routed, and its number recorded.
LEMMA RecordedKept ==
  ASSUME TypeOK, StreamIsNumbered, LineInHand, PassedAreRecorded, [Next]_vars
  PROVE  PassedAreRecorded'
<1> USE DEF worldVars, diskVars, whereVars, cancelVars
<1> DEFINE Bound == IF pc \in Holding THEN next_line - 1 ELSE next_line
<1>1. /\ Len(stream) \in Nat /\ next_line \in Nat /\ next_line >= 1 /\ position \in Nat
      /\ Frames \subseteq DOMAIN stream /\ DOMAIN stream = 1 .. Len(stream)
      /\ next_line <= Len(stream) + 1 /\ \A i \in Frames : stream[i].seq \in Nat
  BY LinesOfStream, TypesInParts DEF PlaceTypes, LineInHand
<1>2. UNCHANGED stream => Frames' = Frames
  BY DEF Frames
<1>3. CASE RoundPrints
  <2>1. UNCHANGED <<pc, cut, next_line, position>>
    BY <1>3 DEF RoundPrints
  <2>2. \A n \in Frames' : n < next_line => n \in Frames /\ stream'[n] = stream[n]
    BY <1>1, <1>3, StreamGrown DEF StreamGrows
  <2>3. \A n \in Frames' : n < Bound => n \in Frames /\ stream'[n] = stream[n]
    <3> TAKE n \in Frames'
    <3>1. n \in Nat
      BY <1>1, <1>3, StreamGrown DEF StreamGrows
    <3> QED BY <1>1, <2>2, <3>1
  <2> QED BY <2>1, <2>3 DEF PassedAreRecorded
<1>4. CASE StartCollecting
  <2>1. pc' = "reading" /\ next_line' = 1 /\ UNCHANGED stream
    BY <1>4 DEF StartCollecting
  <2>2. \A n \in Frames' : ~ (n < 1)
    BY <1>1, <1>2, <2>1
  <2> QED BY <2>1, <2>2 DEF PassedAreRecorded, Holding
<1>5. CASE TakeLine
  <2>1. /\ pc = "reading" /\ next_line' = next_line + 1 /\ UNCHANGED <<stream, position, cut>>
        /\ last_seq = position
        /\ IsFrame(stream[next_line]) <=> next_line \in Frames
        /\ pc' = "routed" \/ (pc' = "reading" /\ AlreadyCollected(stream[next_line]))
    BY <1>1, <1>5 DEF TakeLine, Take, LineInHand, Frames
  <2>2. pc' = "reading" => (next_line \in Frames => stream[next_line].seq <= position)
    BY <2>1 DEF AlreadyCollected
  <2> QED BY <1>1, <1>2, <2>1, <2>2 DEF PassedAreRecorded, Reading, Holding
<1>6. CASE TakeCutFrame
  <2>1. /\ pc = "reading" /\ next_line' = next_line + 1 /\ UNCHANGED <<stream, position>>
        /\ cut' = cut \cup {next_line} /\ pc' \in {"reading", "routed"}
    BY <1>6 DEF TakeCutFrame, Take
  <2> QED BY <1>1, <1>2, <2>1 DEF PassedAreRecorded, Reading, Holding
<1>7. CASE AppendLine
  <2>1. /\ pc = "routed" /\ UNCHANGED <<stream, position, cut, next_line>>
        /\ pc' = "recording" \/ (pc' = "reading" /\ Past(line).last_seq = last_seq)
    BY <1>7 DEF AppendLine
  <2>2. ASSUME pc' = "reading", next_line - 1 \in Frames \ cut PROVE FALSE
    <3>1. ~ IsFrame(line)
      <4> SUFFICES ASSUME IsFrame(line) PROVE FALSE
        OBVIOUS
      <4>1. Past(line).last_seq = line.seq /\ line.seq > position /\ last_seq = position
        BY <2>1, PastFrameInHand, FrameInHand DEF LineInHand, Holding
      <4>2. line.seq \in Nat
        BY LineInHandIs
      <4> QED BY <1>1, <2>1, <2>2, <4>1, <4>2
    <3>2. line = stream[next_line - 1]
      BY <2>1, <2>2 DEF LineInHand, Holding
    <3> QED BY <2>2, <3>1, <3>2 DEF Frames
  <2> QED BY <1>1, <1>2, <2>1, <2>2 DEF PassedAreRecorded, Reading, Holding
<1>8. CASE RenamePosition
  <2>1. UNCHANGED <<stream, cut, next_line>> /\ position' = written /\ pc = "renaming" /\ pc' = "reading"
    BY <1>8 DEF RenamePosition
  <2>2. IsFrame(line) /\ written = line.seq /\ pc \in Holding
    BY <2>1 DEF LineInHand, Recording, Holding
  <2>3. stream[next_line - 1].seq = position' /\ position' > position
    BY <2>1, <2>2, FrameInHand
  <2>4. \A n \in Frames \ cut : n < next_line => stream[n].seq <= position'
    <3> TAKE n \in Frames \ cut
    <3>1. n < next_line - 1 => stream[n].seq <= position
      BY <2>1, <2>2 DEF PassedAreRecorded, Reading, Holding
    <3>2. n \in Nat /\ stream[n].seq \in Nat /\ line.seq \in Nat
      BY <1>1, LineInHandIs
    <3> QED BY <1>1, <2>1, <2>2, <2>3, <3>1, <3>2
  <2> QED BY <1>2, <2>1, <2>4 DEF PassedAreRecorded, Holding
<1>9. CASE WritePosition
  <2>1. UNCHANGED <<stream, cut, next_line, position>> /\ pc = "recording" /\ pc' = "renaming"
    BY <1>9 DEF WritePosition
  <2> QED BY <1>2, <2>1 DEF PassedAreRecorded, Reading, Holding
<1>10. CASE RoundExits \/ CancelFires \/ CancelSeen \/ UNCHANGED vars
  BY <1>2, <1>10 DEF RoundExits, CancelFires, CancelSeen, vars, PassedAreRecorded
<1>11. CASE StreamBreaks \/ WriteFails \/ SettleFails \/ Restart
  <2>1. pc' \notin Reading
    BY <1>11 DEF StreamBreaks, WriteFails, SettleFails, Restart, Reading
  <2> QED BY <2>1 DEF PassedAreRecorded
<1>12. CASE WaitedOut \/ StreamEnds \/ Terminates \/ RoundIsGivenUp \/ Settle
  <2>1. pc' \notin Reading
    BY <1>12 DEF WaitedOut, StreamEnds, Terminates, RoundIsGivenUp, Settle, Reading
  <2> QED BY <2>1 DEF PassedAreRecorded
<1> QED
  BY <1>3, <1>4, <1>5, <1>6, <1>7, <1>8, <1>9, <1>10, <1>11, <1>12, Zenon DEF Next, CollectorStep

-----------------------------------------------------------------------------
(* Entries are lines of the stream, and in its order.                      *)

LEMMA FromStreamIs ==
  /\ \A i : i \in FromStream(events) <=> i \in DOMAIN events /\ events[i].line # 0
  /\ \A i : i \in FromStream(events') <=> i \in DOMAIN events' /\ events'[i].line # 0
BY DEF FromStream

LEMMA StreamStays ==
  ASSUME TypeOK, [Next]_vars
  PROVE  /\ \A i \in DOMAIN stream : i \in DOMAIN stream' /\ stream'[i] = stream[i]
         /\ \A i \in DOMAIN stream : i \in Frames' <=> i \in Frames
         /\ \A i \in Frames' \ Frames : StreamGrows /\ i = Len(stream) + 1
         /\ cut \subseteq cut'
         /\ ~ StreamGrows => UNCHANGED stream
<1>1. CASE StreamGrows
  <2>1. UNCHANGED cut
    BY <1>1 DEF StreamGrows, RoundPrints
  <2> QED BY <1>1, <2>1, StreamGrown, LinesOfStream
<1>2. CASE ~ StreamGrows
  <2>1. UNCHANGED stream /\ cut \subseteq cut'
    BY <1>2, StepsOnLogs DEF FrameIsCut, TakeCutFrame, Take, PositionMoves, RenamePosition, OutputGrows,
       AppendLine, EventIsSpoilt, LineIsWritten, VerdictIsMadeUp, NoneIsTouched, worldVars
  <2>2. Frames' = Frames
    BY <2>1 DEF Frames
  <2> QED BY <1>2, <2>1, <2>2
<1> QED BY <1>1, <1>2

LEMMA EventInHand ==
  ASSUME TypeOK, LineInHand, LineIsWritten
  PROVE  /\ pc = "routed" /\ next_line - 1 \in Frames /\ line = stream[next_line - 1]
         /\ stream[next_line - 1].is = line.is /\ stream[next_line - 1].seq > position
         /\ next_line - 1 # 0 /\ next_line - 1 \in 1 .. Len(stream)
         /\ UNCHANGED <<stream, cut, output, position>>
<1>1. pc = "routed" /\ IsFrame(line) /\ pc \in Holding
  BY LineInHandIs DEF LineIsWritten, EventKinds, Holding
<1>2. next_line - 1 \in Frames /\ line = stream[next_line - 1] /\ stream[next_line - 1].seq > position
  BY <1>1, FrameInHand
<1>3. next_line - 1 \in 1 .. Len(stream)
  BY <1>2, LinesOfStream
<1> QED BY <1>1, <1>2, <1>3 DEF LineIsWritten, worldVars

LEMMA EntriesKept ==
  ASSUME TypeOK, LineInHand, EntriesAreLines, [Next]_vars
  PROVE  EntriesAreLines'
<1>1. ASSUME NEW i \in FromStream(events')
      PROVE  /\ events'[i].line \in Frames'
             /\ stream'[events'[i].line].is = events'[i].is
  <2>1. i \in DOMAIN events' /\ events'[i].line # 0
    BY <1>1, FromStreamIs
  <2>2. CASE i \in DOMAIN events
    <3>1. events'[i].line = events[i].line /\ events'[i].is = events[i].is
      BY <2>2, EventsStay
    <3>2. events[i].line \in Frames /\ stream[events[i].line].is = events[i].is
      BY <2>1, <2>2, <3>1, FromStreamIs DEF EntriesAreLines
    <3> QED BY <3>1, <3>2, StreamStays, LinesOfStream
  <2>3. CASE i \notin DOMAIN events
    <3>1. LineIsWritten /\ events'[i].line = next_line - 1 /\ events'[i].is = line.is
      BY <2>1, <2>3, EventsStay DEF EventIsAdded
    <3>2. next_line - 1 \in Frames /\ stream[next_line - 1].is = line.is
      BY <3>1, EventInHand
    <3> QED BY <3>1, <3>2, StreamStays, LinesOfStream
  <2> QED BY <2>2, <2>3
<1>2. ASSUME NEW i \in DOMAIN output'
      PROVE  /\ output'[i].line \in DOMAIN stream'
             /\ \/ stream'[output'[i].line].is = output'[i].is
                \/ output'[i].is = "raw" /\ output'[i].line \in cut'
  <2>1. CASE i \in DOMAIN output
    <3>1. output'[i] = output[i]
      BY <2>1, OutputStays
    <3>2. /\ output[i].line \in DOMAIN stream
          /\ \/ stream[output[i].line].is = output[i].is
             \/ output[i].is = "raw" /\ output[i].line \in cut
      BY <2>1 DEF EntriesAreLines
    <3> QED BY <3>1, <3>2, StreamStays
  <2>2. CASE i \notin DOMAIN output
    <3>1. OutputGrows /\ output'[i].line = next_line - 1 /\ output'[i].is = line.is
      BY <1>2, <2>2, OutputStays
    <3>2. pc \in Holding
      BY <3>1 DEF OutputGrows, AppendLine, Holding
    <3>3. next_line - 1 \in DOMAIN stream
      BY <3>2, LinesOfStream, TypesInParts DEF LineInHand, PlaceTypes
    <3>4. line = stream[next_line - 1] \/ (line.is = "raw" /\ next_line - 1 \in cut)
      BY <3>2, LineInHandIs DEF LineInHand
    <3> QED BY <3>1, <3>3, <3>4, StreamStays
  <2> QED BY <2>1, <2>2
<1> QED BY <1>1, <1>2 DEF EntriesAreLines

\* A frame at or before the position stays there.
LEMMA PositionRises ==
  ASSUME TypeOK, LineInHand, [Next]_vars
  PROVE  /\ position' >= position /\ position \in Nat /\ position' \in Nat
         /\ ~ PositionMoves => position' = position
<1>1. position \in Nat /\ position' \in Nat
  <2>1. PlaceTypes /\ PlaceTypes'
    BY TypesInParts, PlaceTypesKept
  <2> QED BY <2>1 DEF PlaceTypes
<1>2. CASE PositionMoves
  <2>1. pc = "renaming" /\ position' = written
    BY <1>2 DEF PositionMoves, RenamePosition
  <2>2. pc \in Holding /\ IsFrame(line) /\ written = line.seq
    BY <2>1 DEF LineInHand, Recording, Holding
  <2> QED BY <1>1, <1>2, <2>1, <2>2, FrameInHand
<1>3. CASE ~ PositionMoves
  <2>1. position' = position
    BY <1>3, StepsOnLogs DEF StreamGrows, RoundPrints, FrameIsCut, TakeCutFrame, Take, OutputGrows,
       AppendLine, EventIsSpoilt, LineIsWritten, VerdictIsMadeUp, NoneIsTouched, diskVars
  <2> QED BY <1>1, <2>1
<1> QED BY <1>2, <1>3

\* A frame whose number is not recorded was not before.
LEMMA UnrecordedBefore ==
  ASSUME TypeOK, StreamIsNumbered, LineInHand, [Next]_vars,
         NEW k \in Frames', k \notin cut', stream'[k].seq > position', k \in DOMAIN stream
  PROVE  k \in Frames \ cut /\ stream[k].seq > position /\ stream'[k] = stream[k]
<1>1. k \in Frames /\ k \notin cut /\ stream'[k] = stream[k] /\ stream[k].seq \in Nat
  BY StreamStays, LinesOfStream
<1> QED BY <1>1, PositionRises

\* The next frame to route is not before the one in hand.
LEMMA NextIsInHand ==
  ASSUME TypeOK, LineInHand, PassedAreRecorded, pc \in Holding,
         NEW k \in Frames \ cut, stream[k].seq > position
  PROVE  next_line - 1 <= k
<1>1. k \in Nat /\ stream[k].seq \in Nat /\ position \in Nat /\ next_line \in Nat
  BY LinesOfStream, TypesInParts DEF PlaceTypes
<1>2. ~ (k < next_line - 1)
  BY <1>1 DEF PassedAreRecorded, Reading, Holding
<1> QED BY <1>1, <1>2

LEMMA RoutedKept ==
  ASSUME TypeOK, StreamIsNumbered, LineInHand, PassedAreRecorded, EntriesAreLines, RoutedComeNext,
         [Next]_vars
  PROVE  RoutedComeNext'
<1> SUFFICES ASSUME NEW i \in FromStream(events'), NEW k \in Frames' \ cut', stream'[k].seq > position'
             PROVE  events'[i].line <= k
  BY DEF RoutedComeNext
<1>1. i \in DOMAIN events' /\ events'[i].line # 0
  BY FromStreamIs
<1>2. CASE i \in DOMAIN events
  <2>1. events'[i].line = events[i].line /\ i \in FromStream(events)
    BY <1>1, <1>2, EventsStay, FromStreamIs
  <2>2. events[i].line \in Frames /\ Frames \subseteq 1 .. Len(stream) /\ Len(stream) \in Nat
    BY <2>1, LinesOfStream DEF EntriesAreLines
  <2>3. CASE k \in DOMAIN stream
    BY <2>1, <2>3, UnrecordedBefore DEF RoutedComeNext
  <2>4. CASE k \notin DOMAIN stream
    <3>1. k = Len(stream) + 1
      BY <2>4, StreamStays, LinesOfStream
    <3>2. events[i].line \in 1 .. Len(stream)
      BY <2>2
    <3> QED BY <2>1, <2>2, <3>1, <3>2
  <2> QED BY <2>3, <2>4
<1>3. CASE i \notin DOMAIN events
  <2>1. LineIsWritten /\ events'[i].line = next_line - 1
    BY <1>1, <1>3, EventsStay DEF EventIsAdded
  <2>2. UNCHANGED stream /\ pc \in Holding
    BY <2>1, EventInHand DEF Holding
  <2>3. k \in DOMAIN stream
    BY <2>2, LinesOfStream DEF Frames
  <2> QED BY <2>1, <2>2, <2>3, UnrecordedBefore, NextIsInHand
<1> QED BY <1>2, <1>3

LEMMA OrderKept ==
  ASSUME TypeOK, LineInHand, RoutedComeNext, EventsAreInOrder, [Next]_vars
  PROVE  EventsAreInOrder'
<1> SUFFICES ASSUME NEW i \in FromStream(events'), NEW k \in FromStream(events'), i < k
             PROVE  events'[i].line <= events'[k].line \/ events'[k].line \in cut'
  BY DEF EventsAreInOrder
<1>1. /\ i \in DOMAIN events' /\ events'[i].line # 0
      /\ k \in DOMAIN events' /\ events'[k].line # 0
      /\ Len(events) \in Nat /\ DOMAIN events = 1 .. Len(events)
  BY FromStreamIs, EventsInLogs
<1>2. CASE k \in DOMAIN events
  <2>1. i \in DOMAIN events
    <3>1. i \notin DOMAIN events => i = Len(events) + 1
      BY <1>1, EventsStay
    <3> QED BY <1>1, <1>2, <3>1
  <2>2. /\ events'[i].line = events[i].line /\ events'[k].line = events[k].line
        /\ i \in FromStream(events) /\ k \in FromStream(events)
    BY <1>1, <1>2, <2>1, EventsStay, FromStreamIs
  <2>3. cut \subseteq cut'
    BY StreamStays
  <2> QED BY <2>2, <2>3 DEF EventsAreInOrder
<1>3. CASE k \notin DOMAIN events
  <2>1. LineIsWritten /\ events'[k].line = next_line - 1 /\ k = Len(events) + 1
    BY <1>1, <1>3, EventsStay DEF EventIsAdded
  <2>2. i \in DOMAIN events
    BY <1>1, <2>1, EventsStay
  <2>3. events'[i].line = events[i].line /\ i \in FromStream(events)
    BY <1>1, <2>2, EventsStay, FromStreamIs
  <2>4. next_line - 1 \in Frames /\ stream[next_line - 1].seq > position /\ UNCHANGED cut
    BY <2>1, EventInHand
  <2> QED BY <2>1, <2>3, <2>4 DEF RoutedComeNext
<1> QED BY <1>2, <1>3

LEMMA TextKept ==
  ASSUME TypeOK, StreamIsNumbered, LineInHand, PassedAreRecorded, EntriesAreLines, TextIsNext,
         [Next]_vars
  PROVE  TextIsNext'
<1> SUFFICES ASSUME last_line' = "text" PROVE TextIsNext'
  BY DEF TextIsNext
<1>1. /\ Len(events) \in Nat /\ DOMAIN events = 1 .. Len(events) /\ position \in Nat
      /\ Frames \subseteq DOMAIN stream /\ DOMAIN stream = 1 .. Len(stream) /\ Len(stream) \in Nat
      /\ \A k \in Frames : stream[k].seq \in Nat
      /\ next_line \in Nat
  BY EventsInLogs, LinesOfStream, TypesInParts DEF PlaceTypes
<1>2. UNCHANGED stream => Frames' = Frames
  BY DEF Frames
<1>3. CASE EventIsAdded
  <2>1. events' # <<>> /\ Len(events') = Len(events) + 1 /\ Len(events) + 1 \in DOMAIN events' \ DOMAIN events
    <3>1. Len(events) + 1 \in DOMAIN events' \ DOMAIN events /\ Len(events') = Len(events) + 1
      BY <1>1, <1>3, EventsStay
    <3> QED BY <1>1, <3>1
  <2>2. CASE LineIsWritten
    <3> DEFINE n == next_line - 1
    <3>1. /\ events'[Len(events')].line = n /\ n \in Frames /\ stream[n].seq > position
          /\ UNCHANGED <<stream, position, cut>> /\ pc = "routed"
      BY <2>1, <2>2, EventsStay, EventInHand
    <3>2. \A k \in Frames \ cut : k < n => stream[k].seq <= position
      BY <3>1 DEF PassedAreRecorded, Reading, Holding
    <3> QED BY <1>2, <2>1, <3>1, <3>2 DEF TextIsNext
  <2>3. CASE VerdictIsMadeUp
    <3>1. events'[Len(events')].line = 0
      BY <2>1, <2>3, EventsStay
    <3> QED BY <2>1, <3>1 DEF TextIsNext
  <2> QED BY <1>3, <2>2, <2>3 DEF EventIsAdded
<1>4. CASE ~ EventIsAdded
  <2>1. UNCHANGED eventsVars
    BY <1>4, StepsOnLogs DEF StreamGrows, RoundPrints, FrameIsCut, TakeCutFrame, Take, PositionMoves,
       RenamePosition, OutputGrows, AppendLine, EventIsSpoilt, Spoils, EventIsAdded, NoneIsTouched, diskVars
  <2> DEFINE n == events[Len(events)].line
  <2>2. UNCHANGED <<events, last_line>> /\ last_line = "text" /\ events # <<>>
    BY <2>1 DEF eventsVars, TextIsNext
  <2> SUFFICES ASSUME n # 0
               PROVE  /\ n \in cut' \/ stream'[n].seq > position'
                      /\ \A k \in Frames' \ cut' : k < n => stream'[k].seq <= position'
    BY <2>2 DEF TextIsNext
  <2>3. Len(events) \in FromStream(events)
    <3>1. Len(events) \in DOMAIN events
      BY <1>1, <2>2, EmptySeq, TypesInParts DEF LogTypes, EventLog
    <3> QED BY <3>1, FromStreamIs
  <2>4. n \in Frames /\ stream[n].is = events[Len(events)].is
    BY <2>3 DEF EntriesAreLines
  <2>5. n \in cut \/ stream[n].seq > position
    BY <2>2 DEF TextIsNext
  <2>6. \A k \in Frames \ cut : k < n => stream[k].seq <= position
    BY <2>2 DEF TextIsNext
  <2>7. \A k \in Frames' \ cut' : k < n => stream'[k].seq <= position'
    <3> SUFFICES ASSUME NEW k \in Frames' \ cut', k < n PROVE stream'[k].seq <= position'
      OBVIOUS
    <3>1. k \in DOMAIN stream
      <4>1. k \notin DOMAIN stream => k = Len(stream) + 1
        BY StreamStays, LinesOfStream
      <4> QED BY <1>1, <2>4, <4>1
    <3>2. k \in Frames \ cut /\ stream'[k] = stream[k]
      BY <3>1, StreamStays
    <3> QED BY <1>1, <2>6, <3>2, PositionRises
  <2>8. stream'[n] = stream[n] /\ cut \subseteq cut'
    BY <1>1, <2>4, StreamStays
  <2>9. CASE n \in cut
    BY <2>7, <2>8, <2>9
  <2>10. CASE n \notin cut /\ ~ PositionMoves
    BY <2>5, <2>7, <2>8, <2>10, PositionRises
  <2>11. CASE n \notin cut /\ PositionMoves
    <3> DEFINE p == next_line - 1
    <3>1. pc = "renaming" /\ position' = written
      BY <2>11 DEF PositionMoves, RenamePosition
    <3>2. pc \in Holding /\ IsFrame(line) /\ written = line.seq /\ line.is \notin EventKinds
      BY <2>2, <3>1 DEF LineInHand, Recording, Holding
    <3>3. p \in Frames /\ line = stream[p] /\ position' = stream[p].seq
      BY <3>1, <3>2, FrameInHand
    <3>4. p <= n
      BY <2>4, <2>5, <2>11, <3>2, NextIsInHand
    <3>5. p # n
      <4>1. events[Len(events)].is \in EventKinds
        BY <2>3, FromStreamIs, EventsInLogs
      <4> QED BY <2>4, <3>2, <3>3, <4>1
    <3>6. stream[n].seq > position'
      BY <1>1, <2>4, <3>3, <3>4, <3>5, LaterIsHigher
    <3> QED BY <2>7, <2>8, <3>6
  <2> QED BY <2>9, <2>10, <2>11
<1> QED BY <1>3, <1>4

-----------------------------------------------------------------------------
(* Of the lines passed, no more are lost than there were interruptions.    *)

LEMMA LostIs ==
  /\ \A n : n \in Lost <=>
       /\ n # 0 /\ n \notin cut /\ n \notin Readable
       /\ \E i \in DOMAIN events : events[i].line = n /\ ~ events[i].read
  /\ \A n : n \in Lost' <=>
       /\ n # 0 /\ n \notin cut' /\ n \notin Readable'
       /\ \E i \in DOMAIN events' : events'[i].line = n /\ ~ events'[i].read
BY DEF Lost, LinesIn, FromStream, Unread

LEMMA LostIsFinite ==
  ASSUME TypeOK PROVE IsFiniteSet(Lost) /\ Cardinality(Lost) \in Nat
<1>1. Lost \subseteq 0 .. MaxLines /\ 0 \in Int /\ MaxLines \in Int
  BY LostIs, EventsInLogs
<1>2. IsFiniteSet(0 .. MaxLines)
  BY <1>1, FS_Interval, Zenon
<1> QED BY <1>1, <1>2, FS_Subset, FS_CardinalityType

\* A line is lost with the line it is appended to, or with the one that is
\* appended to it.
LEMMA LostAnew ==
  ASSUME TypeOK, LineInHand, [Next]_vars, NEW n \in Lost' \ Lost
  PROVE  /\ LogIsTouched /\ last_line # "whole" /\ n # 0 /\ n \notin cut
         /\ \/ last_line = "text" /\ Len(events) \in DOMAIN events /\ n = events[Len(events)].line
            \/ LineIsWritten /\ n = next_line - 1
<1>1. n # 0 /\ n \notin cut' /\ n \notin Readable'
  BY LostIs
<1>2. n \notin cut
  BY <1>1, StreamStays
<1>3. PICK i \in DOMAIN events' : events'[i].line = n /\ ~ events'[i].read
  BY LostIs
<1>4. \A k : /\ k \in DOMAIN events' /\ events'[k].line = n => ~ events'[k].read
             /\ k \in DOMAIN output' => output'[k].line # n
  <2> TAKE k
  <2>1. k \in DOMAIN events' /\ events'[k].line = n /\ events'[k].read => n \in Readable'
    BY <1>1 DEF Readable, LinesIn, FromStream, Unread
  <2>2. k \in DOMAIN output' /\ output'[k].line = n => n \in Readable'
    BY DEF Readable, LinesIn
  <2> QED BY <1>1, <2>1, <2>2
<1>5. ASSUME NEW k \in DOMAIN events, events[k].line = n, events[k].read
      PROVE  LogIsTouched /\ last_line = "text" /\ k = Len(events)
  <2>1. k \in DOMAIN events' /\ events'[k].line = n /\ (~ events'[k].read => Bare(k) /\ LogIsTouched)
    BY <1>5, EventsStay
  <2>2. ~ events'[k].read
    BY <1>4, <2>1
  <2> QED BY <2>1, <2>2 DEF Bare
<1>6. CASE i \in DOMAIN events
  <2>1. events[i].line = n
    BY <1>3, <1>6, EventsStay
  <2>2. \A k \in DOMAIN output : output[k].line # n
    <3> TAKE k \in DOMAIN output
    <3>1. k \in DOMAIN output' /\ output'[k] = output[k]
      BY OutputStays
    <3> QED BY <1>4, <3>1, Zenon
  <2>3. PICK k \in DOMAIN events : events[k].line = n /\ events[k].read
    <3>1. CASE events[i].read
      BY <1>6, <2>1, <3>1
    <3>2. CASE ~ events[i].read
      <4>1. n \in Readable
        BY <1>1, <1>2, <1>6, <2>1, <3>2, LostIs
      <4> QED BY <2>2, <4>1, LoggedIs
    <3> QED BY <3>1, <3>2
  <2>4. LogIsTouched /\ last_line = "text" /\ k = Len(events)
    BY <1>5, <2>3
  <2> QED BY <1>1, <1>2, <2>3, <2>4
<1>7. CASE i \notin DOMAIN events
  <2>1. /\ LineIsWritten /\ events'[i].line = next_line - 1 /\ last_line # "whole"
    BY <1>1, <1>3, <1>7, EventsStay DEF EventIsAdded
  <2>2. LogIsTouched
    BY <2>1 DEF LogIsTouched, EventIsAdded
  <2> QED BY <1>1, <1>2, <1>3, <2>1, <2>2
<1> QED BY <1>6, <1>7

\* They are the same line: the one whose newline is missing comes next again.
LEMMA OneIsLost ==
  ASSUME TypeOK, StreamIsNumbered, LineInHand, PassedAreRecorded, EntriesAreLines, TextIsNext,
         [Next]_vars, NEW n \in Lost' \ Lost, NEW k \in Lost' \ Lost
  PROVE  n = k
<1> DEFINE m == events[Len(events)].line
           p == next_line - 1
<1>1. ASSUME last_line = "text", Len(events) \in DOMAIN events, m # 0, m \notin cut,
             LineIsWritten, p \notin cut
      PROVE  m = p
  <2>1. m \in Frames
    BY <1>1, FromStreamIs DEF EntriesAreLines
  <2>2. pc \in Holding /\ p \in Frames /\ stream[p].seq > position
    BY <1>1, EventInHand DEF Holding
  <2>3. stream[m].seq > position /\ \A f \in Frames \ cut : f < m => stream[f].seq <= position
    BY <1>1 DEF TextIsNext
  <2>4. p <= m
    BY <1>1, <2>1, <2>2, <2>3, NextIsInHand
  <2>5. {p, m} \subseteq 1 .. Len(stream) /\ Len(stream) \in Nat
        /\ stream[p].seq \in 0 .. MaxLines
    BY <2>1, <2>2, LinesOfStream
  <2>6. position \in 0 .. MaxLines /\ MaxLines \in Nat
    BY TypesInParts DEF PlaceTypes
  <2>7. stream[p].seq \in Nat /\ position \in Nat /\ p \in Nat /\ m \in Nat
    BY <2>5, <2>6
  <2>8. ~ (p < m)
    BY <1>1, <2>2, <2>3, <2>7
  <2> QED BY <2>4, <2>7, <2>8
<1> QED BY <1>1, LostAnew

LEMMA LossesKept ==
  ASSUME TypeOK, StreamIsNumbered, LineInHand, PassedAreRecorded, EntriesAreLines, TextIsNext,
         LossesAreInterruptions, [Next]_vars
  PROVE  LossesAreInterruptions'
<1>1. /\ IsFiniteSet(Lost) /\ Cardinality(Lost) \in Nat
      /\ IsFiniteSet(Lost') /\ Cardinality(Lost') \in Nat
  <2>1. (IsFiniteSet(Lost) /\ Cardinality(Lost) \in Nat)'
    BY TypesKept, LostIsFinite, PTL
  <2> QED BY <2>1, LostIsFinite
<1>2. Cardinality(Lost') <= Cardinality(Lost) + 1
  <2>1. CASE Lost' \subseteq Lost
    <3>1. Cardinality(Lost') <= Cardinality(Lost)
      BY <1>1, <2>1, FS_Subset
    <3> QED BY <1>1, <3>1
  <2>2. CASE ~ (Lost' \subseteq Lost)
    <3>1. PICK n : n \in Lost' \ Lost
      BY <2>2
    <3>2. Lost' \subseteq Lost \cup {n}
      BY <3>1, OneIsLost
    <3>3. IsFiniteSet(Lost \cup {n}) /\ Cardinality(Lost \cup {n}) = Cardinality(Lost) + 1
      BY <1>1, <3>1, FS_AddElement
    <3> QED BY <1>1, <3>2, <3>3, FS_Subset
  <2> QED BY <2>1, <2>2
<1>3. ~ LogIsTouched \/ last_line = "whole" => Cardinality(Lost') <= Cardinality(Lost)
  <2> SUFFICES ASSUME ~ LogIsTouched \/ last_line = "whole"
               PROVE  Cardinality(Lost') <= Cardinality(Lost)
    OBVIOUS
  <2>1. Lost' \subseteq Lost
    BY LostAnew
  <2> QED BY <1>1, <2>1, FS_Subset
<1>4. interruptions \in Nat /\ Cardinality(Lost) + Owed <= interruptions
  BY TypesInParts DEF PlaceTypes, LossesAreInterruptions
<1>5. CASE LogIsTouched
  <2>1. \/ Spoils
        \/ last_line' = "whole" /\ interruptions' = interruptions
        \/ interruptions' = interruptions + 1
    BY <1>5 DEF LogIsTouched, EventIsAdded, EventIsSpoilt, LineIsWritten, VerdictIsMadeUp, Writes
  <2>2. interruptions' = interruptions + 1 \/ (last_line' = "whole" /\ interruptions' = interruptions)
    BY <2>1 DEF Spoils
  <2> QED BY <1>1, <1>2, <1>3, <1>4, <2>2 DEF LossesAreInterruptions, Owed
<1>6. CASE ~ LogIsTouched
  <2>1. last_line' = last_line /\ interruptions' \in {interruptions, interruptions + 1}
    BY <1>6, StepsOnLogs DEF LogIsTouched, EventIsAdded, StreamGrows, RoundPrints, FrameIsCut,
       TakeCutFrame, Take, PositionMoves, RenamePosition, OutputGrows, AppendLine, NoneIsTouched,
       diskVars, eventsVars
  <2> QED BY <1>1, <1>3, <1>4, <1>6, <2>1 DEF LossesAreInterruptions, Owed
<1> QED BY <1>5, <1>6

-----------------------------------------------------------------------------
(* Of the frames, no more are repeated than there were interruptions: one  *)
(* that may come again is not recorded, and there is one to each.          *)

FrameIsAppended == LineIsWritten \/ (OutputGrows /\ IsFrame(line))

LEMMA FramesInIs ==
  /\ \A i : i \in FramesIn(events) <=>
       i \in DOMAIN events /\ events[i].line # 0 /\ events[i].is # "raw"
  /\ \A i : i \in FramesIn(output) <=>
       i \in DOMAIN output /\ output[i].line # 0 /\ output[i].is # "raw"
  /\ \A i : i \in FramesIn(events') <=>
       i \in DOMAIN events' /\ events'[i].line # 0 /\ events'[i].is # "raw"
  /\ \A i : i \in FramesIn(output') <=>
       i \in DOMAIN output' /\ output'[i].line # 0 /\ output'[i].is # "raw"
BY DEF FramesIn, FromStream

LEMMA FrameLinesAre ==
  /\ \A n : n \in FrameLines <=>
       \/ \E i \in FramesIn(events) : events[i].line = n
       \/ \E i \in FramesIn(output) : output[i].line = n
  /\ \A n : n \in FrameLines' <=>
       \/ \E i \in FramesIn(events') : events'[i].line = n
       \/ \E i \in FramesIn(output') : output'[i].line = n
BY DEF FrameLines, LinesIn

LEMMA FrameLinesAreFrames ==
  ASSUME TypeOK, EntriesAreLines
  PROVE  /\ FrameLines \subseteq Frames
         /\ IsFiniteSet(FrameLines) /\ Cardinality(FrameLines) \in Nat
         /\ IsFiniteSet(FramesIn(events)) /\ Cardinality(FramesIn(events)) \in Nat
         /\ IsFiniteSet(FramesIn(output)) /\ Cardinality(FramesIn(output)) \in Nat
         /\ IsFiniteSet(Repeatable) /\ Cardinality(Repeatable) \in Nat
<1>1. FrameLines \subseteq Frames
  <2> SUFFICES ASSUME NEW n \in FrameLines PROVE n \in Frames
    OBVIOUS
  <2>1. CASE \E i \in FramesIn(events) : events[i].line = n
    BY <2>1, FramesInIs, FromStreamIs DEF EntriesAreLines
  <2>2. CASE \E i \in FramesIn(output) : output[i].line = n
    <3>1. PICK i \in DOMAIN output : output[i].line = n /\ output[i].is # "raw"
      BY <2>2, FramesInIs
    <3>2. n \in DOMAIN stream /\ stream[n].is # "raw"
      BY <3>1 DEF EntriesAreLines
    <3> QED BY <3>2, LinesOfStream
  <2> QED BY <2>1, <2>2, FrameLinesAre
<1>2. \A m \in Nat : IsFiniteSet(1 .. m)
  <2> TAKE m \in Nat
  <2>1. 1 \in Int /\ m \in Int
    OBVIOUS
  <2> QED BY <2>1, FS_Interval, Zenon
<1>3. FramesIn(events) \subseteq 1 .. Len(events) /\ FramesIn(output) \subseteq 1 .. Len(output)
  BY FramesInIs, EventsInLogs
<1>4. /\ IsFiniteSet(FrameLines) /\ IsFiniteSet(FramesIn(events)) /\ IsFiniteSet(FramesIn(output))
  BY <1>1, <1>2, <1>3, EventsInLogs, FramesAreFinite, FS_Subset
<1>5. IsFiniteSet(Repeatable)
  <2>1. Repeatable \subseteq FrameLines
    BY DEF Repeatable
  <2> QED BY <1>4, <2>1, FS_Subset
<1> QED BY <1>1, <1>4, <1>5, FS_CardinalityType

\* What a step appends to the frames in the logs.
LEMMA FramesAppended ==
  ASSUME TypeOK, LineInHand, [Next]_vars
  PROVE  /\ FramesIn(events') = IF LineIsWritten THEN FramesIn(events) \cup {Len(events) + 1}
                                ELSE FramesIn(events)
         /\ FramesIn(output') = IF OutputGrows /\ IsFrame(line) THEN FramesIn(output) \cup {Len(output) + 1}
                                ELSE FramesIn(output)
         /\ FrameLines' = IF FrameIsAppended THEN FrameLines \cup {next_line - 1} ELSE FrameLines
         /\ ~ (LineIsWritten /\ OutputGrows)
<1>1. \A i \in DOMAIN events : i \in FramesIn(events') <=> i \in FramesIn(events)
  BY EventsStay, FramesInIs
<1>2. \A i \in DOMAIN output : i \in FramesIn(output') <=> i \in FramesIn(output)
  BY OutputStays, FramesInIs
<1>3. FramesIn(events) \subseteq DOMAIN events /\ FramesIn(output) \subseteq DOMAIN output
  BY FramesInIs
<1>4. \A i : i \in FramesIn(events') /\ i \notin DOMAIN events <=> LineIsWritten /\ i = Len(events) + 1
  <2>1. ASSUME LineIsWritten
        PROVE  Len(events) + 1 \in FramesIn(events') /\ Len(events) + 1 \notin DOMAIN events
    <3>1. Len(events) + 1 \in DOMAIN events' \ DOMAIN events
      BY <2>1, EventsStay, EventsInLogs DEF EventIsAdded
    <3>2. events'[Len(events) + 1].line = next_line - 1 /\ events'[Len(events) + 1].is = line.is
      BY <2>1, <3>1, EventsStay
    <3>3. next_line - 1 # 0 /\ line.is # "raw"
      BY <2>1, EventInHand DEF LineIsWritten, EventKinds
    <3> QED BY <3>1, <3>2, <3>3, FramesInIs
  <2>2. ASSUME NEW i \in FramesIn(events'), i \notin DOMAIN events
        PROVE  LineIsWritten /\ i = Len(events) + 1
    BY <2>2, EventsStay, FramesInIs DEF EventIsAdded
  <2> QED BY <2>1, <2>2
<1>5. pc = "routed" => next_line - 1 # 0
  BY TypesInParts DEF LineInHand, Holding, PlaceTypes
<1>6. OutputGrows => pc = "routed"
  BY DEF OutputGrows, AppendLine
<1>7. \A i : i \in FramesIn(output') /\ i \notin DOMAIN output
                <=> OutputGrows /\ IsFrame(line) /\ i = Len(output) + 1
  <2>1. ASSUME OutputGrows, IsFrame(line)
        PROVE  Len(output) + 1 \in FramesIn(output') /\ Len(output) + 1 \notin DOMAIN output
    <3>1. Len(output) + 1 \in DOMAIN output' \ DOMAIN output
      BY <2>1, OutputStays
    <3>2. output'[Len(output) + 1].line = next_line - 1 /\ output'[Len(output) + 1].is = line.is
      BY <2>1, <3>1, OutputStays
    <3>3. line.is # "raw"
      BY <2>1, LineInHandIs
    <3> QED BY <1>5, <1>6, <2>1, <3>1, <3>2, <3>3, FramesInIs
  <2>2. ASSUME NEW i \in FramesIn(output'), i \notin DOMAIN output
        PROVE  OutputGrows /\ IsFrame(line) /\ i = Len(output) + 1
    <3>1. i \in DOMAIN output' \ DOMAIN output /\ output'[i].is # "raw"
      BY <2>2, FramesInIs
    <3>2. OutputGrows /\ i = Len(output) + 1 /\ output'[i].is = line.is
      BY <3>1, OutputStays
    <3> QED BY <3>1, <3>2, LineInHandIs
  <2> QED BY <2>1, <2>2
<1>8. FramesIn(events') = IF LineIsWritten THEN FramesIn(events) \cup {Len(events) + 1}
                          ELSE FramesIn(events)
  BY <1>1, <1>3, <1>4
<1>9. FramesIn(output') = IF OutputGrows /\ IsFrame(line) THEN FramesIn(output) \cup {Len(output) + 1}
                          ELSE FramesIn(output)
  <2>1. CASE OutputGrows /\ IsFrame(line)
    BY <1>2, <1>3, <1>7, <2>1
  <2>2. CASE ~ (OutputGrows /\ IsFrame(line))
    <3>1. FramesIn(output') \subseteq FramesIn(output)
      BY <1>2, <1>7, <2>2
    <3>2. FramesIn(output) \subseteq FramesIn(output')
      BY <1>2, <1>3
    <3> QED BY <2>2, <3>1, <3>2
  <2> QED BY <2>1, <2>2
<1>10. \A i \in FramesIn(events) : events'[i].line = events[i].line
  BY <1>3, EventsStay
<1>11. \A i \in FramesIn(output) : output'[i].line = output[i].line
  <2> TAKE i \in FramesIn(output)
  <2>1. output'[i] = output[i]
    BY <1>3, OutputStays
  <2> QED BY <2>1, Zenon
<1>12. FrameIsAppended => next_line - 1 \in FrameLines'
  <2>1. LineIsWritten => Len(events) + 1 \in FramesIn(events') /\ events'[Len(events) + 1].line = next_line - 1
    BY <1>4, EventsStay, FramesInIs
  <2>2. OutputGrows /\ IsFrame(line) =>
          Len(output) + 1 \in FramesIn(output') /\ output'[Len(output) + 1].line = next_line - 1
    BY <1>7, OutputStays, FramesInIs
  <2> QED BY <2>1, <2>2, FrameLinesAre DEF FrameIsAppended
<1>13. \A n \in FrameLines' : n \in FrameLines \/ (FrameIsAppended /\ n = next_line - 1)
  <2> TAKE n \in FrameLines'
  <2>1. CASE \E i \in FramesIn(events') : events'[i].line = n
    <3>1. PICK i \in FramesIn(events') : events'[i].line = n
      BY <2>1
    <3>2. CASE i \in DOMAIN events
      BY <1>1, <1>10, <3>1, <3>2, FrameLinesAre
    <3>3. CASE i \notin DOMAIN events
      BY <1>4, <3>1, <3>3, EventsStay, FramesInIs DEF FrameIsAppended
    <3> QED BY <3>2, <3>3
  <2>2. CASE \E i \in FramesIn(output') : output'[i].line = n
    <3>1. PICK i \in FramesIn(output') : output'[i].line = n
      BY <2>2
    <3>2. CASE i \in DOMAIN output
      BY <1>2, <1>11, <3>1, <3>2, FrameLinesAre
    <3>3. CASE i \notin DOMAIN output
      BY <1>7, <3>1, <3>3, OutputStays, FramesInIs DEF FrameIsAppended
    <3> QED BY <3>2, <3>3
  <2> QED BY <2>1, <2>2, FrameLinesAre
<1>14. FrameLines \subseteq FrameLines'
  <2> SUFFICES ASSUME NEW n \in FrameLines PROVE n \in FrameLines'
    OBVIOUS
  <2>1. CASE \E i \in FramesIn(events) : events[i].line = n
    BY <1>8, <1>10, <2>1, FrameLinesAre
  <2>2. CASE \E i \in FramesIn(output) : output[i].line = n
    BY <1>9, <1>11, <2>2, FrameLinesAre
  <2> QED BY <2>1, <2>2, FrameLinesAre
<1>15. ~ (LineIsWritten /\ OutputGrows)
  BY DEF LineIsWritten, OutputGrows
<1> QED BY <1>8, <1>9, <1>12, <1>13, <1>14, <1>15

\* A frame is recorded once it is appended, or there was an interruption.
LEMMA Recordings ==
  ASSUME TypeOK, LineInHand, [Next]_vars
  PROVE  /\ interruptions' \in {interruptions, interruptions + 1}
         /\ pc \in Recording =>
              \/ pc' \in Recording /\ next_line' = next_line
              \/ PositionMoves /\ pc' = "reading"
              \/ interruptions' = interruptions + 1 /\ pc' \notin Recording
         /\ pc \notin Recording /\ pc' \in Recording =>
              FrameIsAppended /\ next_line' = next_line
         /\ FrameIsAppended =>
              \/ pc \notin Recording /\ pc' \in Recording
              \/ pc \notin Recording /\ pc' \notin Recording /\ interruptions' = interruptions + 1
<1> USE DEF Recording, whereVars
<1>1. FrameIsAppended => pc = "routed" /\ (LineIsWritten => events' # events)
  <2>1. FrameIsAppended => pc = "routed"
    BY DEF FrameIsAppended, LineIsWritten, OutputGrows, AppendLine
  <2>2. LineIsWritten => events' # events
    BY EventsStay, EventsInLogs DEF EventIsAdded
  <2> QED BY <2>1, <2>2
<1>2. CASE AppendLine
  <2>1. /\ pc = "routed" /\ pc' = (IF Past(line).last_seq # last_seq THEN "recording" ELSE "reading")
        /\ next_line' = next_line /\ interruptions' = interruptions
    BY <1>2 DEF AppendLine
  <2>2. IsFrame(line) => Past(line).last_seq # last_seq
    <3> SUFFICES ASSUME IsFrame(line) PROVE Past(line).last_seq # last_seq
      OBVIOUS
    <3>1. Past(line).last_seq = line.seq /\ line.seq > position /\ last_seq = position
      BY <2>1, PastFrameInHand, FrameInHand DEF LineInHand, Holding
    <3>2. line.seq \in Nat /\ position \in Nat
      BY LineInHandIs, TypesInParts DEF PlaceTypes
    <3> QED BY <3>1, <3>2
  <2>3. ~ IsFrame(line) => Past(line).last_seq = last_seq
    BY DEF Past
  <2>4. line.is \in EventKinds => LineIsWritten /\ IsFrame(line)
    BY <1>2, LineInHandIs DEF AppendLine, AppendEvent, LineIsWritten, Writes, EventKinds
  <2>5. FrameIsAppended <=> IsFrame(line)
    BY <1>2, <2>4 DEF FrameIsAppended, OutputGrows, LineIsWritten
  <2> QED BY <2>1, <2>2, <2>3, <2>5
<1>3. CASE RenamePosition
  BY <1>1, <1>3 DEF RenamePosition, PositionMoves
<1>4. CASE WritePosition
  BY <1>1, <1>4 DEF WritePosition
<1>5. CASE WriteFails \/ SettleFails \/ Restart
  <2>1. interruptions' = interruptions + 1 /\ pc' \notin {"recording", "renaming"}
    BY <1>5 DEF WriteFails, SettleFails, Restart
  <2> QED BY <1>1, <2>1
<1>6. ASSUME UNCHANGED <<events, output>> PROVE ~ FrameIsAppended
  <2>1. ~ LineIsWritten
    BY <1>1, <1>6 DEF FrameIsAppended
  <2>2. ~ OutputGrows
    <3>1. DOMAIN output' = DOMAIN output
      BY <1>6, Zenon
    <3> QED BY <3>1, OutputStays
  <2> QED BY <2>1, <2>2 DEF FrameIsAppended
<1> USE DEF diskVars, eventsVars
<1>7. CASE RoundPrints \/ RoundExits \/ CancelFires \/ UNCHANGED vars
  <2>1. UNCHANGED <<events, output, pc, next_line, interruptions>>
    BY <1>7 DEF RoundPrints, RoundExits, CancelFires, vars
  <2> QED BY <1>6, <2>1
<1>8. CASE StartCollecting \/ TakeLine \/ TakeCutFrame
  <2>1. /\ UNCHANGED <<events, output>> /\ interruptions' \in {interruptions, interruptions + 1}
        /\ pc \notin Recording /\ pc' \notin Recording
    BY <1>8 DEF StartCollecting, TakeLine, TakeCutFrame, Take
  <2> QED BY <1>6, <2>1
<1>9. CASE WaitedOut \/ CancelSeen \/ StreamEnds \/ StreamBreaks \/ Terminates \/ RoundIsGivenUp
  <2>1. /\ UNCHANGED <<events, output>> /\ interruptions' \in {interruptions, interruptions + 1}
        /\ pc \notin Recording /\ pc' \notin Recording
    BY <1>9 DEF WaitedOut, CancelSeen, StreamEnds, StreamBreaks, Terminates, RoundIsGivenUp
  <2> QED BY <1>6, <2>1
<1>10. CASE Settle
  <2>1. pc = "settling" /\ pc' = "over" /\ interruptions' = interruptions
    BY <1>10 DEF Settle
  <2> QED BY <1>1, <2>1
<1> QED
  BY <1>2, <1>3, <1>4, <1>5, <1>7, <1>8, <1>9, <1>10, Zenon DEF Next, CollectorStep

LEMMA RepeatsKept ==
  ASSUME TypeOK, StreamIsNumbered, LineInHand, EntriesAreLines, RepeatsAreInterruptions, [Next]_vars
  PROVE  RepeatsAreInterruptions'
<1> DEFINE E == Cardinality(FramesIn(events))
           O == Cardinality(FramesIn(output))
           R == Cardinality(Repeatable)
           L == Cardinality(FrameLines)
           B == IF pc \in Recording THEN 1 ELSE 0
           n == next_line - 1
<1>1. /\ FrameLines \subseteq Frames /\ IsFiniteSet(FrameLines) /\ IsFiniteSet(FramesIn(events))
      /\ IsFiniteSet(FramesIn(output)) /\ IsFiniteSet(Repeatable)
      /\ E \in Nat /\ O \in Nat /\ R \in Nat /\ L \in Nat
  BY FrameLinesAreFrames
<1>2. /\ FrameLines' \subseteq Frames' /\ IsFiniteSet(FrameLines') /\ IsFiniteSet(FramesIn(events'))
      /\ IsFiniteSet(FramesIn(output')) /\ IsFiniteSet(Repeatable')
      /\ E' \in Nat /\ O' \in Nat /\ R' \in Nat /\ L' \in Nat
  <2>1. (/\ FrameLines \subseteq Frames
         /\ IsFiniteSet(FrameLines) /\ Cardinality(FrameLines) \in Nat
         /\ IsFiniteSet(FramesIn(events)) /\ Cardinality(FramesIn(events)) \in Nat
         /\ IsFiniteSet(FramesIn(output)) /\ Cardinality(FramesIn(output)) \in Nat
         /\ IsFiniteSet(Repeatable) /\ Cardinality(Repeatable) \in Nat)'
    BY TypesKept, EntriesKept, FrameLinesAreFrames, PTL
  <2> QED BY <2>1
<1>3. /\ interruptions \in Nat /\ E + O + R <= L + interruptions + B
      /\ pc \in Recording => n \in FrameLines
  BY TypesInParts DEF PlaceTypes, RepeatsAreInterruptions
<1>4. ASSUME NEW k \in FrameLines, stream'[k].seq > position'
      PROVE  k \in Repeatable
  <2>1. stream'[k] = stream[k] /\ stream[k].seq \in Nat
    BY <1>1, StreamStays, LinesOfStream
  <2> QED BY <1>4, <2>1, PositionRises DEF Repeatable
<1>5. CASE FrameIsAppended
  <2>1. E' + O' = E + O + 1
    <3>1. CASE LineIsWritten
      <4>1. /\ FramesIn(events') = FramesIn(events) \cup {Len(events) + 1}
            /\ FramesIn(output') = FramesIn(output)
        BY <3>1, FramesAppended
      <4>2. Len(events) + 1 \notin FramesIn(events)
        BY FramesInIs, EventsInLogs
      <4>3. E' = E + 1
        BY <1>1, <4>1, <4>2, FS_AddElement
      <4>4. O' = O
        BY <4>1
      <4> QED BY <1>1, <4>3, <4>4
    <3>2. CASE OutputGrows /\ IsFrame(line)
      <4>1. /\ FramesIn(output') = FramesIn(output) \cup {Len(output) + 1}
            /\ FramesIn(events') = FramesIn(events)
        BY <3>2, FramesAppended
      <4>2. Len(output) + 1 \notin FramesIn(output)
        BY FramesInIs, EventsInLogs
      <4>3. O' = O + 1
        BY <1>1, <4>1, <4>2, FS_AddElement
      <4>4. E' = E
        BY <4>1
      <4> QED BY <1>1, <4>3, <4>4
    <3> QED BY <1>5, <3>1, <3>2 DEF FrameIsAppended
  <2>2. FrameLines' = FrameLines \cup {n}
    BY <1>5, FramesAppended
  <2>3. R' + L <= R + L'
    <3>1. Repeatable' \subseteq Repeatable \cup {n}
      BY <1>4, <2>2 DEF Repeatable
    <3>2. CASE n \in FrameLines
      <4>1. Repeatable' \subseteq Repeatable /\ FrameLines' = FrameLines
        BY <1>4, <2>2, <3>2 DEF Repeatable
      <4>2. R' <= R /\ L' = L
        BY <1>1, <4>1, FS_Subset
      <4> QED BY <1>1, <1>2, <4>2
    <3>3. CASE n \notin FrameLines
      <4>1. L' = L + 1
        BY <1>1, <2>2, <3>3, FS_AddElement
      <4>2. IsFiniteSet(Repeatable \cup {n}) /\ Cardinality(Repeatable \cup {n}) = R + 1
        <5>1. n \notin Repeatable
          BY <3>3 DEF Repeatable
        <5> QED BY <1>1, <5>1, FS_AddElement
      <4>3. R' <= R + 1
        BY <3>1, <4>2, FS_Subset
      <4> QED BY <1>1, <1>2, <4>1, <4>3
    <3> QED BY <3>2, <3>3
  <2>4. interruptions' + B' >= interruptions + B + 1 /\ B = 0
    BY <1>3, <1>5, Recordings
  <2>5. pc' \in Recording => next_line' = next_line
    BY <1>5, Recordings
  <2>6. interruptions' \in Nat /\ B \in Nat /\ B' \in Nat
    BY <1>3, Recordings
  <2>7. E' + O' + R' <= L' + interruptions' + B'
    <3>1. E' + O' + R' + L <= E + O + R + 1 + L'
      BY <1>1, <1>2, <2>1, <2>3
    <3>2. E + O + R + 1 <= L + interruptions' + B'
      BY <1>1, <1>3, <2>4, <2>6
    <3> QED BY <1>1, <1>2, <2>6, <3>1, <3>2
  <2> QED BY <2>2, <2>5, <2>7 DEF RepeatsAreInterruptions, E, O, R, L, B
<1>6. CASE ~ FrameIsAppended
  <2>1. /\ FramesIn(events') = FramesIn(events) /\ FramesIn(output') = FramesIn(output)
        /\ FrameLines' = FrameLines
    BY <1>6, FramesAppended DEF FrameIsAppended
  <2>2. E' = E /\ O' = O /\ L' = L
    BY <2>1
  <2>3. Repeatable' \subseteq Repeatable
    BY <1>4, <2>1 DEF Repeatable
  <2>4. R' <= R
    BY <1>1, <2>3, FS_Subset
  <2>5. R' + interruptions + B <= R + interruptions' + B'
    <3>1. CASE interruptions' + B' >= interruptions + B
      BY <1>1, <1>2, <1>3, <2>4, <3>1, Recordings
    <3>2. CASE PositionMoves /\ pc' = "reading"
      <4>1. pc = "renaming" /\ position' = written /\ interruptions' = interruptions
        BY <3>2 DEF PositionMoves, RenamePosition
      <4>2. pc \in Holding /\ pc \in Recording /\ IsFrame(line) /\ written = line.seq
        BY <4>1 DEF LineInHand, Recording, Holding
      <4>3. stream[n].seq = position' /\ position' > position /\ n \in Frames
        BY <4>1, <4>2, FrameInHand
      <4>4. n \in Repeatable
        BY <1>3, <4>2, <4>3 DEF Repeatable
      <4>5. n \notin Repeatable'
        <5>1. stream'[n] = stream[n] /\ position' \in Nat
          BY <4>3, StreamStays, LinesOfStream, PositionRises
        <5> QED BY <4>3, <5>1 DEF Repeatable
      <4>6. R' < R
        <5>1. R' # R
          BY <1>1, <2>3, <4>4, <4>5, FS_Subset
        <5> QED BY <1>1, <1>2, <2>4, <5>1
      <4>7. B = 1 /\ B' = 0
        BY <3>2, <4>2 DEF Recording
      <4> QED BY <1>1, <1>2, <1>3, <4>1, <4>6, <4>7
    <3> QED BY <1>3, <3>1, <3>2, Recordings
  <2>6. pc' \in Recording => pc \in Recording /\ next_line' = next_line
    BY <1>6, Recordings DEF Recording
  <2>7. interruptions' \in Nat /\ B \in Nat /\ B' \in Nat
    BY <1>3, Recordings
  <2> HIDE DEF E, O, R, L, B
  <2>8. E' + O' + R' <= L' + interruptions' + B'
    BY <1>1, <1>2, <1>3, <2>2, <2>5, <2>7
  <2>9. pc' \in Recording => next_line' - 1 \in FrameLines'
    BY <1>3, <2>1, <2>6
  <2> QED BY <2>8, <2>9 DEF RepeatsAreInterruptions, E, O, R, L, B
<1> QED BY <1>5, <1>6

-----------------------------------------------------------------------------
(* One verdict is read, and it is the round's own.                         *)

LEMMA JudgedIs ==
  /\ Judged <=> ReadVerdicts # {}
  /\ \A i : i \in ReadVerdicts <=> i \in DOMAIN events /\ events[i].is = "verdict" /\ events[i].read
  /\ Judged' <=> ReadVerdicts' # {}
  /\ \A i : i \in ReadVerdicts' <=>
       i \in DOMAIN events' /\ events'[i].is = "verdict" /\ events'[i].read
BY DEF Judged, ReadVerdicts

\* A verdict comes to the log while none is read there.
LEMMA VerdictsComeFirst ==
  ASSUME TypeOK, StreamIsNumbered, LineInHand, VerdictsAreOne, EventIsAdded,
         LineIsWritten => line.is = "verdict"
  PROVE  ~ Judged /\ ~ collected
<1>1. CASE VerdictIsMadeUp
  BY <1>1 DEF VerdictIsMadeUp, VerdictsAreOne
<1>2. CASE LineIsWritten
  <2>1. /\ pc = "routed" /\ next_line - 1 \in DOMAIN stream
        /\ stream[next_line - 1].is = "verdict"
    BY <1>2, EventInHand, LinesOfStream
  <2>2. ~ collected
    <3> SUFFICES ASSUME collected PROVE FALSE
      OBVIOUS
    <3>1. PICK i \in DOMAIN stream : i < next_line - 1 /\ stream[i].is = "verdict"
      BY <2>1 DEF VerdictsAreOne, Reading
    <3>2. i = next_line - 1
      BY <2>1, <3>1 DEF StreamIsNumbered
    <3> QED BY <2>1, <3>1, <3>2, LinesOfStream
  <2> QED BY <2>1, <2>2 DEF VerdictsAreOne, Reading
<1> QED BY <1>1, <1>2 DEF EventIsAdded

LEMMA ReadVerdictsStay ==
  ASSUME TypeOK, StreamIsNumbered, LineInHand, VerdictsAreOne, [Next]_vars
  PROVE  /\ ReadVerdicts' \cap DOMAIN events \subseteq ReadVerdicts
         /\ \A i \in ReadVerdicts' \ DOMAIN events :
              /\ i = Len(events) + 1 /\ EventIsAdded
              /\ LineIsWritten => line.is = "verdict"
              /\ ReadVerdicts = {}
<1>1. ReadVerdicts' \cap DOMAIN events \subseteq ReadVerdicts
  BY EventsStay, JudgedIs
<1>2. ASSUME NEW i \in ReadVerdicts', i \notin DOMAIN events
      PROVE  /\ i = Len(events) + 1 /\ EventIsAdded
             /\ LineIsWritten => line.is = "verdict"
             /\ ReadVerdicts = {}
  <2>1. i \in DOMAIN events' \ DOMAIN events /\ events'[i].is = "verdict"
    BY <1>2, JudgedIs
  <2>2. i = Len(events) + 1 /\ EventIsAdded /\ (LineIsWritten => line.is = "verdict")
    BY <2>1, EventsStay
  <2> QED BY <2>2, VerdictsComeFirst, JudgedIs
<1> QED BY <1>1, <1>2

LEMMA VerdictsKept ==
  ASSUME TypeOK, StreamIsNumbered, LineInHand, VerdictsAreOne, [Next]_vars
  PROVE  VerdictsAreOne'
<1> USE DEF worldVars, whereVars, diskVars, eventsVars, cancelVars
<1> DEFINE Bound == IF pc = "routed" THEN next_line - 1 ELSE next_line
           Passed(n) == \E i \in DOMAIN stream : i < n /\ stream[i].is = "verdict"
           InLog == \E i \in DOMAIN events : events[i].is = "verdict"
<1>1. \A i, k \in ReadVerdicts' : i = k
  <2> SUFFICES ASSUME NEW i \in ReadVerdicts', NEW k \in ReadVerdicts' PROVE i = k
    OBVIOUS
  <2>1. CASE i \in DOMAIN events /\ k \in DOMAIN events
    BY <2>1, ReadVerdictsStay DEF VerdictsAreOne
  <2>2. CASE i \notin DOMAIN events \/ k \notin DOMAIN events
    <3>1. ReadVerdicts = {}
      BY <2>2, ReadVerdictsStay
    <3>2. i \notin DOMAIN events /\ k \notin DOMAIN events
      BY <3>1, ReadVerdictsStay
    <3> QED BY <3>2, ReadVerdictsStay
  <2> QED BY <2>1, <2>2
<1>2. ASSUME ~ Judged, ~ EventIsAdded PROVE ~ Judged'
  <2>1. ReadVerdicts' \subseteq DOMAIN events
    BY <1>2, ReadVerdictsStay
  <2> QED BY <1>2, <2>1, ReadVerdictsStay, JudgedIs
<1>3. InLog => InLog'
  BY EventsStay
<1>4. \A i \in DOMAIN stream : i \in DOMAIN stream' /\ stream'[i] = stream[i]
  BY StreamStays
<1>5. /\ Len(events) \in Nat /\ next_line \in Nat
      /\ EventIsAdded => /\ pc \in {"routed", "settling"} /\ events' # events
                         /\ pc = "settling" => ~ collected
  <2>1. EventIsAdded => Len(events') = Len(events) + 1
    BY EventsStay
  <2>2. EventIsAdded => pc \in {"routed", "settling"} /\ (pc = "settling" => ~ collected)
    BY DEF EventIsAdded, LineIsWritten, VerdictIsMadeUp
  <2> QED BY <2>1, <2>2, EventsInLogs, TypesInParts DEF PlaceTypes
<1>6. SUFFICES
        /\ pc' \in Reading \cup {"awaiting", "settling"} /\ ~ collected' => ~ Judged'
        /\ pc' \in Reading /\ collected' => Passed(Bound)'
        /\ collected' \/ pc' = "over" => InLog'
  BY <1>1, <1>6 DEF VerdictsAreOne
<1>7. CASE UNCHANGED <<pc, next_line, collected, events>>
  <2>1. ~ EventIsAdded
    BY <1>5, <1>7
  <2>2. pc \in Reading /\ collected => Passed(Bound)'
    <3> SUFFICES ASSUME pc \in Reading, collected PROVE Passed(Bound)'
      OBVIOUS
    <3>1. PICK i \in DOMAIN stream : i < Bound /\ stream[i].is = "verdict"
      BY DEF VerdictsAreOne
    <3>2. Bound' = Bound
      BY <1>7
    <3> QED BY <1>4, <3>1, <3>2
  <2> QED BY <1>2, <1>3, <1>7, <2>1, <2>2 DEF VerdictsAreOne
<1>8. CASE RoundPrints \/ RoundExits \/ CancelFires \/ CancelSeen \/ UNCHANGED vars
  BY <1>7, <1>8 DEF RoundPrints, RoundExits, CancelFires, CancelSeen, vars
<1>9. CASE StartCollecting
  <2>1. ~ Judged /\ pc = "idle" /\ ~ collected /\ UNCHANGED collected
    BY <1>9 DEF StartCollecting, LineInHand
  <2>2. ~ EventIsAdded
    BY <1>5, <2>1
  <2>3. pc' = "reading"
    BY <1>9 DEF StartCollecting
  <2> QED BY <1>2, <2>1, <2>2, <2>3
<1>10. CASE TakeLine \/ TakeCutFrame
  <2>1. /\ pc = "reading" /\ pc' \in {"reading", "routed"} /\ next_line' = next_line + 1
        /\ UNCHANGED <<stream, collected, events>>
    BY <1>10 DEF TakeLine, TakeCutFrame, Take
  <2>2. ~ EventIsAdded
    BY <1>5, <2>1
  <2>3. collected => Passed(Bound)'
    <3> SUFFICES ASSUME collected PROVE Passed(Bound)'
      OBVIOUS
    <3>1. PICK i \in DOMAIN stream : i < next_line /\ stream[i].is = "verdict"
      BY <2>1 DEF VerdictsAreOne, Reading
    <3>2. i \in Nat /\ i < Bound'
      BY <1>5, <2>1, <3>1, LinesOfStream
    <3> QED BY <2>1, <3>1, <3>2
  <2> QED BY <1>2, <1>3, <2>1, <2>2, <2>3 DEF VerdictsAreOne, Reading
<1>11. CASE AppendLine
  <2>1. /\ pc = "routed" /\ pc' \in {"reading", "recording"} /\ UNCHANGED <<stream, next_line>>
        /\ collected' <=> collected \/ line.is = "verdict"
    BY <1>11 DEF AppendLine
  <2>2. line.is \in EventKinds => LineIsWritten
    BY <1>11 DEF AppendLine, AppendEvent, LineIsWritten, Writes
  <2>3. line.is = "verdict" => /\ LineIsWritten /\ next_line - 1 \in DOMAIN stream
                               /\ stream[next_line - 1].is = "verdict"
    BY <2>2, EventInHand, LinesOfStream DEF EventKinds
  <2>4. ~ collected' => ~ Judged'
    <3> SUFFICES ASSUME ~ collected' PROVE ~ Judged'
      OBVIOUS
    <3>1. ~ Judged /\ line.is # "verdict"
      BY <2>1 DEF VerdictsAreOne, Reading
    <3>2. \A i \in ReadVerdicts' : i \in DOMAIN events
      <4> SUFFICES ASSUME NEW i \in ReadVerdicts', i \notin DOMAIN events PROVE FALSE
        OBVIOUS
      <4>1. EventIsAdded /\ ~ LineIsWritten
        BY <3>1, ReadVerdictsStay
      <4> QED BY <2>1, <4>1 DEF EventIsAdded, VerdictIsMadeUp
    <3> QED BY <3>1, <3>2, ReadVerdictsStay, JudgedIs
  <2>5. collected' => Passed(next_line)
    <3>1. CASE line.is = "verdict"
      BY <1>5, <2>3, <3>1
    <3>2. CASE collected
      <4>1. PICK i \in DOMAIN stream : i < next_line - 1 /\ stream[i].is = "verdict"
        BY <2>1, <3>2 DEF VerdictsAreOne, Reading
      <4>2. i < next_line
        BY <1>5, <4>1, LinesOfStream
      <4> QED BY <4>1, <4>2
    <3> QED BY <2>1, <3>1, <3>2
  <2>6. collected' => InLog'
    <3>1. CASE line.is = "verdict"
      <4>1. Len(events) + 1 \in DOMAIN events' \ DOMAIN events
        BY <2>3, <3>1, EventsStay, EventsInLogs DEF EventIsAdded
      <4>2. events'[Len(events) + 1].is = "verdict"
        BY <2>3, <3>1, <4>1, EventsStay
      <4> QED BY <4>1, <4>2
    <3>2. CASE collected
      BY <1>3, <3>2 DEF VerdictsAreOne
    <3> QED BY <2>1, <3>1, <3>2
  <2>7. Passed(next_line) => Passed(Bound)'
    BY <2>1
  <2> HIDE DEF Passed, InLog
  <2> QED BY <2>1, <2>4, <2>5, <2>6, <2>7
<1>12. CASE WritePosition \/ RenamePosition
  <2>1. /\ pc \in Recording /\ pc' \in Reading \ {"routed"} /\ UNCHANGED <<stream, next_line, collected, events>>
    BY <1>12 DEF WritePosition, RenamePosition, Recording, Reading
  <2>2. ~ EventIsAdded
    BY <1>5, <2>1
  <2>3. collected => Passed(Bound)'
    <3> SUFFICES ASSUME collected PROVE Passed(Bound)'
      OBVIOUS
    <3>1. PICK i \in DOMAIN stream : i < next_line /\ stream[i].is = "verdict"
      BY <2>1 DEF VerdictsAreOne, Reading, Recording
    <3> QED BY <2>1, <3>1
  <2> QED BY <1>2, <1>3, <2>1, <2>2, <2>3 DEF VerdictsAreOne, Reading, Recording
<1>13. CASE StreamEnds \/ StreamBreaks \/ Terminates \/ RoundIsGivenUp
  <2>1. /\ pc \in {"reading", "awaiting", "waitingOut"}
        /\ pc' \in {"awaiting", "settling", "gaveUp"}
        /\ UNCHANGED <<collected, events>>
        /\ pc' # "gaveUp" => pc # "waitingOut"
    BY <1>13 DEF StreamEnds, StreamBreaks, Terminates, RoundIsGivenUp
  <2>2. ~ EventIsAdded
    BY <1>5, <2>1
  <2> QED BY <1>2, <1>3, <2>1, <2>2 DEF VerdictsAreOne, Reading
<1>14. CASE Settle
  <2>1. pc' = "over" /\ UNCHANGED collected /\ pc = "settling"
    BY <1>14 DEF Settle
  <2>2. ~ collected => VerdictIsMadeUp
    BY <1>14 DEF Settle, AppendEvent, VerdictIsMadeUp, Writes
  <2>3. InLog'
    <3>1. CASE collected
      BY <1>3, <3>1 DEF VerdictsAreOne
    <3>2. CASE ~ collected
      <4>1. Len(events) + 1 \in DOMAIN events' \ DOMAIN events
        BY <2>2, <3>2, EventsStay, EventsInLogs DEF EventIsAdded
      <4>2. events'[Len(events) + 1].is = "verdict"
        BY <2>2, <3>2, <4>1, EventsStay
      <4> QED BY <4>1, <4>2
    <3> QED BY <3>1, <3>2
  <2> QED BY <2>1, <2>3 DEF Reading
<1>15. CASE WaitedOut \/ WriteFails \/ SettleFails \/ Restart
  <2>1. /\ pc' \in {"gaveUp", "waitingOut", "idle"}
        /\ collected' => collected
    BY <1>15 DEF WaitedOut, WriteFails, SettleFails, Restart
  <2> QED BY <1>3, <2>1 DEF VerdictsAreOne, Reading
<1> QED
  BY <1>8, <1>9, <1>10, <1>11, <1>12, <1>13, <1>14, <1>15, Zenon DEF Next, CollectorStep

LEMMA RoundGoesOn ==
  ASSUME TypeOK, [Next]_vars
  PROVE  /\ round = "ended" => round' = "ended" /\ UNCHANGED stream
         /\ broken => broken'
<1> USE DEF worldVars
<1>1. CASE RoundPrints \/ RoundExits
  BY <1>1 DEF RoundPrints, RoundExits
<1>2. CASE StreamBreaks \/ TakeLine \/ TakeCutFrame \/ StartCollecting
  BY <1>2 DEF StreamBreaks, TakeLine, TakeCutFrame, Take, StartCollecting
<1>3. CASE AppendLine \/ WritePosition \/ RenamePosition \/ WaitedOut
  BY <1>3 DEF AppendLine, WritePosition, RenamePosition, WaitedOut
<1>4. CASE CancelSeen \/ StreamEnds \/ Settle \/ WriteFails
  BY <1>4 DEF CancelSeen, StreamEnds, Settle, WriteFails
<1>5. CASE SettleFails \/ CancelFires \/ Restart \/ UNCHANGED vars
  BY <1>5 DEF SettleFails, CancelFires, Restart, vars
<1>6. CASE Terminates \/ RoundIsGivenUp
  BY <1>6 DEF Terminates, RoundIsGivenUp
<1> QED BY <1>1, <1>2, <1>3, <1>4, <1>5, <1>6, Zenon DEF Next, CollectorStep

LEMMA SettlingKept ==
  ASSUME TypeOK, MadeUpForCause, [Next]_vars, pc' \in {"awaiting", "settling"}
  PROVE  SettlesForCause'
<1> USE DEF worldVars, whereVars, SettlesForCause
<1>1. CASE StreamEnds
  BY <1>1 DEF StreamEnds
<1>2. CASE StreamBreaks \/ RoundIsGivenUp
  BY <1>2 DEF StreamBreaks, RoundIsGivenUp
<1>3. CASE pc \in {"awaiting", "settling"} /\ UNCHANGED next_line
  BY <1>3, RoundGoesOn DEF MadeUpForCause
<1>4. CASE RoundPrints \/ RoundExits \/ UNCHANGED vars
  BY <1>3, <1>4 DEF RoundPrints, RoundExits, vars
<1>5. CASE TakeLine \/ TakeCutFrame \/ StartCollecting
  BY <1>5 DEF TakeLine, TakeCutFrame, Take, StartCollecting
<1>6. CASE AppendLine \/ WritePosition \/ RenamePosition \/ WaitedOut
  BY <1>6 DEF AppendLine, WritePosition, RenamePosition, WaitedOut
<1>7. CASE CancelSeen \/ Settle \/ WriteFails
  BY <1>7 DEF CancelSeen, Settle, WriteFails
<1>8. CASE SettleFails \/ CancelFires \/ Restart \/ Terminates
  BY <1>3, <1>8 DEF SettleFails, CancelFires, Restart, Terminates
<1> QED BY <1>1, <1>2, <1>4, <1>5, <1>6, <1>7, <1>8, Zenon DEF Next, CollectorStep

\* Why one may be made up for a verdict the round said.
OwnIsGone ==
  \/ broken \/ cut # {}
  \/ \E k \in DOMAIN events : events[k].is = "verdict" /\ ~ events[k].read /\ events[k].line # 0

LEMMA OwnIsGoneAtTheEnd ==
  ASSUME TypeOK, LineInHand, PassedAreLogged, EntriesAreLines, VerdictsAreOne, MadeUpForCause,
         pc = "settling", ~ collected, RoundSaysVerdict
  PROVE  OwnIsGone
<1> SUFFICES ASSUME ~ broken, cut = {} PROVE OwnIsGone
  BY DEF OwnIsGone
<1>1. PICK n \in DOMAIN stream : stream[n].is = "verdict"
  BY DEF RoundSaysVerdict
<1>2. next_line > Len(stream) /\ InHand = {} /\ next_line \in Nat
  BY TypesInParts DEF MadeUpForCause, SettlesForCause, InHand, PlaceTypes
<1>3. n \in Logged
  BY <1>1, <1>2, LinesOfStream DEF PassedAreLogged
<1>4. \A i \in DOMAIN output : output[i].line # n
  <2> SUFFICES ASSUME NEW i \in DOMAIN output, output[i].line = n PROVE FALSE
    OBVIOUS
  <2>1. output[i].is = "verdict"
    BY <1>1 DEF EntriesAreLines
  <2> QED BY <2>1, EventsInLogs
<1>5. PICK k \in DOMAIN events : events[k].line = n /\ n # 0
  BY <1>3, <1>4, LoggedIs
<1>6. events[k].is = "verdict"
  BY <1>1, <1>5, FromStreamIs DEF EntriesAreLines
<1>7. ~ events[k].read
  BY <1>6, JudgedIs DEF VerdictsAreOne, Reading
<1> QED BY <1>5, <1>6, <1>7 DEF OwnIsGone

LEMMA OwnIsGoneStays ==
  ASSUME TypeOK, LineInHand, [Next]_vars, OwnIsGone PROVE OwnIsGone'
BY RoundGoesOn, StreamStays, EventsStay DEF OwnIsGone

LEMMA CausesKept ==
  ASSUME TypeOK, LineInHand, PassedAreLogged, EntriesAreLines, VerdictsAreOne, MadeUpForCause,
         [Next]_vars
  PROVE  MadeUpForCause'
<1>1. ASSUME NEW i \in DOMAIN events', events'[i].line = 0
      PROVE  round' = "ended" \/ broken'
  <2>1. CASE i \in DOMAIN events
    BY <1>1, <2>1, EventsStay, RoundGoesOn DEF MadeUpForCause
  <2>2. CASE i \notin DOMAIN events
    <3>1. EventIsAdded /\ (LineIsWritten => next_line - 1 = 0)
      BY <1>1, <2>2, EventsStay
    <3>2. VerdictIsMadeUp
      BY <3>1, EventInHand DEF EventIsAdded
    <3> QED BY <3>2, RoundGoesOn DEF VerdictIsMadeUp, MadeUpForCause, SettlesForCause
  <2> QED BY <2>1, <2>2
<1>2. pc' \in {"awaiting", "settling"} => SettlesForCause'
  BY SettlingKept
<1>3. ASSUME NEW i \in ReadVerdicts', events'[i].line = 0, RoundSaysVerdict'
      PROVE  OwnIsGone'
  <2>1. i \in DOMAIN events' /\ events'[i].is = "verdict" /\ events'[i].read
    BY <1>3, JudgedIs
  <2>2. CASE StreamGrows
    <3>1. round = "running" /\ UNCHANGED <<broken, events>>
      BY <2>2 DEF StreamGrows, RoundPrints, diskVars, eventsVars
    <3>2. broken
      BY <1>3, <2>1, <3>1 DEF MadeUpForCause
    <3> QED BY <3>1, <3>2 DEF OwnIsGone
  <2>3. CASE ~ StreamGrows
    <3>1. RoundSaysVerdict
      BY <1>3, <2>3, StreamStays DEF RoundSaysVerdict
    <3>2. CASE i \in DOMAIN events
      <4>1. i \in ReadVerdicts /\ events[i].line = 0
        BY <1>3, <2>1, <3>2, EventsStay, JudgedIs
      <4>2. OwnIsGone
        BY <3>1, <4>1 DEF MadeUpForCause, OwnIsGone
      <4> QED BY <4>2, OwnIsGoneStays
    <3>3. CASE i \notin DOMAIN events
      <4>1. EventIsAdded /\ (LineIsWritten => next_line - 1 = 0)
        BY <1>3, <2>1, <3>3, EventsStay
      <4>2. VerdictIsMadeUp
        BY <4>1, EventInHand DEF EventIsAdded
      <4>3. OwnIsGone
        BY <3>1, <4>2, OwnIsGoneAtTheEnd DEF VerdictIsMadeUp
      <4> QED BY <4>3, OwnIsGoneStays
    <3> QED BY <3>2, <3>3
  <2> QED BY <2>2, <2>3
<1> QED BY <1>1, <1>2, <1>3 DEF MadeUpForCause, SettlesForCause, OwnIsGone

-----------------------------------------------------------------------------
(* The invariant, and what it implies.                                     *)

LEMMA InvAtStart == Init => CollectorInv
<1> SUFFICES ASSUME Init PROVE CollectorInv
  OBVIOUS
<1> USE DEF Init
<1>1. /\ DOMAIN stream = {} /\ DOMAIN events = {} /\ DOMAIN output = {} /\ Frames = {}
      /\ Len(stream) = 0 /\ Len(events) = 0
  BY DEF Frames
<1>2. WorldTypes /\ LogTypes /\ FlagTypes
  <2>1. <<>> \in Seq(Lines) /\ <<>> \in EventLog /\ <<>> \in OutputLog
    BY EmptySeq DEF EventLog, OutputLog
  <2>2. WorldTypes
    BY <1>1, <2>1 DEF WorldTypes
  <2>3. LogTypes
    BY <2>1 DEF LogTypes
  <2>4. FlagTypes
    BY DEF FlagTypes
  <2> QED BY <2>2, <2>3, <2>4
<1>3. PlaceTypes
  BY DEF PlaceTypes, Pc, Lines, NoLine
<1>4. TypeOK
  BY <1>2, <1>3, TypesInParts
<1>5. StreamIsNumbered /\ LineInHand /\ ReplayIsBehind
  BY <1>1 DEF StreamIsNumbered, LineInHand, ReplayIsBehind, Holding, Recording
<1>6. PassedAreLogged /\ BookmarkIsLogged /\ PassedAreRecorded
  BY <1>1 DEF PassedAreLogged, BookmarkIsLogged, PassedAreRecorded
<1>7. EntriesAreLines /\ TextIsNext /\ RoutedComeNext /\ EventsAreInOrder
  BY <1>1 DEF EntriesAreLines, TextIsNext, RoutedComeNext, EventsAreInOrder, FromStream
<1>8. LossesAreInterruptions
  <2>1. Lost = {}
    BY <1>1, LostIs
  <2> QED BY <2>1, FS_EmptySet DEF LossesAreInterruptions, Owed
<1>9. RepeatsAreInterruptions
  <2>1. FramesIn(events) = {} /\ FramesIn(output) = {}
    BY <1>1, FramesInIs
  <2>2. FrameLines = {}
    BY <2>1, FrameLinesAre
  <2>3. Repeatable = {}
    BY <2>2 DEF Repeatable
  <2> QED BY <2>1, <2>2, <2>3, FS_EmptySet DEF RepeatsAreInterruptions, Recording
<1>10. VerdictsAreOne /\ MadeUpForCause
  <2>1. ReadVerdicts = {} /\ ~ Judged
    BY <1>1, JudgedIs
  <2> QED BY <1>1, <2>1 DEF VerdictsAreOne, MadeUpForCause, Reading
<1> QED BY <1>4, <1>5, <1>6, <1>7, <1>8, <1>9, <1>10 DEF CollectorInv

LEMMA InvKept == CollectorInv /\ [Next]_vars => CollectorInv'
<1> SUFFICES ASSUME CollectorInv, [Next]_vars PROVE CollectorInv'
  OBVIOUS
<1>1. TypeOK' /\ StreamIsNumbered' /\ LineInHand' /\ ReplayIsBehind'
  BY TypesKept, NumbersKept, LineKept, ReplayKept DEF CollectorInv
<1>2. PassedAreLogged' /\ BookmarkIsLogged' /\ PassedAreRecorded'
  BY PassedKept, BookmarkKept, RecordedKept DEF CollectorInv
<1>3. EntriesAreLines' /\ TextIsNext' /\ RoutedComeNext' /\ EventsAreInOrder'
  BY EntriesKept, TextKept, RoutedKept, OrderKept DEF CollectorInv
<1>4. LossesAreInterruptions' /\ RepeatsAreInterruptions'
  BY LossesKept, RepeatsKept DEF CollectorInv
<1>5. VerdictsAreOne' /\ MadeUpForCause'
  BY VerdictsKept, CausesKept DEF CollectorInv
<1> QED BY <1>1, <1>2, <1>3, <1>4, <1>5 DEF CollectorInv

LEMMA Invariant == Spec => []CollectorInv
BY InvAtStart, InvKept, PTL DEF Spec

\* A line that is due and cannot be read is one that is lost.
LEMMA NoLineIsDropped == CollectorInv => EveryLinePassedIsInALog
<1> SUFFICES ASSUME CollectorInv PROVE EveryLinePassedIsInALog
  OBVIOUS
<1> DEFINE due == {n \in ((1 .. next_line - 1) \ InHand) \ cut : cut = {} \/ IsFrame(stream[n])}
<1>1. next_line \in Nat /\ next_line <= Len(stream) + 1 /\ TypeOK /\ Len(stream) \in Nat
  BY TypesInParts, LinesOfStream DEF CollectorInv, PlaceTypes, LineInHand
<1>2. due \subseteq Logged
  <2> SUFFICES ASSUME NEW n \in due PROVE n \in Logged
    OBVIOUS
  <2>1. n \in DOMAIN stream
    BY <1>1, LinesOfStream
  <2>2. cut = {} \/ n \in Frames
    BY <2>1 DEF Frames
  <2> QED BY <2>2 DEF CollectorInv, PassedAreLogged
<1>3. due \ Readable \subseteq Lost
  <2> SUFFICES ASSUME NEW n \in due, n \notin Readable PROVE n \in Lost
    OBVIOUS
  <2>1. PICK i \in DOMAIN events : events[i].line = n /\ n # 0
    BY <1>2, LoggedIs
  <2>2. ~ events[i].read
    BY <2>1, LoggedIs
  <2> QED BY <2>1, <2>2, LostIs
<1>4. Cardinality(due \ Readable) <= interruptions
  <2>1. IsFiniteSet(Lost) /\ Cardinality(Lost) \in Nat
    BY <1>1, LostIsFinite
  <2>2. IsFiniteSet(due \ Readable) /\ Cardinality(due \ Readable) <= Cardinality(Lost)
    BY <1>3, <2>1, FS_Subset
  <2>3. Cardinality(due \ Readable) \in Nat /\ interruptions \in Nat
    BY <1>1, <2>2, TypesInParts, FS_CardinalityType DEF PlaceTypes
  <2>4. Cardinality(Lost) + Owed <= interruptions /\ Owed \in Nat
    BY DEF CollectorInv, LossesAreInterruptions, Owed
  <2> QED BY <2>1, <2>2, <2>3, <2>4
<1> QED BY <1>2, <1>4 DEF EveryLinePassedIsInALog

LEMMA OneFrameIsRepeated == CollectorInv => RestartRepeatsOneFrame
<1> SUFFICES ASSUME CollectorInv PROVE RestartRepeatsOneFrame
  OBVIOUS
<1> DEFINE EO == Cardinality(FramesIn(events)) + Cardinality(FramesIn(output))
           R == Cardinality(Repeatable)
           L == Cardinality(FrameLines)
           B == IF pc \in Recording THEN 1 ELSE 0
<1>1. /\ EO \in Nat /\ R \in Nat /\ L \in Nat /\ interruptions \in Nat
      /\ IsFiniteSet(Repeatable) /\ TypeOK
  BY FrameLinesAreFrames, TypesInParts DEF CollectorInv, PlaceTypes
<1>2. EO + R <= L + interruptions + B
  BY DEF CollectorInv, RepeatsAreInterruptions
<1>3. B <= R
  <2>1. CASE pc \in Recording
    <3>1. IsFrame(line) /\ pc \in Holding
      BY <2>1 DEF CollectorInv, LineInHand, Recording, Holding
    <3>2. stream[next_line - 1].seq > position
      BY <1>1, <3>1, FrameInHand DEF CollectorInv
    <3>3. next_line - 1 \in Repeatable
      BY <2>1, <3>2 DEF CollectorInv, RepeatsAreInterruptions, Repeatable
    <3>4. R # 0
      BY <1>1, <3>3, FS_EmptySet
    <3> QED BY <1>1, <3>4
  <2>2. CASE pc \notin Recording
    BY <1>1, <2>2
  <2> QED BY <2>1, <2>2
<1>4. EO <= L + interruptions
  BY <1>1, <1>2, <1>3
<1> QED BY <1>4 DEF RestartRepeatsOneFrame, FrameLines

LEMMA VerdictIsSettled == CollectorInv => VerdictIsTheRounds
<1> SUFFICES ASSUME CollectorInv PROVE VerdictIsTheRounds
  OBVIOUS
<1> DEFINE verdicts == {i \in DOMAIN events : events[i].is = "verdict"}
           torn == {i \in verdicts : ~ events[i].read}
<1>1. verdicts \ torn = ReadVerdicts
  BY DEF ReadVerdicts
<1>2. Cardinality(ReadVerdicts) <= 1
  <2>1. CASE ReadVerdicts = {}
    BY <2>1, FS_EmptySet
  <2>2. CASE ReadVerdicts # {}
    <3>1. PICK i : i \in ReadVerdicts
      BY <2>2
    <3>2. ReadVerdicts = {i}
      BY <3>1 DEF CollectorInv, VerdictsAreOne
    <3>3. Cardinality(ReadVerdicts) = 1
      BY <3>2, FS_Singleton
    <3> QED BY <3>3
  <2> QED BY <2>1, <2>2
<1>3. \A i \in ReadVerdicts :
        events[i].line = 0 /\ RoundSaysVerdict =>
          broken \/ cut # {} \/ \E k \in torn : events[k].line # 0
  BY DEF CollectorInv, MadeUpForCause
<1>4. pc = "over" => verdicts # {}
  BY DEF CollectorInv, VerdictsAreOne
<1> QED BY <1>1, <1>2, <1>3, <1>4 DEF VerdictIsTheRounds

-----------------------------------------------------------------------------

\* The collector's state stays of its types: the position file names a frame
\* of the stream, and the bookmark beside it one too (collect.rs, frame.rs).
THEOREM CollectorTypes == Spec => []TypeOK
BY Invariant, PTL DEF CollectorInv

\* collect and resume drop no line: one the collector is past, or takes for
\* collected by a bookmark, is in a log, and can be read there but for one for
\* each kill or failed write.
THEOREM CollectorDropsNoLine == Spec => []EveryLinePassedIsInALog
BY Invariant, NoLineIsDropped, PTL

\* append_event tells the round's events in the order it had them, whenever
\* the collector is killed and its stream replayed.
THEOREM CollectorKeepsOrder == Spec => []EventsAreInOrder
BY Invariant, PTL DEF CollectorInv

\* A crash between routing a frame and record_position repeats that one.
THEOREM CollectorRepeatsOneFrame == Spec => []RestartRepeatsOneFrame
BY Invariant, OneFrameIsRepeated, PTL

\* One verdict is read in the log, made up for only when the round's own is
\* cut off or torn: verdict_missing_from asks what was collected, not the log.
THEOREM CollectorSettlesOnce == Spec => []VerdictIsTheRounds
BY Invariant, VerdictIsSettled, PTL
=============================================================================
