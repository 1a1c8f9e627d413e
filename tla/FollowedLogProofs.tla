------------------------- MODULE FollowedLogProofs -------------------------
(***************************************************************************)
(* What following a round's log on Kubernetes promises, for any number of  *)
(* lines, instants to a second, reconnects and restarts.                   *)
(*                                                                         *)
(* The inductive invariant is FollowInv.  Its heart is ReadSoFar: what was *)
(* handed on is the log's first lines, and a position is the instant of    *)
(* the last of them with the count of those that have it; so that the      *)
(* lines of a later connection can be told apart by counting again.        *)
(***************************************************************************)
EXTENDS FollowedLog, FiniteSetTheorems, SequenceTheorems, TLAPS

\* TypeOK in parts.
ClusterTypes ==
  /\ objects \subseteq {"Job", "Secret"}
  /\ pod \in {"none", "waiting", "running", "finished", "gone"} /\ ending \in {"exit", "reason"}
  /\ log \in Seq(Instant) /\ Len(log) <= MaxLines

PositionTypes ==
  /\ position \in Position
  /\ shown \in 0 .. Len(log) /\ handed \in Seq(1 .. MaxLines)

CountTypes ==
  /\ fruitless_reconnects \in 0 .. ReconnectsAllowed
  /\ barren \in 0 .. ReconnectsAllowed
  /\ restarts \in 0 .. MaxRestarts

FlagTypes ==
  /\ abandoned \in BOOLEAN /\ cancelled \in BOOLEAN
  /\ brought \in BOOLEAN /\ missed \in BOOLEAN

PlaceTypes ==
  /\ pc \in Launching \cup Collecting \cup Over \cup {"cleaning", "down", "waitingAgain"}
  /\ termination \in {"none", "exited", "killed"}

LEMMA TypesInParts ==
  /\ TypeOK <=> ClusterTypes /\ PositionTypes /\ CountTypes /\ FlagTypes /\ PlaceTypes
  /\ TypeOK' <=> ClusterTypes' /\ PositionTypes' /\ CountTypes' /\ FlagTypes' /\ PlaceTypes'
BY Zenon DEF TypeOK, ClusterTypes, PositionTypes, CountTypes, FlagTypes, PlaceTypes

\* The first of the lines handed on that have the position's instant.
FirstOfInstant == Len(handed) - position.lines + 1

\* The kubelet stamps lines in their order.
LogIsSorted == \A i, k \in DOMAIN log : i <= k => log[i] <= log[k]

ReadSoFar ==
  /\ \A i \in DOMAIN handed : handed[i] = i
  /\ Len(handed) <= Len(log) /\ shown <= Len(handed)
  /\ IF Len(handed) = 0 THEN position.stamp = 0 /\ position.lines = 0
     ELSE /\ position.stamp = log[Len(handed)]
          /\ position.lines \in 1 .. Len(handed)
          /\ \A i \in 1 .. Len(handed) :
               /\ i < FirstOfInstant => log[i] < position.stamp
               /\ i >= FirstOfInstant => log[i] = position.stamp

\* A connection that is read has counted the lines it has shown again.
CountedAgain ==
  pc \in {"following", "draining"} =>
    position.shown_at_that_stamp =
      IF shown < FirstOfInstant THEN 0 ELSE shown - FirstOfInstant + 1

\* Where a collection is says what has come of the pod, and a stream that has
\* ended why it did.
EndsAreThePods ==
  /\ pod \in {"none", "waiting"} => log = <<>>
  /\ pc \in Collecting => pod \in {"running", "finished", "gone"}
  /\ pc = "draining" => pod \in {"finished", "gone"}
  /\ termination # "none" => pc = "over"
  /\ pc = "ended" =>
       \/ abandoned \/ pod = "gone"
       \/ pod = "finished" /\ (missed \/ Len(handed) = Len(log))

\* Reconnects are counted as fruitless that were.
CountedIsBarren ==
  /\ pc \in {"following", "cut"} =>
       fruitless_reconnects <= (IF brought THEN 0 ELSE barren + 1)
  /\ pc = "dropped" => fruitless_reconnects <= barren

FollowInv ==
  TypeOK /\ LogIsSorted /\ ReadSoFar /\ CountedAgain /\ EndsAreThePods /\ CountedIsBarren

USE RoundBoundsAssumption, FollowedLogAssumption

-----------------------------------------------------------------------------
(* LogReadPosition.                                                        *)

\* Seconds pass no faster than instants.
LEMMA SecondsAreInOrder ==
  ASSUME NEW a \in Nat, NEW b \in Nat, Second(a) < Second(b)
  PROVE  a < b
<1> DEFINE qa == a \div PerSecond
           qb == b \div PerSecond
<1>1. /\ qa \in Nat /\ qb \in Nat
      /\ a < PerSecond * qa + PerSecond /\ PerSecond * qb <= b
  BY SMT
<1>2. PerSecond * (qa + 1) <= PerSecond * qb
  BY <1>1 DEF Second
<1>3. PerSecond * (qa + 1) = PerSecond * qa + PerSecond
  BY <1>1
<1> QED BY <1>1, <1>2, <1>3

\* A new connection skips no more than what is known by its instant.
LEMMA ConnectionsRepeat ==
  ASSUME LogIsSorted, log \in Seq(Instant), NEW p, p.stamp \in Nat,
         NEW n \in Nat, \A i \in DOMAIN log : log[i] < p.stamp => i <= n
  PROVE  PastLinesBefore(p) \in Nat /\ PastLinesBefore(p) <= n /\ PastLinesBefore(p) <= Len(log)
<1> DEFINE before == {i \in DOMAIN log : Second(log[i]) < Second(p.stamp)}
<1>1. before \subseteq 1 .. n /\ before \subseteq 1 .. Len(log)
  <2> SUFFICES ASSUME NEW i \in before PROVE i \in 1 .. n /\ i \in 1 .. Len(log)
    OBVIOUS
  <2>1. log[i] \in Nat
    BY DEF Instant
  <2> QED BY <2>1, SecondsAreInOrder
<1>2. \A m \in Nat : IsFiniteSet(1 .. m) /\ Cardinality(1 .. m) = m
  <2> TAKE m \in Nat
  <2>1. 1 \in Int /\ m \in Int
    OBVIOUS
  <2>2. /\ IsFiniteSet(1 .. m)
        /\ Cardinality(1 .. m) = IF 1 > m THEN 0 ELSE m - 1 + 1
    BY <2>1, FS_Interval, Zenon
  <2> QED BY <2>2
<1>3. IsFiniteSet(before) /\ Cardinality(before) <= n /\ Cardinality(before) <= Len(log)
  <2>1. Len(log) \in Nat
    OBVIOUS
  <2> QED BY <1>1, <1>2, <2>1, FS_Subset
<1>4. Cardinality(before) \in Nat
  BY <1>3, FS_CardinalityType
<1> QED BY <1>3, <1>4 DEF PastLinesBefore

-----------------------------------------------------------------------------
(* The steps.                                                              *)

\* Where the daemon starts, or, for a round that is elsewhere, has nothing.
LEMMA FollowInit ==
  ASSUME NEW place \in {"creatingJob", "over"}, InitAt(place)
  PROVE  FollowInv
<1>1. TypeOK
  <2>1. ClusterTypes
    BY DEF InitAt, ClusterTypes
  <2>2. PositionTypes
    BY DEF InitAt, PositionTypes, Position, NothingRead
  <2>3. CountTypes /\ PlaceTypes
    BY DEF InitAt, CountTypes, PlaceTypes, Launching, Over
  <2>4. FlagTypes
    BY Zenon DEF InitAt, FlagTypes
  <2> QED BY <2>1, <2>2, <2>3, <2>4, TypesInParts
<1>2. LogIsSorted /\ ReadSoFar
  BY DEF InitAt, LogIsSorted, ReadSoFar, NothingRead
<1>3. CountedAgain /\ EndsAreThePods /\ CountedIsBarren
  BY DEF InitAt, CountedAgain, EndsAreThePods, CountedIsBarren, Collecting
<1> QED BY <1>1, <1>2, <1>3 DEF FollowInv

\* A line that is printed comes after those that were read.
LEMMA PrintingKeeps ==
  ASSUME FollowInv, PodPrints, UNCHANGED <<reading, pc, cancelled, termination, restarts>>
  PROVE  FollowInv'
<1> USE DEF FollowInv
<1>1. PICK stamp \in Instant :
        (\A i \in DOMAIN log : log[i] <= stamp) /\ log' = Append(log, stamp)
  BY DEF PodPrints
<1>2. /\ log \in Seq(Instant) /\ Len(log') = Len(log) + 1
      /\ \A i \in 1 .. Len(log) : log'[i] = log[i]
      /\ log'[Len(log) + 1] = stamp
      /\ log' \in Seq(Instant)
  BY <1>1 DEF TypeOK
<1>3. TypeOK'
  BY <1>2 DEF TypeOK, PodPrints, reading
<1>4. LogIsSorted'
  BY <1>1, <1>2 DEF LogIsSorted, Instant
<1>5. ReadSoFar'
  <2>1. UNCHANGED <<handed, shown, position>> /\ FirstOfInstant' = FirstOfInstant
    BY DEF reading, FirstOfInstant
  <2>2. Len(handed) \in Nat /\ Len(log) \in Nat /\ Len(handed) <= Len(log)
    BY DEF TypeOK, ReadSoFar
  <2> QED BY <1>2, <2>1, <2>2 DEF ReadSoFar
<1>6. CountedAgain' /\ CountedIsBarren'
  BY DEF CountedAgain, CountedIsBarren, FirstOfInstant, reading
<1>7. EndsAreThePods'
  BY DEF EndsAreThePods, PodPrints, reading
<1> QED BY <1>3, <1>4, <1>5, <1>6, <1>7

\* Steps of the cluster, and of the daemon, that leave what was read alone.
LEMMA ReadingIsKept ==
  ASSUME FollowInv, UNCHANGED <<log, position, shown, handed>>,
         pc' \in {"following", "draining"} => pc' = pc
  PROVE  LogIsSorted' /\ ReadSoFar' /\ CountedAgain'
BY DEF FollowInv, LogIsSorted, ReadSoFar, CountedAgain, FirstOfInstant

LEMMA ClusterKeeps ==
  ASSUME FollowInv, ClusterStep
  PROVE  FollowInv'
<1>1. CASE PodPrints
  BY <1>1, PrintingKeeps DEF ClusterStep
<1>2. CASE PodCreated \/ PodStarts \/ PodFinishes \/ PodDeleted \/ Expires
  <2> USE <1>2 DEF ClusterStep, PodCreated, PodStarts, PodFinishes, PodDeleted, Expires
  <2>1. TypeOK'
    <3>1. ClusterTypes'
      BY TypesInParts DEF FollowInv, ClusterTypes
    <3>2. PositionTypes' /\ CountTypes' /\ PlaceTypes'
      BY TypesInParts DEF FollowInv, PositionTypes, CountTypes, PlaceTypes, reading
    <3>3. FlagTypes'
      BY TypesInParts DEF FollowInv, FlagTypes, reading
    <3> QED BY <3>1, <3>2, <3>3, TypesInParts
  <2>2. LogIsSorted' /\ ReadSoFar' /\ CountedAgain'
    BY ReadingIsKept DEF reading
  <2>3. EndsAreThePods'
    BY DEF FollowInv, EndsAreThePods, reading, Collecting
  <2>4. CountedIsBarren'
    BY DEF FollowInv, CountedIsBarren, reading
  <2> QED BY <2>1, <2>2, <2>3, <2>4 DEF FollowInv
<1> QED BY <1>1, <1>2 DEF ClusterStep

\* A connection from the beginning has read nothing.
LEMMA StartingKeeps ==
  ASSUME FollowInv, StartFollowing, pod \in {"running", "finished"}, termination = "none",
         UNCHANGED <<cluster, cancelled, termination, restarts>>
  PROVE  FollowInv'
<1> USE DEF FollowInv, StartFollowing, Connect, cluster
<1>1. shown' = 0
  <2>1. NothingRead.stamp = 0 /\ \A i \in DOMAIN log : log[i] < 0 => i <= 0
    BY DEF NothingRead, TypeOK, Instant
  <2>2. PastLinesBefore(NothingRead) <= 0 /\ PastLinesBefore(NothingRead) \in Nat
    BY <2>1, ConnectionsRepeat DEF TypeOK
  <2> QED BY <2>2
<1>2. position' = [stamp |-> 0, lines |-> 0, shown_at_that_stamp |-> 0]
  BY DEF Resumed, NothingRead
<1>3. handed' = <<>> /\ Len(handed') = 0
  OBVIOUS
<1>4. TypeOK'
  <2>1. ClusterTypes'
    BY TypesInParts DEF ClusterTypes
  <2>2. PositionTypes'
    BY <1>1, <1>2, <1>3, TypesInParts DEF PositionTypes, ClusterTypes, Position
  <2>3. CountTypes' /\ PlaceTypes'
    BY TypesInParts DEF CountTypes, PlaceTypes, Collecting
  <2>4. FlagTypes'
    BY TypesInParts DEF FlagTypes
  <2> QED BY <2>1, <2>2, <2>3, <2>4, TypesInParts
<1>5. LogIsSorted' /\ ReadSoFar'
  BY <1>1, <1>2, <1>3 DEF LogIsSorted, ReadSoFar, TypeOK
<1>6. CountedAgain'
  BY <1>1, <1>2, <1>3 DEF CountedAgain, FirstOfInstant
<1>7. EndsAreThePods' /\ CountedIsBarren'
  BY DEF EndsAreThePods, CountedIsBarren, Collecting
<1> QED BY <1>4, <1>5, <1>6, <1>7

\* The next line of the log is new exactly when it is past those handed on.
LEMMA LinesAreTold ==
  ASSUME FollowInv, pc \in {"following", "draining"}, TakeLine, UNCHANGED log
  PROVE  /\ ReadSoFar' /\ PositionTypes'
         /\ position'.shown_at_that_stamp =
              IF shown' < FirstOfInstant' THEN 0 ELSE shown' - FirstOfInstant' + 1
         /\ \/ /\ handed' = handed
               /\ UNCHANGED <<fruitless_reconnects, brought>>
            \/ /\ shown = Len(handed) /\ Len(handed) < Len(log)
               /\ handed' = Append(handed, Len(handed) + 1)
               /\ fruitless_reconnects' = 0 /\ brought'
<1> DEFINE n == Len(handed)
           size == Len(log)
           at == position.stamp
           lines == position.lines
           again == position.shown_at_that_stamp
           first == n - lines + 1
           stamp == log[shown + 1]
<1> USE DEF FollowInv
<1>1. /\ log \in Seq(Instant) /\ size \in Nat /\ size <= MaxLines
      /\ handed \in Seq(1 .. MaxLines) /\ n \in Nat /\ n <= size
      /\ shown \in Nat /\ shown <= n /\ shown < size
  BY TypesInParts DEF ClusterTypes, PositionTypes, ReadSoFar, TakeLine
<1>2. /\ at \in 0 .. MaxInstant /\ lines \in 0 .. MaxLines
      /\ position = [stamp |-> at, lines |-> lines, shown_at_that_stamp |-> again]
  BY TypesInParts DEF PositionTypes, Position
<1>3. \A i \in 1 .. size : log[i] \in 1 .. MaxInstant
  BY <1>1 DEF Instant
<1>4. stamp \in 1 .. MaxInstant
  BY <1>1, <1>3
<1>5. /\ FirstOfInstant = first
      /\ again = IF shown < first THEN 0 ELSE shown - first + 1
  BY DEF CountedAgain, FirstOfInstant
<1>6. /\ n = 0 => at = 0 /\ lines = 0
      /\ n > 0 => /\ lines \in 1 .. n /\ at = log[n]
                  /\ \A i \in 1 .. n : (i < first => log[i] < at) /\ (i >= first => log[i] = at)
  BY <1>1, <1>5 DEF ReadSoFar
<1>7. \A i \in 1 .. n : handed[i] = i
  BY <1>1 DEF ReadSoFar
<1>8. \A i, k \in 1 .. size : i <= k => log[i] <= log[k]
  BY <1>1 DEF LogIsSorted
<1>9. first \in Nat /\ first >= 1 /\ first <= n + 1
  BY <1>1, <1>2, <1>6
<1> DEFINE after == AfterLine(position, stamp)
<1>10. /\ shown' = shown + 1
       /\ position' = after.position
       /\ handed' = IF after.unread THEN Append(handed, shown + 1) ELSE handed
       /\ fruitless_reconnects' = IF after.unread THEN 0 ELSE fruitless_reconnects
       /\ brought' = (brought \/ after.unread)
  BY DEF TakeLine, FruitlessAfter
<1>11. /\ stamp < at => after = [position |-> position, unread |-> FALSE]
       /\ stamp = at =>
            after = [position |-> [stamp |-> stamp,
                                   lines |-> IF again + 1 > lines THEN again + 1 ELSE lines,
                                   shown_at_that_stamp |-> again + 1],
                     unread |-> again + 1 > lines]
       /\ stamp > at =>
            after = [position |-> [stamp |-> stamp, lines |-> 1, shown_at_that_stamp |-> 1],
                     unread |-> TRUE]
  BY <1>2, <1>4 DEF AfterLine
<1> HIDE DEF n, size, at, lines, again, first, stamp, after
\* One shown before, and of an instant that is past.
<1>12. CASE shown + 1 < first
  <2>1. stamp < at
    BY <1>12, <1>1, <1>6, <1>9 DEF stamp
  <2>2. UNCHANGED <<position, handed, fruitless_reconnects>>
    BY <2>1, <1>10, <1>11
  <2>3. UNCHANGED brought
    BY <2>1, <1>10, <1>11, TypesInParts DEF FlagTypes
  <2>4. FirstOfInstant' = first /\ shown' < first
    BY <2>2, <1>1, <1>5, <1>9, <1>10, <1>12 DEF FirstOfInstant
  <2>5. ReadSoFar'
    BY <2>2, <1>1, <1>9, <1>10, <1>12 DEF ReadSoFar, FirstOfInstant, n
  <2>6. PositionTypes'
    BY <2>2, <1>1, <1>10, TypesInParts DEF PositionTypes, size
  <2> QED BY <2>2, <2>3, <2>4, <2>5, <2>6, <1>5, <1>1, <1>12, <1>9 DEF again
\* One shown before, of the instant that the position is at.
<1>13. CASE shown + 1 >= first /\ shown < n
  <2>1. stamp = at
    BY <1>13, <1>1, <1>6, <1>9 DEF stamp
  <2>2. again + 1 = shown + 1 - first + 1 /\ again + 1 <= lines /\ again \in Nat
    BY <1>1, <1>2, <1>5, <1>9, <1>13 DEF first
  <2>3. after = [position |-> [stamp |-> stamp, lines |-> lines,
                               shown_at_that_stamp |-> again + 1],
                 unread |-> FALSE]
    <3>1. (IF again + 1 > lines THEN again + 1 ELSE lines) = lines
      BY <2>2, <1>2
    <3>2. (again + 1 > lines) = FALSE
      BY <2>2, <1>2
    <3> QED BY <2>1, <3>1, <3>2, <1>11, Zenon
  <2>4. UNCHANGED <<handed, fruitless_reconnects>>
    BY <2>3, <1>10
  <2>5. UNCHANGED brought
    BY <2>3, <1>10, TypesInParts DEF FlagTypes
  <2>6. position' = [stamp |-> at, lines |-> lines, shown_at_that_stamp |-> again + 1]
    BY <2>1, <2>3, <1>10
  <2>7. FirstOfInstant' = first /\ shown' >= first
    BY <2>4, <2>6, <1>1, <1>9, <1>10, <1>13 DEF FirstOfInstant, first, n
  <2>8. ReadSoFar'
    BY <2>4, <2>6, <2>7, <1>1, <1>5, <1>10, <1>13 DEF ReadSoFar, at, lines, n
  <2>9. PositionTypes'
    BY <2>2, <2>4, <2>6, <1>1, <1>2, <1>10, <1>13 DEF PositionTypes, Position, size, n
  <2> QED BY <2>2, <2>4, <2>5, <2>6, <2>7, <2>8, <2>9, <1>1, <1>9, <1>10
\* One that is new.
<1>14. CASE shown = n
  <2>1. stamp >= at
    <3>1. CASE n = 0
      BY <3>1, <1>4, <1>6
    <3>2. CASE n > 0
      BY <3>2, <1>1, <1>6, <1>8, <1>14 DEF stamp
    <3> QED BY <3>1, <3>2, <1>1
  <2> DEFINE now == IF stamp = at THEN lines + 1 ELSE 1
  <2>2. after = [position |-> [stamp |-> stamp, lines |-> now, shown_at_that_stamp |-> now],
                 unread |-> TRUE]
    <3>1. CASE stamp = at
      <4>1. n > 0 /\ again = lines
        BY <3>1, <1>1, <1>2, <1>4, <1>5, <1>6, <1>9, <1>14 DEF first
      <4>2. (IF again + 1 > lines THEN again + 1 ELSE lines) = lines + 1 /\ again + 1 = lines + 1
        BY <4>1, <1>2
      <4>3. (again + 1 > lines) = TRUE
        BY <4>1, <1>2
      <4>4. now = lines + 1
        BY <3>1
      <4> HIDE DEF now
      <4> QED BY <3>1, <4>2, <4>3, <4>4, <1>11, Zenon
    <3>2. CASE stamp > at
      BY <3>2, <1>2, <1>4, <1>11
    <3> QED BY <3>1, <3>2, <2>1, <1>2, <1>4
  <2>3. now \in 1 .. n + 1 /\ now <= MaxLines
    BY <1>1, <1>2, <1>4, <1>6, <1>14
  <2>4. n + 1 - now + 1 = IF stamp = at THEN first ELSE n + 1
    BY <1>1, <1>2 DEF first
  <2> HIDE DEF now
  <2>5. handed' = Append(handed, n + 1) /\ fruitless_reconnects' = 0 /\ brought'
    BY <2>2, <1>10, <1>14
  <2>6. position' = [stamp |-> stamp, lines |-> now, shown_at_that_stamp |-> now]
    BY <2>2, <1>10
  <2>7. /\ handed' \in Seq(1 .. MaxLines) /\ Len(handed') = n + 1
        /\ \A i \in 1 .. n : handed'[i] = handed[i]
        /\ handed'[n + 1] = n + 1
    BY <2>5, <1>1, <1>14 DEF n
  <2>8. FirstOfInstant' = n + 1 - now + 1
    BY <2>3, <2>6, <2>7, <1>1 DEF FirstOfInstant
  <2>9. \A i \in 1 .. n + 1 : /\ i < FirstOfInstant' => log[i] < stamp
                              /\ i >= FirstOfInstant' => log[i] = stamp
    <3> SUFFICES ASSUME NEW i \in 1 .. n + 1
                 PROVE  /\ i < FirstOfInstant' => log[i] < stamp
                        /\ i >= FirstOfInstant' => log[i] = stamp
      OBVIOUS
    <3>1. i = n + 1 => log[i] = stamp
      BY <1>14 DEF stamp
    <3>2. i <= n => log[i] \in 1 .. MaxInstant
      BY <1>1, <1>3
    <3>3. CASE stamp = at
      BY <3>1, <3>3, <2>4, <2>8, <1>1, <1>6, <1>9
    <3>4. CASE stamp > at
      BY <3>1, <3>2, <3>4, <2>4, <2>8, <1>1, <1>2, <1>4, <1>6, <1>9
    <3> QED BY <3>3, <3>4, <2>1, <1>2, <1>4
  <2>10. ReadSoFar'
    <3>1. \A i \in DOMAIN handed' : handed'[i] = i
      BY <2>7, <1>1, <1>7
    <3>2. Len(handed') <= Len(log') /\ shown' <= Len(handed') /\ Len(handed') # 0
      BY <2>7, <1>1, <1>10, <1>14 DEF size
    <3>3. position'.stamp = log'[Len(handed')] /\ position'.lines \in 1 .. Len(handed')
      BY <2>3, <2>6, <2>7, <1>14 DEF stamp
    <3>4. \A i \in 1 .. Len(handed') : /\ i < FirstOfInstant' => log'[i] < position'.stamp
                                       /\ i >= FirstOfInstant' => log'[i] = position'.stamp
      BY <2>6, <2>7, <2>9
    <3> QED BY <3>1, <3>2, <3>3, <3>4 DEF ReadSoFar
  <2>11. PositionTypes'
    BY <2>3, <2>6, <2>7, <1>1, <1>4, <1>10, <1>14 DEF PositionTypes, Position, size
  <2>12. position'.shown_at_that_stamp =
           IF shown' < FirstOfInstant' THEN 0 ELSE shown' - FirstOfInstant' + 1
    BY <2>3, <2>6, <2>8, <1>1, <1>10, <1>14
  <2> QED BY <2>5, <2>10, <2>11, <2>12, <1>1, <1>14 DEF n, size
<1> QED BY <1>12, <1>13, <1>14, <1>1, <1>9

\* Launching, and what is done of a round without its stream.
LEMMA QuietStepsKeep ==
  ASSUME FollowInv,
         \/ LaunchCreates \/ PodNeverStarts \/ CancelLaunch \/ CleanUp \/ Killed
         \/ Cancel \/ Terminate
  PROVE  FollowInv'
<1> USE DEF LaunchCreates, Create, PodNeverStarts, CancelLaunch, CleanUp, Killed, Cancel,
            Terminate, DeleteJobAndSecret
<1>1. /\ UNCHANGED <<pod, log, reading>>
      /\ pc' \in {"following", "cut", "dropped", "draining"} => pc' = pc
      /\ pc' # "ended"
      /\ termination' # "none" => pc' = "over"
  BY DEF FollowInv, EndsAreThePods, Collecting, cluster, Over
<1>2. objects' \subseteq {"Job", "Secret"}
  BY TypesInParts DEF FollowInv, ClusterTypes, cluster
<1>3. ClusterTypes'
  BY <1>1, <1>2, TypesInParts DEF FollowInv, ClusterTypes, cluster
<1>4. PositionTypes' /\ CountTypes'
  BY <1>1, TypesInParts DEF FollowInv, PositionTypes, CountTypes, reading
<1>5. FlagTypes'
  BY <1>1, TypesInParts DEF FollowInv, FlagTypes, reading
<1>6. PlaceTypes'
  BY TypesInParts DEF FollowInv, PlaceTypes, Launching, Collecting, Over
<1>7. LogIsSorted' /\ ReadSoFar' /\ CountedAgain'
  BY <1>1, ReadingIsKept DEF reading
<1>8. EndsAreThePods' /\ CountedIsBarren'
  BY <1>1 DEF FollowInv, EndsAreThePods, CountedIsBarren, reading, Collecting
<1> QED BY <1>3, <1>4, <1>5, <1>6, <1>7, <1>8, TypesInParts DEF FollowInv

LEMMA ReattachKeeps ==
  ASSUME FollowInv, PodHasStarted \/ Reattach
  PROVE  FollowInv'
<1>1. pc \in {"waiting", "waitingAgain", "down"} => termination = "none"
  BY DEF FollowInv, EndsAreThePods
<1>2. CASE /\ StartFollowing /\ pod \in {"running", "finished"}
           /\ UNCHANGED <<cluster, cancelled, termination, restarts>>
  BY <1>1, <1>2, StartingKeeps DEF PodHasStarted, Reattach
<1>3. CASE /\ pc = "down" /\ pc' \in {"waitingAgain", "lost"}
           /\ UNCHANGED <<cluster, reading, cancelled, termination, restarts>>
  <2>1. ClusterTypes' /\ PositionTypes' /\ CountTypes'
    BY <1>3, TypesInParts DEF FollowInv, ClusterTypes, PositionTypes, CountTypes, cluster, reading
  <2>2. FlagTypes'
    BY <1>3, TypesInParts DEF FollowInv, FlagTypes, reading
  <2>3. PlaceTypes'
    BY <1>3, TypesInParts DEF FollowInv, PlaceTypes, Over
  <2>4. LogIsSorted' /\ ReadSoFar' /\ CountedAgain'
    BY <1>3, ReadingIsKept DEF cluster, reading
  <2>5. EndsAreThePods' /\ CountedIsBarren'
    BY <1>3, <1>1 DEF FollowInv, EndsAreThePods, CountedIsBarren, cluster, reading, Collecting
  <2> QED BY <2>1, <2>2, <2>3, <2>4, <2>5, TypesInParts DEF FollowInv
<1> QED BY <1>2, <1>3 DEF PodHasStarted, Reattach

LEMMA ReadingKeeps ==
  ASSUME FollowInv, ReadLine \/ CutLine
  PROVE  FollowInv'
<1> USE DEF ReadLine, CutLine
<1>1. /\ pc \in {"following", "draining"} /\ TakeLine
      /\ UNCHANGED <<cluster, abandoned, barren, cancelled, termination, restarts>>
      /\ \/ pc' = pc /\ missed' = missed
         \/ /\ pc' = IF pc = "following" THEN "cut" ELSE "ended"
            /\ missed' = (missed \/ handed' # handed \/ pc = "draining")
  OBVIOUS
<1>2. UNCHANGED <<pod, log>>
  BY <1>1 DEF cluster
<1>3. /\ ReadSoFar' /\ PositionTypes'
      /\ position'.shown_at_that_stamp =
           IF shown' < FirstOfInstant' THEN 0 ELSE shown' - FirstOfInstant' + 1
      /\ \/ UNCHANGED <<handed, fruitless_reconnects, brought>>
         \/ fruitless_reconnects' = 0 /\ brought' = TRUE
  BY <1>1, <1>2, LinesAreTold
<1>4. ClusterTypes' /\ CountTypes' /\ PlaceTypes'
  BY <1>1, <1>3, TypesInParts
  DEF FollowInv, ClusterTypes, CountTypes, PlaceTypes, cluster, Collecting
<1>5. FlagTypes'
  BY <1>1, <1>3, TypesInParts DEF FollowInv, FlagTypes
<1>6. LogIsSorted' /\ CountedAgain'
  BY <1>2, <1>3 DEF FollowInv, LogIsSorted, CountedAgain
<1>7. EndsAreThePods'
  <2>1. pc' = "ended" => missed' /\ pod' \in {"finished", "gone"}
    BY <1>1, <1>2 DEF FollowInv, EndsAreThePods
  <2> QED BY <2>1, <1>1, <1>2 DEF FollowInv, EndsAreThePods, Collecting
<1>8. CountedIsBarren'
  <2>1. barren' = barren /\ barren \in Nat /\ fruitless_reconnects \in Nat
    BY <1>1, TypesInParts DEF FollowInv, CountTypes
  <2> QED BY <2>1, <1>1, <1>3 DEF FollowInv, CountedIsBarren
<1> QED BY <1>3, <1>4, <1>5, <1>6, <1>7, <1>8, TypesInParts DEF FollowInv

LEMMA EndOfFollowKeeps ==
  ASSUME FollowInv, FollowEnds \/ DrainEnds
  PROVE  FollowInv'
<1> USE DEF FollowEnds, DrainEnds
<1>1. /\ UNCHANGED <<cluster, position, shown, handed, brought, abandoned, cancelled,
                     termination, restarts>>
      /\ pc' \in {"dropped", "ended"} /\ pc \in {"following", "cut", "draining"}
  OBVIOUS
<1>2. ClusterTypes' /\ PositionTypes' /\ PlaceTypes'
  BY <1>1, TypesInParts
  DEF FollowInv, ClusterTypes, PositionTypes, PlaceTypes, cluster, Collecting
<1>3. CountTypes' /\ CountedIsBarren'
  BY TypesInParts DEF FollowInv, CountTypes, CountedIsBarren
<1>4. FlagTypes'
  <2>1. missed' \in BOOLEAN
    BY TypesInParts DEF FollowInv, FlagTypes
  <2> QED BY <1>1, <2>1, TypesInParts DEF FollowInv, FlagTypes
<1>5. LogIsSorted' /\ ReadSoFar' /\ CountedAgain'
  BY <1>1, ReadingIsKept DEF cluster
<1>6. EndsAreThePods'
  <2>1. /\ shown \in Nat /\ Len(handed) \in Nat /\ Len(log) \in Nat
        /\ shown <= Len(handed) /\ Len(handed) <= Len(log)
    BY TypesInParts DEF FollowInv, PositionTypes, ClusterTypes, ReadSoFar
  <2>2. ASSUME DrainEnds, ~ missed' PROVE Len(handed) = Len(log)
    <3>1. ~ (shown < Len(log))
      BY <2>2, Zenon
    <3> QED BY <3>1, <2>1
  <2> QED BY <1>1, <2>2 DEF FollowInv, EndsAreThePods, Collecting, cluster
<1> QED BY <1>2, <1>3, <1>4, <1>5, <1>6, TypesInParts DEF FollowInv

\* What a new connection shows again is no more than what was read.
LEMMA AfterFollowKeeps ==
  ASSUME FollowInv, AfterFollow
  PROVE  FollowInv'
<1> DEFINE before == PastLinesBefore(position)
<1> USE DEF AfterFollow
<1>1. /\ pc = "dropped" /\ position' = Resumed(position)
      /\ UNCHANGED <<cluster, handed, barren, cancelled, termination, restarts>>
      /\ \/ /\ pod = "running" /\ fruitless_reconnects < ReconnectsAllowed
            /\ fruitless_reconnects' = fruitless_reconnects + 1
            /\ shown' = before /\ brought' = FALSE /\ pc' = "following"
            /\ UNCHANGED <<abandoned, missed>>
         \/ /\ pod = "finished" /\ shown' = before
            /\ \/ pc' = "draining" /\ missed' = missed
               \/ pc' = "ended" /\ missed' = TRUE
            /\ UNCHANGED <<fruitless_reconnects, abandoned, brought>>
         \/ /\ pod \in {"waiting", "gone"} /\ pc' = "ended"
            /\ UNCHANGED <<fruitless_reconnects, abandoned, shown, brought, missed>>
         \/ /\ abandoned' = TRUE /\ pc' = "ended"
            /\ UNCHANGED <<fruitless_reconnects, shown, brought, missed>>
  BY DEF Reconnect, GiveUpReconnecting, Drain, NothingToRead, Abandon
<1>2. /\ log \in Seq(Instant) /\ Len(log) \in Nat /\ handed \in Seq(1 .. MaxLines)
      /\ Len(handed) \in Nat /\ Len(handed) <= Len(log)
      /\ shown \in Nat /\ shown <= Len(handed)
  BY TypesInParts DEF FollowInv, ClusterTypes, PositionTypes, ReadSoFar
<1>3. /\ position.stamp \in 0 .. MaxInstant /\ position.lines \in 0 .. MaxLines
      /\ position' = [stamp |-> position.stamp, lines |-> position.lines,
                      shown_at_that_stamp |-> 0]
  BY <1>1, TypesInParts DEF FollowInv, PositionTypes, Position, Resumed
<1>4. /\ FirstOfInstant \in Nat /\ FirstOfInstant >= 1 /\ FirstOfInstant <= Len(handed) + 1
      /\ FirstOfInstant' = FirstOfInstant
  BY <1>1, <1>2, <1>3 DEF FollowInv, ReadSoFar, FirstOfInstant
<1>5. before \in Nat /\ before < FirstOfInstant /\ before <= Len(log)
  <2>1. \A i \in DOMAIN log : log[i] < position.stamp => i <= FirstOfInstant - 1
    <3> SUFFICES ASSUME NEW i \in 1 .. Len(log), log[i] < position.stamp,
                        i >= FirstOfInstant
                 PROVE  FALSE
      BY <1>2, <1>4
    <3>1. log[i] \in Nat
      BY <1>2 DEF Instant
    <3>2. Len(handed) > 0
      BY <1>2, <1>3, <3>1 DEF FollowInv, ReadSoFar
    <3>3. position.stamp <= log[i]
      <4>1. CASE i <= Len(handed)
        BY <4>1, <3>1, <3>2, <1>2, <1>3, <1>4 DEF FollowInv, ReadSoFar
      <4>2. CASE i > Len(handed)
        <5>1. position.stamp = log[Len(handed)] /\ Len(handed) \in DOMAIN log
          BY <3>2, <1>2 DEF FollowInv, ReadSoFar
        <5>2. log[Len(handed)] <= log[i]
          BY <4>2, <5>1, <1>2 DEF FollowInv, LogIsSorted
        <5> QED BY <5>1, <5>2
      <4> QED BY <4>1, <4>2, <1>2
    <3> QED BY <3>1, <3>3, <1>3
  <2>2. FirstOfInstant - 1 \in Nat /\ position.stamp \in Nat
    BY <1>3, <1>4
  <2> HIDE DEF before
  <2>3. before \in Nat /\ before <= FirstOfInstant - 1 /\ before <= Len(log)
    BY <2>1, <2>2, <1>2, ConnectionsRepeat DEF FollowInv, before
  <2> QED BY <2>3, <1>4
<1> HIDE DEF before
<1>6. shown' \in Nat /\ shown' <= Len(handed)
  BY <1>1, <1>2, <1>4, <1>5
<1>7. ClusterTypes' /\ PlaceTypes'
  BY <1>1, TypesInParts DEF FollowInv, ClusterTypes, PlaceTypes, cluster, Collecting
<1>8. PositionTypes'
  BY <1>1, <1>2, <1>3, <1>6 DEF PositionTypes, Position, cluster
<1>9. CountTypes' /\ CountedIsBarren'
  BY <1>1, TypesInParts DEF FollowInv, CountTypes, CountedIsBarren
<1>10. FlagTypes'
  BY <1>1, TypesInParts DEF FollowInv, FlagTypes
<1>11. LogIsSorted'
  BY <1>1 DEF FollowInv, LogIsSorted, cluster
<1>12. ReadSoFar'
  BY <1>1, <1>3, <1>4, <1>6 DEF FollowInv, ReadSoFar, cluster
<1>13. CountedAgain'
  BY <1>1, <1>3, <1>4, <1>5 DEF CountedAgain
<1>14. EndsAreThePods'
  BY <1>1 DEF FollowInv, EndsAreThePods, cluster, Collecting
<1> QED
  BY <1>7, <1>8, <1>9, <1>10, <1>11, <1>12, <1>13, <1>14, TypesInParts DEF FollowInv

LEMMA FollowInvKeeps ==
  FollowInv /\ [Next]_vars => FollowInv'
<1> SUFFICES ASSUME FollowInv, [Next]_vars PROVE FollowInv'
  OBVIOUS
<1>1. CASE ClusterStep
  BY <1>1, ClusterKeeps
<1>2. CASE LaunchStep
  BY <1>2, QuietStepsKeep, ReattachKeeps DEF LaunchStep
<1>3. CASE Killed
  BY <1>3, QuietStepsKeep
<1>4. CASE ReadStep
  BY <1>4, ReadingKeeps, EndOfFollowKeeps, AfterFollowKeeps, QuietStepsKeep DEF ReadStep
<1>5. CASE UNCHANGED vars
  <2>1. TypeOK'
    BY <1>5, Zenon DEF FollowInv, TypeOK, vars, cluster, reading
  <2>2. LogIsSorted' /\ ReadSoFar' /\ CountedAgain'
    BY <1>5, ReadingIsKept DEF vars, cluster, reading
  <2>3. EndsAreThePods' /\ CountedIsBarren'
    BY <1>5 DEF FollowInv, EndsAreThePods, CountedIsBarren, vars, cluster, reading
  <2> QED BY <2>1, <2>2, <2>3 DEF FollowInv
<1> QED BY <1>1, <1>2, <1>3, <1>4, <1>5 DEF Next

-----------------------------------------------------------------------------
(* What following promises.                                                *)

\* The variables have their types.
THEOREM FollowTypes == Spec => []TypeOK
<1>1. Init => FollowInv
  BY FollowInit DEF Init
<1>2. FollowInv => TypeOK
  BY DEF FollowInv
<1> QED BY <1>1, <1>2, FollowInvKeeps, PTL DEF Spec

\* Each line is handed on once and in its place, and none is left out before
\* what a connection is at, whatever instants lines have, and wherever and
\* however often connections drop.
THEOREM FollowReadsOnce == Spec => []LinesAreReadOnce
<1>1. Init => FollowInv
  BY FollowInit DEF Init
<1>2. FollowInv => LinesAreReadOnce
  BY DEF FollowInv, ReadSoFar, LinesAreReadOnce
<1> QED BY <1>1, <1>2, FollowInvKeeps, PTL DEF Spec

LEMMA QuietStep ==
  FollowInv /\ [Next]_vars =>
    [AfterFollow /\ GiveUpReconnecting => barren >= ReconnectsAllowed]_vars
<1> SUFFICES ASSUME FollowInv, AfterFollow, GiveUpReconnecting
             PROVE  barren >= ReconnectsAllowed
  OBVIOUS
<1> QED
  BY TypesInParts DEF FollowInv, CountedIsBarren, CountTypes, AfterFollow, GiveUpReconnecting

LEMMA LiveStep ==
  FollowInv /\ [Next]_vars =>
    [pod = "running" /\ "Job" \in objects \ objects' =>
       pc = "cleaning" \/ cancelled' \/ abandoned]_vars
<1> SUFFICES ASSUME FollowInv, Next, pod = "running", "Job" \in objects \ objects'
             PROVE  pc = "cleaning" \/ cancelled' \/ abandoned
  OBVIOUS
<1>1. ~ ClusterStep
  BY DEF ClusterStep, PodCreated, PodStarts, PodPrints, PodFinishes, PodDeleted, Expires
<1>2. ~ (LaunchCreates \/ PodHasStarted \/ PodNeverStarts \/ CancelLaunch \/ Reattach \/ Killed)
  BY DEF LaunchCreates, Create, PodHasStarted, PodNeverStarts, CancelLaunch, Reattach, Killed, cluster
<1>3. ~ (ReadLine \/ CutLine \/ FollowEnds \/ AfterFollow \/ DrainEnds)
  BY DEF ReadLine, CutLine, FollowEnds, AfterFollow, DrainEnds, cluster
<1>4. CASE CleanUp
  BY <1>4 DEF CleanUp
<1>5. CASE Cancel
  BY <1>5 DEF Cancel
<1>6. CASE Terminate
  BY <1>6 DEF Terminate, FollowInv, EndsAreThePods
<1> QED BY <1>1, <1>2, <1>3, <1>4, <1>5, <1>6 DEF Next, LaunchStep, ReadStep

\* A pod that runs is not given up for being quiet, but for connections that
\* dropped without a line, as many in a row as are allowed.  Its Job is deleted
\* only after a launch that failed, a cancel, or once its stream is abandoned,
\* for that or as its status cannot be read or `kubectl` not be spawned; what
\* is excluded is a Job deleted because a connection dropped and the pod, which
\* still runs, was taken for ended.
THEOREM FollowEndsForCause == Spec => QuietPodsAreFollowed /\ LivePodsAreNotDeleted
<1>1. Init => FollowInv
  BY FollowInit DEF Init
<1> QED
  BY <1>1, FollowInvKeeps, QuietStep, LiveStep, PTL
  DEF Spec, QuietPodsAreFollowed, LivePodsAreNotDeleted

-----------------------------------------------------------------------------
(* The stream that every runner promises.                                  *)

Printed == [i \in DOMAIN log |-> "out"]
PodIsOver == pod \in {"finished", "gone"}

LEMMA StreamInit ==
  ASSUME NEW place \in {"creatingJob", "over"}, InitAt(place)
  PROVE  Stream!Init
BY DEF InitAt, Stream!Init

\* What the stream is of does not change.
LEMMA StreamStutters ==
  ASSUME UNCHANGED <<log, handed, missed, termination>>, PodIsOver' = PodIsOver
  PROVE  UNCHANGED Stream!vars
BY DEF Stream!vars, PodIsOver

LEMMA StreamOfCluster ==
  ASSUME FollowInv, ClusterStep
  PROVE  [Stream!Next]_(Stream!vars)
<1> USE DEF ClusterStep
<1>1. CASE PodPrints
  <2>1. PICK stamp : log' = Append(log, stamp)
    BY <1>1 DEF PodPrints
  <2>2. log \in Seq(Instant) /\ Len(log) \in Nat
    BY TypesInParts DEF FollowInv, ClusterTypes
  <2>3. log' \in Seq(Instant) /\ DOMAIN log' = 1 .. Len(log) + 1
    BY <1>1, <2>2 DEF PodPrints
  <2>4. Printed \in Seq({"out"}) /\ Len(Printed) = Len(log)
    BY <2>2 DEF Printed
  <2>5. Printed' = Append(Printed, "out")
    BY <2>2, <2>3, <2>4 DEF Printed
  <2>6. Stream!RoundPrints
    BY <1>1, <2>5 DEF PodPrints, Printed, Stream!RoundPrints, reading
  <2> QED BY <2>6 DEF Stream!Next
<1>2. CASE PodFinishes \/ PodDeleted
  <2>1. CASE pod = "finished"
    BY <1>2, <2>1, StreamStutters DEF PodFinishes, PodDeleted, PodIsOver, reading
  <2>2. CASE pod # "finished"
    <3>1. Stream!RoundEnds
      BY <1>2, <2>2 DEF PodFinishes, PodDeleted, Stream!RoundEnds, reading
    <3> QED BY <3>1 DEF Stream!Next
  <2> QED BY <2>1, <2>2
<1>3. CASE PodCreated \/ PodStarts \/ Expires
  BY <1>3, StreamStutters DEF PodCreated, PodStarts, Expires, PodIsOver, reading
<1> QED BY <1>1, <1>2, <1>3

LEMMA StreamOfLaunch ==
  ASSUME FollowInv, LaunchStep \/ Killed \/ Cancel \/ FollowEnds
  PROVE  [Stream!Next]_(Stream!vars)
<1>1. CASE PodHasStarted \/ Reattach
  <2>1. termination = "none"
    BY <1>1 DEF FollowInv, EndsAreThePods, PodHasStarted, Reattach
  <2>2. CASE StartFollowing /\ UNCHANGED <<cluster, termination>>
    <3>1. Stream!Reattaches
      BY <2>1, <2>2 DEF StartFollowing, Stream!Reattaches, cluster
    <3> QED BY <3>1 DEF Stream!Next
  <2>3. CASE UNCHANGED <<cluster, reading, termination>>
    BY <2>3, StreamStutters DEF cluster, reading, PodIsOver
  <2> QED BY <1>1, <2>2, <2>3 DEF PodHasStarted, Reattach
<1>2. CASE \/ LaunchCreates \/ PodNeverStarts \/ CancelLaunch \/ CleanUp \/ Killed
           \/ Cancel \/ FollowEnds
  <2>1. UNCHANGED <<pod, log, handed, missed, termination>>
    BY <1>2
    DEF LaunchCreates, PodNeverStarts, CancelLaunch, CleanUp, Killed, Cancel, FollowEnds,
        DeleteJobAndSecret, cluster, reading
  <2> QED BY <2>1, StreamStutters DEF PodIsOver
<1> QED BY <1>1, <1>2 DEF LaunchStep

\* A last word of "exited" has the whole log before it.
LEMMA StreamOfEnd ==
  ASSUME FollowInv, Terminate
  PROVE  [Stream!Next]_(Stream!vars)
<1>1. termination = "none"
  BY DEF FollowInv, EndsAreThePods, Terminate
<1>2. UNCHANGED <<pod, log, handed, missed>>
  BY DEF Terminate, DeleteJobAndSecret, reading
<1>3. termination' = "exited" =>
        PodIsOver /\ (missed \/ DOMAIN Printed \subseteq {handed[i] : i \in DOMAIN handed})
  <2>1. SUFFICES ASSUME termination' = "exited", ~ missed
                 PROVE  PodIsOver /\ DOMAIN Printed \subseteq {handed[i] : i \in DOMAIN handed}
    BY DEF Terminate, PodIsOver
  <2>2. pod = "finished" /\ Len(handed) = Len(log)
    BY <2>1 DEF Terminate, FollowInv, EndsAreThePods
  <2>3. /\ log \in Seq(Instant) /\ handed \in Seq(1 .. MaxLines)
        /\ \A i \in DOMAIN handed : handed[i] = i
    BY TypesInParts DEF FollowInv, ClusterTypes, PositionTypes, ReadSoFar
  <2> QED BY <2>2, <2>3 DEF Printed, PodIsOver
<1>4. Stream!Terminates
  BY <1>1, <1>2, <1>3 DEF Terminate, Stream!Terminates, Stream!Range, Printed, PodIsOver
<1> QED BY <1>4 DEF Stream!Next

LEMMA StreamOfReading ==
  ASSUME FollowInv, ReadLine \/ CutLine
  PROVE  [Stream!Next]_(Stream!vars)
<1> USE DEF ReadLine, CutLine
<1>1. /\ pc \in {"following", "draining"} /\ TakeLine
      /\ UNCHANGED <<cluster, termination>>
      /\ missed' = missed \/ missed' = TRUE
  BY TypesInParts DEF FollowInv, FlagTypes
<1>2. UNCHANGED <<pod, log>> /\ termination = "none"
  BY <1>1 DEF FollowInv, EndsAreThePods, cluster
<1>3. CASE handed' = handed
  <2>1. CASE missed' = missed
    BY <1>1, <1>2, <1>3, <2>1, StreamStutters DEF PodIsOver
  <2>2. CASE missed' = TRUE
    <3>1. Stream!Cuts
      BY <1>1, <1>2, <1>3, <2>2 DEF Stream!Cuts
    <3> QED BY <3>1 DEF Stream!Next
  <2> QED BY <1>1, <2>1, <2>2
<1>4. CASE /\ Len(handed) < Len(log)
           /\ handed' = Append(handed, Len(handed) + 1)
  <2>1. /\ log \in Seq(Instant) /\ handed \in Seq(1 .. MaxLines)
        /\ \A i \in 1 .. Len(handed) : handed[i] = i
    BY TypesInParts DEF FollowInv, ClusterTypes, PositionTypes, ReadSoFar
  <2> DEFINE new == Len(handed) + 1
             had == {handed[i] : i \in DOMAIN handed}
  <2>2. new \in DOMAIN Printed /\ new \notin had
    BY <1>4, <2>1 DEF Printed
  <2>3. \A m \in 1 .. new - 1 : m \in had
    BY <2>1
  <2>4. new \in Stream!Following
    BY <2>2, <2>3 DEF Stream!Following, Stream!Range, Printed
  <2>5. Stream!Passes
    BY <1>1, <1>2, <1>4, <2>4 DEF Stream!Passes
  <2> QED BY <2>5 DEF Stream!Next
<1> QED BY <1>1, <1>2, <1>3, <1>4, LinesAreTold

LEMMA StreamOfFollowEnd ==
  ASSUME FollowInv, AfterFollow \/ DrainEnds
  PROVE  [Stream!Next]_(Stream!vars)
<1>1. /\ UNCHANGED <<pod, log, handed, termination>> /\ termination = "none"
      /\ missed' = missed \/ missed' = TRUE
  BY TypesInParts
  DEF AfterFollow, DrainEnds, Reconnect, GiveUpReconnecting, Drain, NothingToRead, Abandon,
      cluster, FollowInv, EndsAreThePods, FlagTypes
<1>2. CASE missed' = missed
  BY <1>1, <1>2, StreamStutters DEF PodIsOver
<1>3. CASE missed' = TRUE
  <2>1. Stream!Cuts
    BY <1>1, <1>3 DEF Stream!Cuts
  <2> QED BY <2>1 DEF Stream!Next
<1> QED BY <1>1, <1>2, <1>3

LEMMA StreamStep ==
  FollowInv /\ [Next]_vars => [Stream!Next]_(Stream!vars)
<1> SUFFICES ASSUME FollowInv, [Next]_vars PROVE [Stream!Next]_(Stream!vars)
  OBVIOUS
<1>1. CASE UNCHANGED vars
  BY <1>1, StreamStutters DEF vars, cluster, reading, PodIsOver
<1>2. CASE Next
  BY <1>2, StreamOfCluster, StreamOfLaunch, StreamOfEnd, StreamOfReading, StreamOfFollowEnd
  DEF Next, LaunchStep, ReadStep
<1> QED BY <1>1, <1>2

\* What this runner passes on of a round is the stream that every runner
\* promises: whole, in its order, and said to have exited only once it has.
THEOREM FollowedLogIsAStream == Spec => Stream!Spec
<1>1. Init => FollowInv /\ Stream!Init
  BY FollowInit, StreamInit DEF Init
<1> QED BY <1>1, FollowInvKeeps, StreamStep, PTL DEF Spec, Stream!Spec
=============================================================================
