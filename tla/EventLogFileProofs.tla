------------------------ MODULE EventLogFileProofs ------------------------
(***************************************************************************)
(* What is lost of a log, and what is read out of the rest, for any number *)
(* of handles, events, crashes and failed writes.                          *)
(*                                                                         *)
(* Two folds are made of a sequence: read_events' of a file's lines, and   *)
(* the report's of a log's events.  First they are shown to go step by     *)
(* step, then what they give is told by looking at the whole sequence, by  *)
(* induction on a set of numbers (ReachesAll).  Then FileInv is shown to   *)
(* be an invariant: each text is on one line, in the order of writing,     *)
(* what is acknowledged is on a closed line, and each event lost or to be  *)
(* lost has a failure or half an overlap that paid for it.                 *)
(***************************************************************************)
EXTENDS EventLogFile, FiniteSetTheorems, SequenceTheorems, WellFoundedInduction, TLAPS

\* A set of numbers with 0, and with the next of each of its own, has them all.
LEMMA ReachesAll ==
  ASSUME NEW T, 0 \in T, \A k \in Nat : k \in T => k + 1 \in T
  PROVE  Nat \subseteq T
<1> DEFINE Missed == {k \in Nat : k \notin T}
<1> SUFFICES ASSUME Missed # {} PROVE FALSE
  OBVIOUS
<1>1. PICK x \in Missed : \A y \in Missed : ~ (<<y, x>> \in OpToRel(<, Nat))
  <2> HIDE DEF Missed
  <2>1. Missed \subseteq Nat
    BY DEF Missed
  <2> QED BY <2>1, WFMin, NatLessThanWellFounded
<1>2. x # 0 /\ x \in Nat /\ x - 1 \in Nat
  OBVIOUS
<1>3. x - 1 \notin Missed
  <2>1. <<x - 1, x>> \in OpToRel(<, Nat)
    BY <1>2 DEF OpToRel
  <2> QED BY <1>1, <2>1
<1> QED BY <1>2, <1>3

\* Numbers below a bound have a greatest.
LEMMA SomeIsGreatest ==
  ASSUME NEW k \in Nat, NEW s, s \subseteq 1 .. k + 1, s # {}
  PROVE  \E m \in s : \A y \in s : m >= y
<1> DEFINE T == {n \in Nat : \A u : u \subseteq 1 .. n /\ u # {} => \E m \in u : \A y \in u : m >= y}
<1>1. 0 \in T
  OBVIOUS
<1>2. ASSUME NEW n \in Nat, n \in T PROVE n + 1 \in T
  <2> SUFFICES ASSUME NEW u, u \subseteq 1 .. n + 1, u # {} PROVE \E m \in u : \A y \in u : m >= y
    OBVIOUS
  <2>1. CASE n + 1 \in u
    BY <2>1
  <2>2. CASE n + 1 \notin u
    <3>1. u \subseteq 1 .. n
      BY <2>2
    <3> QED BY <1>2, <3>1
  <2> QED BY <2>1, <2>2
<1> HIDE DEF T
<1>3. Nat \subseteq T
  BY <1>1, <1>2, ReachesAll
<1>4. k + 1 \in T
  BY <1>3
<1> QED BY <1>4 DEF T

\* FoldLeft takes a sequence's places from the last: the greatest of some of the
\* first ones, without which there are only earlier ones.
LEMMA LastOfPrefix ==
  ASSUME NEW k \in Nat, NEW s, s \subseteq 1 .. k + 1, s # {}
  PROVE  /\ Max(s) \in s
         /\ s \ {Max(s)} \subseteq 1 .. k
         /\ s = 1 .. k + 1 => Max(s) = k + 1 /\ s \ {Max(s)} = 1 .. k
<1>1. Max(s) \in s /\ \A y \in s : Max(s) >= y
  BY SomeIsGreatest DEF Max
<1>2. ASSUME NEW y \in s, y # Max(s) PROVE y \in 1 .. k
  <2>1. y \in 1 .. k + 1 /\ Max(s) \in 1 .. k + 1 /\ Max(s) >= y
    BY <1>1
  <2> QED BY <1>2, <2>1
<1>3. s = 1 .. k + 1 => Max(s) = k + 1
  BY <1>1
<1>4. s = 1 .. k + 1 => s \ {Max(s)} = 1 .. k
  BY <1>3
<1> QED BY <1>1, <1>2, <1>3, <1>4

\* The two folds of the model: a report from a log's events, and what is readable
\* from a file's lines.
StartOf(fold) == IF fold = "report" THEN EmptyReport ELSE <<>>

StepOf(fold, sofar, x) ==
  IF fold = "report" THEN AfterEvent(sofar, x) ELSE AfterLine(sofar, x)

\* The function FoldLeft recurs on, over the sets of the first n places.
Unfolds(fold, it, items, n) ==
  it = [s \in SUBSET (1 .. n) |->
          IF s = {} THEN StartOf(fold)
          ELSE StepOf(fold, it[s \ {Max(s)}], items[Max(s)])]

\* There is such a function, for as many items as there are.
LEMMA EveryFoldUnfolds ==
  ASSUME NEW fold, NEW items, NEW n \in Nat
  PROVE  \E it : Unfolds(fold, it, items, n)
<1> DEFINE T == {k \in Nat : \E it : Unfolds(fold, it, items, k)}
<1>1. 0 \in T
  <2> DEFINE it == [s \in SUBSET (1 .. 0) |-> StartOf(fold)]
  <2>1. Unfolds(fold, it, items, 0)
    BY DEF Unfolds
  <2> QED BY <2>1
<1>2. ASSUME NEW k \in Nat, k \in T PROVE k + 1 \in T
  <2>1. PICK it : Unfolds(fold, it, items, k)
    BY <1>2
  <2> DEFINE Step(s) == IF s = {} THEN StartOf(fold)
                        ELSE StepOf(fold, it[s \ {Max(s)}], items[Max(s)])
             jt == [s \in SUBSET (1 .. k + 1) |-> Step(s)]
  <2>2. ASSUME NEW s \in SUBSET (1 .. k)
        PROVE  s \in SUBSET (1 .. k + 1) /\ jt[s] = it[s]
    <3>1. s \in SUBSET (1 .. k + 1)
      OBVIOUS
    <3>2. it[s] = Step(s)
      BY <2>1 DEF Unfolds
    <3> QED BY <3>1, <3>2
  <2>3. \A s \in SUBSET (1 .. k + 1) : s # {} => jt[s \ {Max(s)}] = it[s \ {Max(s)}]
    BY <2>2, LastOfPrefix
  <2>4. Unfolds(fold, jt, items, k + 1)
    BY <2>3 DEF Unfolds
  <2> QED BY <2>4
<1> HIDE DEF T
<1>3. n \in T
  BY <1>1, <1>2, ReachesAll
<1> QED BY <1>3 DEF T

\* On the first k places it is a step on from the first k - 1.
LEMMA UnfoldedIsStepwise ==
  ASSUME NEW fold, NEW items, NEW n \in Nat, NEW it, Unfolds(fold, it, items, n)
  PROVE  /\ it[1 .. 0] = StartOf(fold)
         /\ \A k \in 1 .. n : it[1 .. k] = StepOf(fold, it[1 .. k - 1], items[k])
<1>1. it[1 .. 0] = StartOf(fold)
  BY DEF Unfolds
<1>2. ASSUME NEW k \in 1 .. n
      PROVE  it[1 .. k] = StepOf(fold, it[1 .. k - 1], items[k])
  <2>1. k - 1 \in Nat /\ (k - 1) + 1 = k /\ 1 \in 1 .. k
    OBVIOUS
  <2>2. 1 .. k # {} /\ 1 .. k \in SUBSET (1 .. n)
    <3>1. \A y \in 1 .. k : y \in 1 .. n
      OBVIOUS
    <3> QED BY <2>1, <3>1
  <2>3. Max(1 .. k) = k /\ (1 .. k) \ {Max(1 .. k)} = 1 .. k - 1
    BY <2>1, <2>2, LastOfPrefix
  <2>4. it[1 .. k] = StepOf(fold, it[(1 .. k) \ {Max(1 .. k)}], items[Max(1 .. k)])
    BY <2>2 DEF Unfolds
  <2> QED BY <2>3, <2>4
<1> QED BY <1>1, <1>2

\* JobReport::from_events goes through a log one event at a time.
LEMMA ReportIsStepwise ==
  ASSUME NEW log, NEW n \in Nat, DOMAIN log = 1 .. n
  PROVE  \E fold : /\ fold[0] = EmptyReport
                   /\ \A k \in 1 .. n : fold[k] = AfterEvent(fold[k - 1], log[k])
                   /\ FromEvents(log) = fold[n]
<1> DEFINE Whole(g) == g = [s \in SUBSET DOMAIN log |->
                              IF s = {} THEN EmptyReport
                              ELSE AfterEvent(g[s \ {Max(s)}], log[Max(s)])]
           it == CHOOSE g : Whole(g)
<1>1. \A g : Unfolds("report", g, log, n) <=> Whole(g)
  BY DEF Unfolds, StartOf, StepOf
<1>2. Unfolds("report", it, log, n)
  <2> HIDE DEF Whole
  <2> QED BY <1>1, EveryFoldUnfolds
<1>3. FromEvents(log) = it[1 .. n]
  BY DEF FromEvents, FoldLeft, MapThenFoldSet
<1> HIDE DEF it
<1>4. /\ it[1 .. 0] = StartOf("report")
      /\ \A k \in 1 .. n : it[1 .. k] = StepOf("report", it[1 .. k - 1], log[k])
  BY <1>2, UnfoldedIsStepwise
<1> DEFINE fold == [k \in 0 .. n |-> it[1 .. k]]
<1>5. fold[0] = EmptyReport
  <2>1. it[1 .. 0] = StartOf("report")
    BY <1>4
  <2>2. fold[0] = it[1 .. 0]
    OBVIOUS
  <2> QED BY <2>1, <2>2 DEF StartOf
<1>6. ASSUME NEW k \in 1 .. n PROVE fold[k] = AfterEvent(fold[k - 1], log[k])
  <2>1. k - 1 \in 0 .. n /\ k \in 0 .. n
    OBVIOUS
  <2>2. it[1 .. k] = StepOf("report", it[1 .. k - 1], log[k])
    BY <1>4
  <2>3. it[1 .. k] = AfterEvent(it[1 .. k - 1], log[k])
    BY <2>2 DEF StepOf
  <2> QED BY <2>1, <2>3
<1>7. FromEvents(log) = fold[n]
  BY <1>3
<1> HIDE DEF fold
<1> QED BY <1>5, <1>6, <1>7

\* read_events goes through a file one line at a time.
LEMMA ReadingIsStepwise ==
  ASSUME NEW lines, NEW n \in Nat, DOMAIN lines = 1 .. n
  PROVE  \E fold : /\ fold[0] = <<>>
                   /\ \A k \in 1 .. n : fold[k] = AfterLine(fold[k - 1], lines[k])
                   /\ Readable(lines) = fold[n]
<1> DEFINE Whole(g) == g = [s \in SUBSET DOMAIN lines |->
                              IF s = {} THEN <<>>
                              ELSE AfterLine(g[s \ {Max(s)}], lines[Max(s)])]
           it == CHOOSE g : Whole(g)
<1>1. \A g : Unfolds("lines", g, lines, n) <=> Whole(g)
  BY DEF Unfolds, StartOf, StepOf
<1>2. Unfolds("lines", it, lines, n)
  <2> HIDE DEF Whole
  <2> QED BY <1>1, EveryFoldUnfolds
<1>3. Readable(lines) = it[1 .. n]
  BY DEF Readable, FoldLeft, MapThenFoldSet
<1> HIDE DEF it
<1>4. /\ it[1 .. 0] = StartOf("lines")
      /\ \A k \in 1 .. n : it[1 .. k] = StepOf("lines", it[1 .. k - 1], lines[k])
  BY <1>2, UnfoldedIsStepwise
<1> DEFINE fold == [k \in 0 .. n |-> it[1 .. k]]
<1>5. fold[0] = <<>>
  <2>1. it[1 .. 0] = StartOf("lines")
    BY <1>4
  <2>2. fold[0] = it[1 .. 0]
    OBVIOUS
  <2> QED BY <2>1, <2>2 DEF StartOf
<1>6. ASSUME NEW k \in 1 .. n PROVE fold[k] = AfterLine(fold[k - 1], lines[k])
  <2>1. k - 1 \in 0 .. n /\ k \in 0 .. n
    OBVIOUS
  <2>2. it[1 .. k] = StepOf("lines", it[1 .. k - 1], lines[k])
    BY <1>4
  <2>3. it[1 .. k] = AfterLine(it[1 .. k - 1], lines[k])
    BY <2>2 DEF StepOf
  <2> QED BY <2>1, <2>3
<1>7. Readable(lines) = fold[n]
  BY <1>3
<1> HIDE DEF fold
<1> QED BY <1>5, <1>6, <1>7

\* What is readable of a file: the events that have a line for themselves, all of
\* them and nothing else, in their order.
LEMMA ReadableTellsTheEvents ==
  ASSUME NEW lines \in Seq(Seq(Nat)),
         \A p, q \in DOMAIN lines :
           p < q /\ IsEvent(lines[p]) /\ IsEvent(lines[q]) => lines[p][1] < lines[q][1]
  PROVE  /\ Readable(lines) \in Seq(Nat)
         /\ \A i \in DOMAIN Readable(lines) :
              \E p \in DOMAIN lines : IsEvent(lines[p]) /\ Readable(lines)[i] = lines[p][1]
         /\ \A p \in DOMAIN lines :
              IsEvent(lines[p]) => \E i \in DOMAIN Readable(lines) : Readable(lines)[i] = lines[p][1]
         /\ \A i, k \in DOMAIN Readable(lines) :
              i < k => Readable(lines)[i] < Readable(lines)[k]
<1> DEFINE n == Len(lines)
<1>1. n \in Nat /\ DOMAIN lines = 1 .. n /\ \A p \in 1 .. n : lines[p] \in Seq(Nat)
  OBVIOUS
<1>2. PICK fold : /\ fold[0] = <<>>
                  /\ \A k \in 1 .. n : fold[k] = AfterLine(fold[k - 1], lines[k])
                  /\ Readable(lines) = fold[n]
  BY <1>1, ReadingIsStepwise
<1> DEFINE Tells(f, k) ==
      /\ f \in Seq(Nat)
      /\ \A i \in 1 .. Len(f) : \E p \in 1 .. k : IsEvent(lines[p]) /\ f[i] = lines[p][1]
      /\ \A p \in 1 .. k : IsEvent(lines[p]) => \E i \in 1 .. Len(f) : f[i] = lines[p][1]
      /\ \A i, j \in 1 .. Len(f) : i < j => f[i] < f[j]
    T == {k \in Nat : k <= n => Tells(fold[k], k)}
<1>3. 0 \in T
  <2>1. <<>> \in Seq(Nat) /\ Len(<<>>) = 0
    OBVIOUS
  <2>2. Tells(<<>>, 0)
    BY <2>1
  <2> HIDE DEF Tells
  <2> QED BY <1>2, <2>2
<1> HIDE DEF Tells
<1>4. ASSUME NEW k \in Nat, k \in T PROVE k + 1 \in T
  <2> SUFFICES ASSUME k + 1 <= n PROVE Tells(fold[k + 1], k + 1)
    OBVIOUS
  <2> DEFINE f == fold[k]
             line == lines[k + 1]
  <2>1. k + 1 \in 1 .. n /\ (k + 1) - 1 = k /\ k <= n
    BY <1>1
  <2>2. fold[k + 1] = AfterLine(f, line)
    BY <1>2, <2>1
  <2>3. Tells(f, k)
    BY <1>4, <2>1
  <2>4. line \in Seq(Nat) /\ IsEvent(line) = IsEvent(lines[k + 1])
    BY <1>1, <2>1
  <2> HIDE DEF f
  <2>5. CASE ~ IsEvent(line)
    <3>1. fold[k + 1] = f
      BY <2>2, <2>5 DEF AfterLine
    <3>2. \A p \in 1 .. k + 1 : IsEvent(lines[p]) => p \in 1 .. k
      BY <2>5
    <3> QED BY <3>1, <3>2, <2>3 DEF Tells
  <2>6. CASE IsEvent(line)
    <3> DEFINE g == Append(f, line[1])
    <3>1. fold[k + 1] = g
      BY <2>2, <2>6 DEF AfterLine
    <3>2. line[1] \in Nat
      BY <1>1, <2>1, <2>6 DEF IsEvent
    <3>3. f \in Seq(Nat)
      BY <2>3 DEF Tells
    <3>4. /\ g \in Seq(Nat) /\ Len(g) = Len(f) + 1 /\ g[Len(f) + 1] = line[1]
          /\ \A i \in 1 .. Len(f) : g[i] = f[i]
      BY <3>3, <3>2
    <3>5. Len(f) \in Nat
      BY <2>3 DEF Tells
    <3> HIDE DEF g
    <3>6. Len(g) = Len(f) + 1
      BY <3>4
    <3>7. ASSUME NEW i \in 1 .. Len(g)
          PROVE  \E p \in 1 .. k + 1 : IsEvent(lines[p]) /\ g[i] = lines[p][1]
      <4>1. CASE i = Len(g)
        BY <4>1, <3>4, <3>6, <2>6, <2>1
      <4>2. CASE i # Len(g)
        <5>1. i \in 1 .. Len(f) + 1 /\ i # Len(f) + 1
          BY <4>2, <3>6
        <5>2. i \in 1 .. Len(f)
          BY <5>1, <3>5
        <5>3. i \in 1 .. Len(f) /\ g[i] = f[i]
          BY <5>2, <3>4
        <5>4. PICK p \in 1 .. k : IsEvent(lines[p]) /\ f[i] = lines[p][1]
          BY <5>3, <2>3 DEF Tells
        <5>5. p \in 1 .. k + 1
          OBVIOUS
        <5> QED BY <5>3, <5>4, <5>5
      <4> QED BY <4>1, <4>2
    <3>8. ASSUME NEW p \in 1 .. k + 1, IsEvent(lines[p])
          PROVE  \E i \in 1 .. Len(g) : g[i] = lines[p][1]
      <4>1. CASE p = k + 1
        <5>1. Len(f) + 1 \in 1 .. Len(g)
          BY <3>6, <3>5
        <5> QED BY <4>1, <5>1, <3>4
      <4>2. CASE p # k + 1
        <5>1. p \in 1 .. k
          BY <4>2
        <5>2. PICK i \in 1 .. Len(f) : f[i] = lines[p][1]
          BY <5>1, <3>8, <2>3 DEF Tells
        <5>3. i \in 1 .. Len(g) /\ g[i] = f[i]
          BY <3>4, <3>5
        <5> QED BY <5>2, <5>3
      <4> QED BY <4>1, <4>2
    <3>9. ASSUME NEW i \in 1 .. Len(g), NEW j \in 1 .. Len(g), i < j
          PROVE  g[i] < g[j]
      <4>1. i \in 1 .. Len(f)
        BY <3>9, <3>6, <3>5
      <4>2. i \in 1 .. Len(f) /\ g[i] = f[i]
        BY <4>1, <3>4
      <4>3. CASE j \in 1 .. Len(f)
        BY <4>2, <4>3, <3>9, <3>4, <2>3 DEF Tells
      <4>4. CASE j = Len(f) + 1
        <5>1. PICK p \in 1 .. k : IsEvent(lines[p]) /\ f[i] = lines[p][1]
          BY <4>2, <2>3 DEF Tells
        <5>2. p \in DOMAIN lines /\ k + 1 \in DOMAIN lines /\ p < k + 1
          BY <1>1, <2>1
        <5>3. lines[p][1] < line[1]
          BY <5>1, <5>2, <2>6
        <5> QED BY <5>1, <5>3, <4>2, <4>4, <3>4
      <4>5. j \in 1 .. Len(f) + 1
        BY <3>6
      <4>6. j \in 1 .. Len(f) \/ j = Len(f) + 1
        BY <4>5, <3>5
      <4> QED BY <4>3, <4>4, <4>6
    <3> QED BY <3>1, <3>4, <3>7, <3>8, <3>9 DEF Tells
  <2> QED BY <2>5, <2>6
<1> HIDE DEF T
<1>5. n \in T
  BY <1>1, <1>3, <1>4, ReachesAll
<1>6. Tells(Readable(lines), n)
  BY <1>1, <1>2, <1>5 DEF T
<1>7. DOMAIN Readable(lines) = 1 .. Len(Readable(lines))
  BY <1>6 DEF Tells
<1> QED BY <1>1, <1>6, <1>7 DEF Tells

-----------------------------------------------------------------------------

\* A log of n events, any of them after any other.
IsLog(log, n) ==
  /\ DOMAIN log = 1 .. n
  /\ \A i \in 1 .. n : \E at \in Nat : log[i] \in Events(at)

\* m is the place of the last event of these kinds among the first k, 0 if none.
IsLast(m, log, k, kinds) ==
  /\ m \in 0 .. k
  /\ m # 0 => log[m].t \in kinds
  /\ \A i \in m + 1 .. k : log[i].t \notin kinds

\* The events that open a round, asked for or started.
Opens == {"RoundRequested", "RoundStarted"}

\* What a report says is what the first k events of a log say.
Describes(p, log, k) ==
  /\ p \in Reports
  /\ \A m : IsLast(m, log, k, StateKinds) =>
       p.state = IF m = 0 THEN "Pending" ELSE StateAfter[log[m].t]
  /\ \A o, m : IsLast(o, log, k, Opens) /\ IsLast(m, log, k, {"RoundLaunched"}) =>
       p.launched = IF m > o THEN log[m].handle ELSE NoHandle
  /\ \A m : IsLast(m, log, k, {"RoundRequested"}) =>
       p.requested_at = IF m = 0 THEN 0 ELSE log[m].at
  /\ p.rounds \in {0} \cup {log[i].round : i \in {i \in 1 .. k : log[i].t = "RoundStarted"}}
  /\ \A i \in 1 .. k : log[i].t = "RoundStarted" => log[i].round <= p.rounds

\* One more event is the last of its kinds, and leaves the last of others where it was.
LEMMA LastOfOneMore ==
  ASSUME NEW log, NEW k \in Nat, NEW kinds, NEW m, IsLast(m, log, k + 1, kinds)
  PROVE  /\ log[k + 1].t \in kinds => m = k + 1
         /\ log[k + 1].t \notin kinds => m # k + 1 /\ IsLast(m, log, k, kinds)
<1>1. m \in 0 .. k + 1
  BY DEF IsLast
<1>2. CASE log[k + 1].t \in kinds
  <2>1. m \in 0 .. k => k + 1 \in m + 1 .. k + 1
    OBVIOUS
  <2> QED BY <1>1, <1>2, <2>1 DEF IsLast
<1>3. CASE log[k + 1].t \notin kinds
  <2>1. m # k + 1
    BY <1>3 DEF IsLast
  <2>2. m \in 0 .. k
    BY <1>1, <2>1
  <2>3. \A i \in m + 1 .. k : i \in m + 1 .. k + 1
    BY <2>2
  <2> QED BY <1>3, <2>1, <2>2, <2>3 DEF IsLast
<1> QED BY <1>2, <1>3

\* An event has what its kind has.
LEMMA KindsOfEvents ==
  ASSUME NEW at \in Nat, NEW e \in Events(at)
  PROVE  /\ e.t \in {"RoundRequested", "RoundStarted", "RoundLaunched",
                     "RoundPassed", "RoundFailed", "BranchPushed"}
         /\ e.t = "RoundRequested" => e = [t |-> "RoundRequested", at |-> at]
         /\ e.t = "RoundStarted" =>
              \E r \in 1 .. MaxRound : e = [t |-> "RoundStarted", round |-> r]
         /\ e.t = "RoundLaunched" =>
              \E r \in 1 .. MaxRound : e = [t |-> "RoundLaunched", handle |-> r]
<1>1. CASE e = [t |-> "RoundRequested", at |-> at]
  BY <1>1
<1>2. CASE \E r \in 1 .. MaxRound : e = [t |-> "RoundStarted", round |-> r]
  BY <1>2
<1>3. CASE \E r \in 1 .. MaxRound : e = [t |-> "RoundLaunched", handle |-> r]
  BY <1>3
<1>4. CASE \E k \in {"RoundPassed", "RoundFailed", "BranchPushed"} : e = [t |-> k]
  BY <1>4
<1> QED BY <1>1, <1>2, <1>3, <1>4 DEF Events

\* What each event changes of a report: the fold's match, field by field.
LEMMA AfterEventTells ==
  ASSUME NEW p \in Reports, NEW at \in Nat, NEW e \in Events(at)
  PROVE  LET q == AfterEvent(p, e)
         IN /\ q \in Reports
            /\ q.state = IF e.t \in StateKinds THEN StateAfter[e.t] ELSE p.state
            /\ q.launched = IF e.t \in Opens THEN NoHandle
                            ELSE IF e.t = "RoundLaunched" THEN e.handle ELSE p.launched
            /\ q.requested_at = IF e.t = "RoundRequested" THEN e.at ELSE p.requested_at
            /\ q.rounds = IF e.t = "RoundStarted" /\ e.round > p.rounds
                          THEN e.round ELSE p.rounds
<1> USE DEF StateKinds, StateAfter, Opens, Reports, JobState, NoHandle
<1>1. CASE e.t = "RoundRequested"
  <2>1. e = [t |-> "RoundRequested", at |-> at] /\ e.at = at
    BY <1>1, KindsOfEvents
  <2>2. AfterEvent(p, e) = AfterRoundRequested(p, at)
    BY <1>1, <2>1 DEF AfterEvent
  <2> QED BY <1>1, <2>1, <2>2 DEF AfterRoundRequested
<1>2. CASE e.t = "RoundStarted"
  <2>1. e.round \in Nat
    BY <1>2, KindsOfEvents, FileBounds
  <2>2. AfterEvent(p, e) = AfterRoundStarted(p, e.round)
    BY <1>2 DEF AfterEvent
  <2> QED BY <1>2, <2>1, <2>2 DEF AfterRoundStarted
<1>3. CASE e.t = "RoundLaunched"
  <2>1. e.handle \in Nat
    BY <1>3, KindsOfEvents, FileBounds
  <2>2. AfterEvent(p, e) = AfterRoundLaunched(p, e.handle)
    BY <1>3 DEF AfterEvent
  <2> QED BY <1>3, <2>1, <2>2 DEF AfterRoundLaunched
<1>4. CASE e.t = "RoundPassed"
  <2>1. AfterEvent(p, e) = AfterRoundPassed(p)
    BY <1>4 DEF AfterEvent
  <2> QED BY <1>4, <2>1 DEF AfterRoundPassed
<1>5. CASE e.t = "RoundFailed"
  <2>1. AfterEvent(p, e) = AfterRoundFailed(p)
    BY <1>5 DEF AfterEvent
  <2> QED BY <1>5, <2>1 DEF AfterRoundFailed
<1>6. CASE e.t = "BranchPushed"
  <2>1. AfterEvent(p, e) = p
    BY <1>6 DEF AfterEvent
  <2> QED BY <1>6, <2>1
<1> QED BY <1>1, <1>2, <1>3, <1>4, <1>5, <1>6, KindsOfEvents

\* One step of the fold describes one event more.
LEMMA DescriptionGrows ==
  ASSUME NEW log, NEW n \in Nat, IsLog(log, n), NEW k \in Nat, k + 1 <= n,
         NEW p, Describes(p, log, k)
  PROVE  Describes(AfterEvent(p, log[k + 1]), log, k + 1)
<1> DEFINE e == log[k + 1]
           q == AfterEvent(p, e)
<1>1. PICK at \in Nat : e \in Events(at)
  BY DEF IsLog
<1>2. p \in Reports
  BY DEF Describes
<1>3. /\ q \in Reports
      /\ q.state = IF e.t \in StateKinds THEN StateAfter[e.t] ELSE p.state
      /\ q.launched = IF e.t \in Opens THEN NoHandle
                      ELSE IF e.t = "RoundLaunched" THEN e.handle ELSE p.launched
      /\ q.requested_at = IF e.t = "RoundRequested" THEN e.at ELSE p.requested_at
      /\ q.rounds = IF e.t = "RoundStarted" /\ e.round > p.rounds
                    THEN e.round ELSE p.rounds
  BY <1>1, <1>2, AfterEventTells
<1>4. e.t = "RoundStarted" => e.round \in Nat
  BY <1>1, KindsOfEvents, FileBounds
<1> HIDE DEF q
<1>5. ASSUME NEW m, IsLast(m, log, k + 1, StateKinds)
      PROVE  q.state = IF m = 0 THEN "Pending" ELSE StateAfter[log[m].t]
  <2>1. CASE e.t \in StateKinds
    <3>1. m = k + 1
      BY <1>5, <2>1, LastOfOneMore
    <3>2. m # 0
      BY <3>1
    <3> QED BY <3>1, <3>2, <2>1, <1>3
  <2>2. CASE e.t \notin StateKinds
    <3>1. IsLast(m, log, k, StateKinds)
      BY <1>5, <2>2, LastOfOneMore
    <3> QED BY <3>1, <2>2, <1>3 DEF Describes
  <2> QED BY <2>1, <2>2
<1>6. ASSUME NEW o, NEW m, IsLast(o, log, k + 1, Opens), IsLast(m, log, k + 1, {"RoundLaunched"})
      PROVE  q.launched = IF m > o THEN log[m].handle ELSE NoHandle
  <2>1. CASE e.t \in Opens
    <3>1. o = k + 1
      BY <1>6, <2>1, LastOfOneMore
    <3>2. m \in 0 .. k + 1
      BY <1>6 DEF IsLast
    <3>3. ~ (m > o)
      BY <3>1, <3>2
    <3> QED BY <3>3, <2>1, <1>3
  <2>2. CASE e.t = "RoundLaunched"
    <3>1. m = k + 1
      BY <1>6, <2>2, LastOfOneMore
    <3>2. e.t \notin Opens
      BY <2>2 DEF Opens
    <3>3. IsLast(o, log, k, Opens)
      BY <1>6, <3>2, LastOfOneMore
    <3>4. m > o
      BY <3>1, <3>3 DEF IsLast
    <3> QED BY <3>1, <3>2, <3>4, <2>2, <1>3
  <2>3. CASE e.t \notin Opens /\ e.t # "RoundLaunched"
    <3>1. IsLast(o, log, k, Opens) /\ IsLast(m, log, k, {"RoundLaunched"})
      BY <1>6, <2>3, LastOfOneMore
    <3> QED BY <3>1, <2>3, <1>3 DEF Describes
  <2> QED BY <2>1, <2>2, <2>3
<1>7. ASSUME NEW m, IsLast(m, log, k + 1, {"RoundRequested"})
      PROVE  q.requested_at = IF m = 0 THEN 0 ELSE log[m].at
  <2>1. CASE e.t = "RoundRequested"
    <3>1. m = k + 1 /\ m # 0
      BY <1>7, <2>1, LastOfOneMore
    <3> QED BY <3>1, <2>1, <1>3
  <2>2. CASE e.t # "RoundRequested"
    <3>1. IsLast(m, log, k, {"RoundRequested"})
      BY <1>7, <2>2, LastOfOneMore
    <3> QED BY <3>1, <2>2, <1>3 DEF Describes
  <2> QED BY <2>1, <2>2
<1>8. p.rounds \in Nat
  BY <1>2 DEF Reports
<1>9. \A i \in 1 .. k : i \in 1 .. k + 1
  OBVIOUS
<1>10. q.rounds \in {0} \cup {log[i].round : i \in {i \in 1 .. k + 1 : log[i].t = "RoundStarted"}}
  <2>1. CASE q.rounds = p.rounds
    BY <2>1, <1>9 DEF Describes
  <2>2. CASE q.rounds = e.round /\ e.t = "RoundStarted"
    BY <2>2
  <2> QED BY <2>1, <2>2, <1>3
<1>11. ASSUME NEW i \in 1 .. k + 1, log[i].t = "RoundStarted" PROVE log[i].round <= q.rounds
  <2>1. p.rounds <= q.rounds /\ q.rounds \in Nat
    BY <1>3, <1>4, <1>8
  <2>2. CASE i = k + 1
    BY <2>2, <1>11, <1>3, <1>4, <1>8
  <2>3. CASE i # k + 1
    <3>1. i \in 1 .. k
      BY <2>3
    <3>2. log[i].round <= p.rounds
      BY <3>1, <1>11 DEF Describes
    <3>3. PICK a \in Nat : log[i] \in Events(a)
      BY DEF IsLog
    <3>4. log[i].round \in Nat
      BY <3>3, <1>11, KindsOfEvents, FileBounds
    <3> QED BY <3>2, <3>4, <2>1, <1>8
  <2> QED BY <2>2, <2>3
<1>12. Describes(q, log, k + 1)
  <2> HIDE DEF e
  <2> QED BY <1>3, <1>5, <1>6, <1>7, <1>10, <1>11 DEF Describes
<1> QED BY <1>12 DEF q

\* The report of a log describes the log.
LEMMA ReportDescribesItsLog ==
  ASSUME NEW log, NEW n \in Nat, IsLog(log, n)
  PROVE  Describes(FromEvents(log), log, n)
<1>1. PICK fold : /\ fold[0] = EmptyReport
                  /\ \A k \in 1 .. n : fold[k] = AfterEvent(fold[k - 1], log[k])
                  /\ FromEvents(log) = fold[n]
  BY ReportIsStepwise DEF IsLog
<1> DEFINE T == {k \in Nat : k <= n => Describes(fold[k], log, k)}
<1>2. 0 \in T
  <2>1. \A m, kinds : IsLast(m, log, 0, kinds) => m = 0
    BY DEF IsLast
  <2>2. Describes(EmptyReport, log, 0)
    BY <2>1 DEF Describes, EmptyReport, Reports, JobState, NoHandle
  <2> QED BY <1>1, <2>2
<1>3. ASSUME NEW k \in Nat, k \in T PROVE k + 1 \in T
  <2> SUFFICES ASSUME k + 1 <= n PROVE Describes(fold[k + 1], log, k + 1)
    OBVIOUS
  <2>1. k + 1 \in 1 .. n /\ (k + 1) - 1 = k /\ k <= n
    OBVIOUS
  <2>2. fold[k + 1] = AfterEvent(fold[k], log[k + 1])
    BY <1>1, <2>1
  <2>3. Describes(fold[k], log, k)
    BY <1>3, <2>1
  <2> QED BY <2>2, <2>3, DescriptionGrows
<1> HIDE DEF T
<1>4. n \in T
  BY <1>2, <1>3, ReachesAll
<1> QED BY <1>1, <1>4 DEF T

\* LastOf gives the last place of its kinds.
LEMMA LastOfIsLast ==
  ASSUME NEW log, NEW n \in Nat, DOMAIN log = 1 .. n, NEW kinds
  PROVE  IsLast(LastOf(log, kinds), log, n, kinds)
<1>1. CASE At(log, kinds) = {}
  <2>1. LastOf(log, kinds) = 0
    BY <1>1 DEF LastOf
  <2>2. \A i \in 1 .. n : log[i].t \notin kinds
    BY <1>1 DEF At
  <2> QED BY <2>1, <2>2 DEF IsLast
<1>2. CASE At(log, kinds) # {}
  <2> DEFINE S == At(log, kinds)
             m == Max(S)
  <2>1. S \subseteq 1 .. n
    BY DEF At
  <2>2. n - 1 \in Nat /\ (n - 1) + 1 = n
    BY <1>2, <2>1
  <2>3. \E x \in S : \A y \in S : x >= y
    BY <1>2, <2>1, <2>2, SomeIsGreatest
  <2>4. m \in S /\ \A y \in S : m >= y
    BY <2>3 DEF Max
  <2>5. m \in 1 .. n /\ log[m].t \in kinds
    BY <2>4 DEF At
  <2>6. ASSUME NEW i \in m + 1 .. n PROVE log[i].t \notin kinds
    <3>1. i \in 1 .. n /\ ~ (m >= i)
      BY <2>5
    <3> QED BY <2>4, <3>1 DEF At
  <2>7. LastOf(log, kinds) = m
    BY <1>2 DEF LastOf
  <2> HIDE DEF m
  <2> QED BY <2>5, <2>6, <2>7 DEF IsLast
<1> QED BY <1>1, <1>2

\* Of any log at all, with any event after any other, the report's state, rounds,
\* handle and time are those that looking at the whole log gives.
THEOREM ReportMeansItsLog ==
  ASSUME NEW log, NEW n \in Nat, IsLog(log, n)
  PROVE  LET p == FromEvents(log)
             last == LastOf(log, StateKinds)
             opened == LastOf(log, {"RoundRequested", "RoundStarted"})
             launch == LastOf(log, {"RoundLaunched"})
             asked == LastOf(log, {"RoundRequested"})
         IN /\ p.state = IF last = 0 THEN "Pending" ELSE StateAfter[log[last].t]
            /\ p.rounds = Max({0} \cup {log[i].round : i \in At(log, {"RoundStarted"})})
            /\ p.launched = IF launch > opened THEN log[launch].handle ELSE NoHandle
            /\ p.requested_at = IF asked = 0 THEN 0 ELSE log[asked].at
<1> DEFINE p == FromEvents(log)
<1>1. Describes(p, log, n)
  BY ReportDescribesItsLog
<1>2. \A kinds : IsLast(LastOf(log, kinds), log, n, kinds)
  BY LastOfIsLast DEF IsLog
<1>3. p.rounds = Max({0} \cup {log[i].round : i \in At(log, {"RoundStarted"})})
  <2> DEFINE S == {0} \cup {log[i].round : i \in At(log, {"RoundStarted"})}
  <2>1. At(log, {"RoundStarted"}) = {i \in 1 .. n : log[i].t = "RoundStarted"}
    BY DEF At, IsLog
  <2>2. p.rounds \in S
    BY <1>1, <2>1 DEF Describes
  <2>3. p.rounds \in Nat
    BY <1>1 DEF Describes, Reports
  <2>4. \A y \in S : p.rounds >= y /\ y \in Nat
    <3>1. ASSUME NEW i \in 1 .. n, log[i].t = "RoundStarted"
          PROVE  p.rounds >= log[i].round /\ log[i].round \in Nat
      <4>1. PICK at \in Nat : log[i] \in Events(at)
        BY DEF IsLog
      <4>2. log[i].round \in Nat
        BY <4>1, <3>1, KindsOfEvents, FileBounds
      <4> QED BY <4>2, <3>1, <1>1, <2>3 DEF Describes
    <3> QED BY <3>1, <2>1, <2>3
  <2> HIDE DEF S, p
  <2>5. \A x \in S : (\A y \in S : x >= y) => x = p.rounds
    BY <2>2, <2>3, <2>4
  <2>6. Max(S) \in S /\ \A y \in S : Max(S) >= y
    BY <2>2, <2>4 DEF Max
  <2>7. Max(S) = p.rounds
    BY <2>5, <2>6
  <2> QED BY <2>7 DEF S
<1> HIDE DEF p
<1>4. p.state = LET last == LastOf(log, StateKinds)
                IN  IF last = 0 THEN "Pending" ELSE StateAfter[log[last].t]
  BY <1>1, <1>2 DEF Describes
<1>5. p.launched = LET opened == LastOf(log, {"RoundRequested", "RoundStarted"})
                       launch == LastOf(log, {"RoundLaunched"})
                   IN  IF launch > opened THEN log[launch].handle ELSE NoHandle
  BY <1>1, <1>2 DEF Describes, Opens
<1>6. p.requested_at = LET asked == LastOf(log, {"RoundRequested"})
                       IN  IF asked = 0 THEN 0 ELSE log[asked].at
  BY <1>1, <1>2 DEF Describes
<1> QED BY <1>3, <1>4, <1>5, <1>6 DEF p

\* Of any log at all, a daemon starting on it owes what the log lacks.
LEMMA ResumptionOwesWhatIsLacking ==
  ASSUME NEW log, NEW n \in Nat, IsLog(log, n)
  PROVE  LET owes == ResumptionFor(FromEvents(log)).owes
             asked == LastOf(log, {"RoundRequested"})
             started == LastOf(log, {"RoundStarted"})
             judged == LastOf(log, {"RoundPassed", "RoundFailed"})
             launch == LastOf(log, {"RoundLaunched"})
             unjudgedRound == started > asked /\ started > judged
         IN owes = IF asked > started /\ asked > judged THEN "Requeue"
                   ELSE IF unjudgedRound /\ launch > started THEN "Reattach"
                   ELSE IF unjudgedRound THEN "LostWhileLaunching"
                   ELSE "Nothing"
<1> DEFINE p == FromEvents(log)
           last == LastOf(log, StateKinds)
           opened == LastOf(log, Opens)
           asked == LastOf(log, {"RoundRequested"})
           started == LastOf(log, {"RoundStarted"})
           judged == LastOf(log, {"RoundPassed", "RoundFailed"})
           launch == LastOf(log, {"RoundLaunched"})
<1>1. /\ p.state = IF last = 0 THEN "Pending" ELSE StateAfter[log[last].t]
      /\ p.launched = IF launch > opened THEN log[launch].handle ELSE NoHandle
  BY ReportMeansItsLog DEF Opens
<1>2. /\ IsLast(last, log, n, StateKinds)
      /\ IsLast(opened, log, n, Opens)
      /\ IsLast(asked, log, n, {"RoundRequested"})
      /\ IsLast(started, log, n, {"RoundStarted"})
      /\ IsLast(judged, log, n, {"RoundPassed", "RoundFailed"})
      /\ IsLast(launch, log, n, {"RoundLaunched"})
  BY LastOfIsLast DEF IsLog
<1> HIDE DEF p, last, opened, asked, started, judged, launch
<1>3. /\ last \in 0 .. n /\ opened \in 0 .. n /\ asked \in 0 .. n
      /\ started \in 0 .. n /\ judged \in 0 .. n /\ launch \in 0 .. n
  BY <1>2 DEF IsLast
<1>4. \A m \in 1 .. n : /\ log[m].t = "RoundRequested" => m <= asked
                        /\ log[m].t = "RoundStarted" => m <= started
                        /\ log[m].t \in {"RoundPassed", "RoundFailed"} => m <= judged
                        /\ log[m].t \in StateKinds => m <= last
                        /\ log[m].t \in Opens => m <= opened
  <2> TAKE m \in 1 .. n
  <2>1. \A x, kinds : IsLast(x, log, n, kinds) /\ log[m].t \in kinds => m <= x
    <3> SUFFICES ASSUME NEW x, NEW kinds, IsLast(x, log, n, kinds), log[m].t \in kinds
                 PROVE  m <= x
      OBVIOUS
    <3>1. x \in 0 .. n /\ m \notin x + 1 .. n
      BY DEF IsLast
    <3> QED BY <3>1
  <2> QED BY <1>2, <2>1
<1>5. /\ last # 0 => log[last].t \in StateKinds
      /\ opened # 0 => log[opened].t \in Opens
      /\ asked # 0 => log[asked].t = "RoundRequested"
      /\ started # 0 => log[started].t = "RoundStarted"
      /\ judged # 0 => log[judged].t \in {"RoundPassed", "RoundFailed"}
  BY <1>2 DEF IsLast
<1>6. /\ asked <= last /\ started <= last /\ judged <= last
      /\ asked <= opened /\ started <= opened
  BY <1>3, <1>4, <1>5 DEF StateKinds, Opens
<1>7. last # 0 => \/ last = asked   /\ log[last].t = "RoundRequested"
                  \/ last = started /\ log[last].t = "RoundStarted"
                  \/ last = judged  /\ log[last].t \in {"RoundPassed", "RoundFailed"}
  BY <1>3, <1>4, <1>5, <1>6 DEF StateKinds
<1>8. opened # 0 => opened = asked \/ opened = started
  BY <1>3, <1>4, <1>5, <1>6 DEF Opens
<1>9. /\ asked # 0 /\ asked = started => FALSE
      /\ asked # 0 /\ asked = judged => FALSE
      /\ started # 0 /\ started = judged => FALSE
  BY <1>5
<1>10. launch > opened => log[launch].handle # NoHandle
  <2> SUFFICES ASSUME launch > opened PROVE log[launch].handle # NoHandle
    OBVIOUS
  <2>1. launch \in 1 .. n /\ launch # 0
    BY <1>3
  <2>2. log[launch].t = "RoundLaunched"
    BY <2>1, <1>2 DEF IsLast
  <2>3. PICK at \in Nat : log[launch] \in Events(at)
    BY <2>1 DEF IsLog
  <2> QED BY <2>2, <2>3, KindsOfEvents DEF NoHandle
<1>11. CASE asked > started /\ asked > judged
  <2>1. last = asked /\ last # 0 /\ log[last].t = "RoundRequested"
    BY <1>11, <1>3, <1>6, <1>7
  <2>2. p.state = "Queued"
    BY <2>1, <1>1 DEF StateAfter
  <2>3. ResumptionFor(p).owes = "Requeue"
    BY <2>2 DEF ResumptionFor
  <2> QED BY <2>3, <1>11 DEF p, asked, started, judged
<1>12. CASE started > asked /\ started > judged
  <2>1. last = started /\ last # 0 /\ log[last].t = "RoundStarted"
    BY <1>12, <1>3, <1>6, <1>7
  <2>2. p.state = "Running"
    BY <2>1, <1>1 DEF StateAfter
  <2>3. opened = started
    BY <1>12, <1>3, <1>6, <1>8
  <2>4. p.launched # NoHandle <=> launch > started
    BY <2>3, <1>1, <1>10
  <2>5. ResumptionFor(p).owes = IF launch > started THEN "Reattach" ELSE "LostWhileLaunching"
    BY <2>2, <2>4 DEF ResumptionFor
  <2>6. ~ (asked > started)
    BY <1>12, <1>3
  <2> QED BY <2>5, <2>6, <1>12 DEF p, asked, started, judged, launch
<1>13. CASE ~ (asked > started /\ asked > judged) /\ ~ (started > asked /\ started > judged)
  <2>1. last = 0 \/ log[last].t \in {"RoundPassed", "RoundFailed"}
    BY <1>13, <1>3, <1>6, <1>7, <1>9
  <2>2. p.state \notin {"Queued", "Running"}
    BY <2>1, <1>1 DEF StateAfter
  <2>3. ResumptionFor(p).owes = "Nothing"
    BY <2>2 DEF ResumptionFor
  <2> QED BY <2>3, <1>13 DEF p, asked, started, judged
<1> QED BY <1>11, <1>12, <1>13

-----------------------------------------------------------------------------

\* What can be written: an event, by its number, or part of one.
Text == 0 .. MaxEvents + 1

\* The line that has no newline yet.
Current == file[Len(file)]

\* Every text in the file is torn, or of an event that was handed to append.
TextsAreHanded ==
  \A p \in DOMAIN file : \A i \in DOMAIN file[p] : file[p][i] \in Torn \cup 1 .. Len(handed)

\* Events stand in the file in the order they were written, on one line or on many.
TextsAreInOrder ==
  \A p, q \in DOMAIN file : \A i \in DOMAIN file[p], k \in DOMAIN file[q] :
    /\ p < q \/ (p = q /\ i < k)
    /\ file[p][i] \notin Torn
    /\ file[q][k] \notin Torn
    => file[p][i] < file[q][k]

\* What a handle is writing is in the file, and no other handle is writing it.
WritersHoldTheirOwn ==
  \A w \in Writers : writing[w] # 0 =>
    /\ writing[w] <= Len(handed)
    /\ \E p \in DOMAIN file : \E i \in DOMAIN file[p] : file[p][i] = writing[w]
    /\ \A x \in Writers : writing[x] = writing[w] => x = w

\* What append has returned Ok for stands on a line that has its newline, so
\* nothing more comes to it.
AckedAreClosed ==
  \A a \in DOMAIN acked :
    /\ \A w \in Writers : writing[w] # acked[a]
    /\ acked[a] <= Len(handed)
    /\ \E p \in 1 .. Len(file) - 1 : \E i \in DOMAIN file[p] : file[p][i] = acked[a]

\* An event has a line for itself.
ReadIn(lines, e) == \E p \in DOMAIN lines : IsEvent(lines[p]) /\ lines[p][1] = e

\* Appends that returned Ok for an event that is not read.
Lost == {a \in DOMAIN acked : ~ ReadIn(file, acked[a])}

\* Handles whose append may yet return Ok, and whose event is not read.
Doomed == {w \in Writers : writing[w] # 0 /\ ~ ReadIn(file, writing[w])}

\* What the handle is writing stands on the open line.
Holds(w) == writing[w] # 0 /\ \E i \in DOMAIN Current : Current[i] = writing[w]

\* The open line has remains nobody will close: of a torn write, or of a crash.
\* They cost the event that comes next.
Remains == IF Current # <<>> /\ \A w \in Writers : ~ Holds(w) THEN 1 ELSE 0

\* Every loss, made or to come, has been paid for.  LossesAreAccountedFor is not
\* inductive without the ones to come.
LossesArePaid ==
  Cardinality(Lost) + Cardinality(Doomed) + Remains <= failures + 2 * overlaps

\* Where texts are: all of the invariant but the count.
Placement ==
  /\ TypeOK
  /\ overlaps <= Len(handed)
  /\ TextsAreHanded
  /\ TextsAreInOrder
  /\ WritersHoldTheirOwn
  /\ AckedAreClosed

\* The inductive invariant.
FileInv == Placement /\ LossesArePaid

\* Any event that can be handed to append.
AllEvents == UNION {Events(i) : i \in 1 .. MaxEvents}

-----------------------------------------------------------------------------

\* The file is a sequence of lines, the last of them open.
LEMMA FileTyped ==
  ASSUME TypeOK
  PROVE  /\ file \in Seq(Seq(Text)) /\ Len(file) \in Nat \ {0} /\ DOMAIN file = 1 .. Len(file)
         /\ Len(file) \in DOMAIN file
         /\ Current \in Seq(Text)
         /\ \A p \in DOMAIN file : file[p] \in Seq(Text) /\ \A i \in DOMAIN file[p] : file[p][i] \in Text
<1>1. file \in Seq(Seq(Text)) /\ file # <<>>
  BY DEF TypeOK, Text
<1>2. Len(file) \in Nat \ {0} /\ DOMAIN file = 1 .. Len(file)
  BY <1>1
<1>3. Len(file) \in DOMAIN file
  BY <1>2
<1>4. \A p \in DOMAIN file : file[p] \in Seq(Text) /\ \A i \in DOMAIN file[p] : file[p][i] \in Text
  BY <1>1
<1> QED BY <1>1, <1>2, <1>3, <1>4 DEF Current

\* A text goes to the end of the open line.
LEMMA Extended ==
  ASSUME TypeOK, NEW text \in Text, Extend(text)
  PROVE  /\ file' \in Seq(Seq(Text)) /\ file' # <<>>
         /\ Len(file') = Len(file) /\ DOMAIN file' = DOMAIN file
         /\ Current' = Append(Current, text)
         /\ \A p \in 1 .. Len(file) - 1 : file'[p] = file[p]
         /\ Len(Current') = Len(Current) + 1 /\ Current'[Len(Current) + 1] = text
         /\ \A i \in DOMAIN Current : Current'[i] = Current[i]
         /\ DOMAIN Current' = DOMAIN Current \cup {Len(Current) + 1}
         /\ Len(Current) + 1 \notin DOMAIN Current
<1>1. file' = [file EXCEPT ![Len(file)] = Append(file[Len(file)], text)]
  BY DEF Extend
<1>2. Append(Current, text) \in Seq(Text)
  BY FileTyped
<1>3. file' \in Seq(Seq(Text)) /\ DOMAIN file' = DOMAIN file /\ Len(file') = Len(file)
  BY <1>1, <1>2, FileTyped DEF Current
<1>4. Current' = Append(Current, text)
  BY <1>1, <1>3, FileTyped DEF Current
<1>5. \A p \in 1 .. Len(file) - 1 : file'[p] = file[p]
  <2>1. Len(file) \in Nat /\ DOMAIN file = 1 .. Len(file)
    BY FileTyped
  <2> SUFFICES ASSUME NEW p \in 1 .. Len(file) - 1 PROVE file'[p] = file[p]
    OBVIOUS
  <2>2. Len(file) \in Nat
    BY <2>1
  <2>3. p \in 1 .. Len(file) /\ p # Len(file)
    BY <2>2
  <2> QED BY <1>1, <2>3, <2>1
<1>6. file' # <<>>
  BY <1>3, FileTyped
<1>7. /\ Len(Current') = Len(Current) + 1 /\ Current'[Len(Current) + 1] = text
      /\ \A i \in DOMAIN Current : Current'[i] = Current[i]
      /\ DOMAIN Current' = DOMAIN Current \cup {Len(Current) + 1}
      /\ Len(Current) + 1 \notin DOMAIN Current
  <2> DEFINE c == Current
  <2>1. c \in Seq(Text) /\ Current' = Append(c, text)
    BY <1>4, FileTyped
  <2> HIDE DEF c
  <2>2. /\ Len(Append(c, text)) = Len(c) + 1
        /\ Append(c, text)[Len(c) + 1] = text
        /\ \A i \in DOMAIN c : Append(c, text)[i] = c[i]
        /\ DOMAIN Append(c, text) = 1 .. Len(c) + 1
        /\ DOMAIN c = 1 .. Len(c) /\ Len(c) \in Nat
    BY <2>1
  <2>3. 1 .. Len(c) + 1 = 1 .. Len(c) \cup {Len(c) + 1} /\ Len(c) + 1 \notin 1 .. Len(c)
    BY <2>2
  <2> QED BY <2>1, <2>2, <2>3 DEF c
<1> QED BY <1>3, <1>4, <1>5, <1>6, <1>7

\* A newline closes the open line, and opens an empty one.
LEMMA Closed ==
  ASSUME TypeOK, file' = Append(file, <<>>)
  PROVE  /\ file' \in Seq(Seq(Text)) /\ file' # <<>>
         /\ Len(file') = Len(file) + 1 /\ DOMAIN file' = DOMAIN file \cup {Len(file) + 1}
         /\ Current' = <<>>
         /\ \A p \in DOMAIN file : file'[p] = file[p]
         /\ \A p \in DOMAIN file' : p \notin DOMAIN file => file'[p] = <<>>
<1>1. <<>> \in Seq(Text)
  OBVIOUS
<1>2. file' \in Seq(Seq(Text)) /\ Len(file') = Len(file) + 1
  BY <1>1, FileTyped
<1>3. /\ \A p \in DOMAIN file : file'[p] = file[p]
      /\ file'[Len(file) + 1] = <<>>
      /\ DOMAIN file' = 1 .. Len(file) + 1
  BY <1>1, FileTyped
<1>4. DOMAIN file' = DOMAIN file \cup {Len(file) + 1}
  BY <1>3, FileTyped
<1>5. file' # <<>>
  BY <1>2, FileTyped
<1> QED BY <1>2, <1>3, <1>4, <1>5, FileTyped DEF Current

\* What is read after a text: what is on closed lines, and the text if its line
\* was empty.
LEMMA ReadOnceExtended ==
  ASSUME TypeOK, NEW text \in Text, Extend(text), NEW e
  PROVE  ReadIn(file', e) <=> \/ \E p \in 1 .. Len(file) - 1 : IsEvent(file[p]) /\ file[p][1] = e
                              \/ Current = <<>> /\ text \notin Torn /\ e = text
<1>1. \A p \in DOMAIN file : p \in 1 .. Len(file) - 1 \/ p = Len(file)
  BY FileTyped
<1>2. \A p \in 1 .. Len(file) - 1 : p \in DOMAIN file
  BY FileTyped
<1>3. IsEvent(Current') <=> Current = <<>> /\ text \notin Torn
  <2>1. Current \in Seq(Text)
    BY FileTyped
  <2>2. CASE Current = <<>>
    BY <2>2, Extended DEF IsEvent
  <2>3. CASE Current # <<>>
    <3>1. Len(Current) # 0 /\ Len(Current) \in Nat
      BY <2>1, <2>3
    <3> QED BY <3>1, <2>3, Extended DEF IsEvent
  <2> QED BY <2>2, <2>3
<1>4. Current = <<>> => Current'[1] = text
  BY Extended
<1>5. file'[Len(file)] = Current'
  BY Extended DEF Current
<1> QED BY <1>1, <1>2, <1>3, <1>4, <1>5, Extended, FileTyped DEF ReadIn

\* A newline changes nothing of what is read.
LEMMA ReadOnceClosed ==
  ASSUME TypeOK, file' = Append(file, <<>>), NEW e
  PROVE  ReadIn(file', e) <=> ReadIn(file, e)
<1>1. ~ IsEvent(<<>>)
  BY DEF IsEvent
<1> QED BY <1>1, Closed DEF ReadIn

-----------------------------------------------------------------------------

\* A text written next, or torn, keeps the order.
LEMMA TextPlaced ==
  ASSUME Placement, NEW text \in Text, Extend(text),
         Len(handed') \in Nat, Len(handed) <= Len(handed'),
         text \in Torn \/ (text = Len(handed') /\ Len(handed) < Len(handed'))
  PROVE  TextsAreHanded' /\ TextsAreInOrder'
<1> DEFINE last == Len(Current) + 1
<1>1. TypeOK /\ TextsAreHanded /\ TextsAreInOrder /\ Len(handed) \in Nat
  BY DEF Placement, TypeOK
<1>2. /\ DOMAIN file = 1 .. Len(file) /\ Len(file) \in Nat \ {0}
      /\ DOMAIN file' = DOMAIN file /\ Len(file') = Len(file)
      /\ file'[Len(file)] = Current' /\ file[Len(file)] = Current
  BY <1>1, FileTyped, Extended DEF Current
<1>3. \A p \in DOMAIN file' : \A i \in DOMAIN file'[p] :
        \/ p \in DOMAIN file /\ i \in DOMAIN file[p] /\ file'[p][i] = file[p][i]
        \/ p = Len(file) /\ i = last /\ file'[p][i] = text
  <2> SUFFICES ASSUME NEW p \in DOMAIN file', NEW i \in DOMAIN file'[p]
               PROVE  \/ p \in DOMAIN file /\ i \in DOMAIN file[p] /\ file'[p][i] = file[p][i]
                      \/ p = Len(file) /\ i = last /\ file'[p][i] = text
    OBVIOUS
  <2>1. CASE p = Len(file)
    BY <2>1, <1>1, <1>2, Extended
  <2>2. CASE p # Len(file)
    <3>1. p \in 1 .. Len(file) - 1
      BY <2>2, <1>2
    <3> QED BY <3>1, <1>1, <1>2, Extended
  <2> QED BY <2>1, <2>2
<1>4. \A i \in DOMAIN Current : i < last /\ i \in Nat
  <2>1. Current \in Seq(Text)
    BY <1>1, FileTyped
  <2>2. DOMAIN Current = 1 .. Len(Current) /\ Len(Current) \in Nat
    BY <2>1
  <2> QED BY <2>2
<1>5. TextsAreHanded'
  <2> SUFFICES ASSUME NEW p \in DOMAIN file', NEW i \in DOMAIN file'[p]
               PROVE  file'[p][i] \in Torn \cup 1 .. Len(handed')
    BY DEF TextsAreHanded, Torn, TornBetween, TornInside
  <2>1. CASE p \in DOMAIN file /\ i \in DOMAIN file[p] /\ file'[p][i] = file[p][i]
    <3>1. file[p][i] \in Torn \cup 1 .. Len(handed)
      BY <2>1, <1>1 DEF TextsAreHanded
    <3>2. 1 .. Len(handed) \subseteq 1 .. Len(handed')
      BY <1>1
    <3> QED BY <2>1, <3>1, <3>2
  <2>2. CASE file'[p][i] = text
    <3>1. text \in Torn \/ text \in 1 .. Len(handed')
      BY <1>1
    <3> QED BY <2>2, <3>1
  <2> QED BY <1>3, <2>1, <2>2
<1>6. TextsAreInOrder'
  <2> SUFFICES ASSUME NEW p \in DOMAIN file', NEW q \in DOMAIN file',
                      NEW i \in DOMAIN file'[p], NEW k \in DOMAIN file'[q],
                      p < q \/ (p = q /\ i < k),
                      file'[p][i] \notin Torn, file'[q][k] \notin Torn
               PROVE  file'[p][i] < file'[q][k]
    BY DEF TextsAreInOrder, Torn, TornBetween, TornInside
  <2> DEFINE OldP == p \in DOMAIN file /\ i \in DOMAIN file[p] /\ file'[p][i] = file[p][i]
             OldQ == q \in DOMAIN file /\ k \in DOMAIN file[q] /\ file'[q][k] = file[q][k]
             NewP == p = Len(file) /\ i = last /\ file'[p][i] = text
             NewQ == q = Len(file) /\ k = last /\ file'[q][k] = text
  <2>1. (OldP \/ NewP) /\ (OldQ \/ NewQ)
    BY <1>3
  <2>2. CASE OldP /\ OldQ
    BY <2>2, <1>1 DEF TextsAreInOrder
  <2>3. CASE OldP /\ NewQ
    <3>1. file[p][i] \in 1 .. Len(handed)
      BY <2>3, <1>1 DEF TextsAreHanded
    <3>2. text = Len(handed') /\ Len(handed) < Len(handed')
      BY <2>3
    <3> QED BY <2>3, <3>1, <3>2, <1>1
  <2>4. CASE NewP /\ OldQ
    <3>1. ~ (p < q) /\ p = q
      BY <2>4, <1>2
    <3>2. k \in DOMAIN Current
      BY <2>4, <3>1, <1>2
    <3> QED BY <2>4, <3>1, <3>2, <1>4
  <2>5. CASE NewP /\ NewQ
    <3>1. last \in Nat
      <4>1. Current \in Seq(Text)
        BY <1>1, FileTyped
      <4> QED BY <4>1
    <3> HIDE DEF last
    <3> QED BY <2>5, <3>1, <1>2
  <2> QED BY <2>1, <2>2, <2>3, <2>4, <2>5
<1> QED BY <1>5, <1>6

\* A text stays on its line.
LEMMA StaysPlaced ==
  ASSUME Placement, NEW text \in Text, Extend(text), NEW e, NEW p \in DOMAIN file,
         \E i \in DOMAIN file[p] : file[p][i] = e
  PROVE  p \in DOMAIN file' /\ \E i \in DOMAIN file'[p] : file'[p][i] = e
<1>1. TypeOK
  BY DEF Placement
<1>2. PICK i \in DOMAIN file[p] : file[p][i] = e
  OBVIOUS
<1>3. CASE p = Len(file)
  BY <1>1, <1>2, <1>3, Extended DEF Current
<1>4. CASE p # Len(file)
  <2>1. p \in 1 .. Len(file) - 1
    BY <1>1, <1>4, FileTyped
  <2> QED BY <1>1, <1>2, <2>1, Extended
<1> QED BY <1>3, <1>4

\* Acknowledged events are numbers of events.
LEMMA AckedTyped ==
  ASSUME TypeOK
  PROVE  \A a \in DOMAIN acked : acked[a] \in 1 .. MaxEvents /\ acked[a] \in Nat \ {0}
<1> DEFINE Numbers == 1 .. MaxEvents
<1>1. acked \in Seq(Numbers)
  BY DEF TypeOK
<1>2. Numbers \subseteq Nat \ {0}
  OBVIOUS
<1> HIDE DEF Numbers
<1>3. \A a \in DOMAIN acked : acked[a] \in Numbers
  BY <1>1
<1> QED BY <1>2, <1>3 DEF Numbers

\* A new log is in place.
LEMMA InitPlacement == Init => Placement
<1> SUFFICES ASSUME Init PROVE Placement
  OBVIOUS
<1> USE DEF Init
<1>1. <<>> \in Seq(Text)
  OBVIOUS
<1>2. file \in Seq(Seq(Text)) /\ file # <<>>
  BY <1>1
<1>3. TypeOK
  BY <1>2, FileBounds DEF TypeOK, Text
<1>4. DOMAIN file = {1} /\ file[1] = <<>>
  OBVIOUS
<1>5. TextsAreHanded /\ TextsAreInOrder
  BY <1>4 DEF TextsAreHanded, TextsAreInOrder
<1>6. WritersHoldTheirOwn /\ AckedAreClosed /\ overlaps <= Len(handed)
  BY DEF WritersHoldTheirOwn, AckedAreClosed
<1> QED BY <1>3, <1>5, <1>6 DEF Placement

\* The first write of an append keeps the order.
LEMMA WriteTextPlaces ==
  ASSUME Placement, NEW w \in Writers, WriteText(w)
  PROVE  Placement'
<1> DEFINE n == Len(handed) + 1
<1>1. TypeOK /\ overlaps <= Len(handed) /\ WritersHoldTheirOwn /\ AckedAreClosed
  BY DEF Placement
<1>2. PICK e \in Events(n) : handed' = Append(handed, e)
  BY DEF WriteText
<1>3. handed \in Seq(AllEvents) /\ Len(handed) \in Nat /\ n \in 1 .. MaxEvents
  BY <1>1, FileBounds DEF TypeOK, WriteText, AllEvents
<1>4. e \in AllEvents
  BY <1>3 DEF AllEvents
<1>5. /\ handed' \in Seq(AllEvents) /\ Len(handed') = n
      /\ \A i \in DOMAIN handed' : handed'[i] \in Events(i)
  <2>1. handed' \in Seq(AllEvents) /\ Len(handed') = n
    BY <1>2, <1>3, <1>4
  <2>2. ASSUME NEW i \in DOMAIN handed' PROVE handed'[i] \in Events(i)
    <3>1. i \in 1 .. n
      BY <2>1
    <3>2. CASE i = n
      BY <3>2, <1>2, <1>3
    <3>3. CASE i # n
      <4>1. i \in 1 .. Len(handed)
        BY <3>1, <3>3, <1>3
      <4>2. handed'[i] = handed[i] /\ i \in DOMAIN handed
        BY <4>1, <1>2, <1>3
      <4> QED BY <4>2, <1>1 DEF TypeOK
    <3> QED BY <3>2, <3>3
  <2> QED BY <2>1, <2>2
<1>6. n \in Text /\ Extend(n)
  BY <1>3, <1>5, FileBounds DEF WriteText, Text
<1>7. /\ writing' = [writing EXCEPT ![w] = n] /\ writing[w] = 0
      /\ acked' = acked /\ failures' = failures
      /\ overlaps' \in {overlaps, overlaps + 1}
  BY <1>5 DEF WriteText
<1>8. overlaps' <= Len(handed') /\ overlaps' \in 0 .. MaxEvents
  <2>1. overlaps \in Nat
    BY <1>1 DEF TypeOK
  <2> QED BY <2>1, <1>1, <1>3, <1>5, <1>7, FileBounds
<1>9. TypeOK'
  <2>1. writing' \in [Writers -> 0 .. MaxEvents]
    BY <1>1, <1>3, <1>7 DEF TypeOK
  <2>2. file' \in Seq(Seq(0 .. MaxEvents + 1)) /\ file' # <<>>
    BY <1>1, <1>6, Extended DEF Text
  <2> QED BY <2>1, <2>2, <1>1, <1>3, <1>5, <1>7, <1>8 DEF TypeOK, Events, AllEvents
<1>10. TextsAreHanded' /\ TextsAreInOrder'
  BY <1>3, <1>5, <1>6, TextPlaced
<1>11. WritersHoldTheirOwn'
  <2> SUFFICES ASSUME NEW x \in Writers, writing'[x] # 0
               PROVE  /\ writing'[x] <= Len(handed')
                      /\ \E p \in DOMAIN file' : \E i \in DOMAIN file'[p] : file'[p][i] = writing'[x]
                      /\ \A y \in Writers : writing'[y] = writing'[x] => y = x
    BY DEF WritersHoldTheirOwn
  <2>1. \A y \in Writers : writing[y] \in Nat /\ writing'[y] = IF y = w THEN n ELSE writing[y]
    BY <1>1, <1>7 DEF TypeOK
  <2>2. \A y \in Writers : writing[y] <= Len(handed)
    BY <2>1, <1>1, <1>3 DEF WritersHoldTheirOwn
  <2>3. CASE x = w
    <3>1. file'[Len(file)] = Current' /\ Len(file) \in DOMAIN file'
      BY <1>1, <1>6, Extended, FileTyped DEF Current
    <3>2. Current'[Len(Current) + 1] = n /\ Len(Current) + 1 \in DOMAIN Current'
      BY <1>1, <1>6, Extended
    <3>3. \A y \in Writers : writing[y] # n
      BY <2>1, <2>2, <1>3
    <3>4. writing'[x] = n
      BY <2>1, <2>3
    <3>5. \A y \in Writers : writing'[y] = n => y = x
      BY <2>1, <2>3, <3>3
    <3>6. \E p \in DOMAIN file' : \E i \in DOMAIN file'[p] : file'[p][i] = n
      BY <3>1, <3>2
    <3> QED BY <3>4, <3>5, <3>6, <1>3, <1>5
  <2>4. CASE x # w
    <3>1. writing'[x] = writing[x] /\ writing[x] # 0
      BY <2>1, <2>4
    <3>2. PICK p \in DOMAIN file : \E i \in DOMAIN file[p] : file[p][i] = writing[x]
      BY <3>1, <1>1 DEF WritersHoldTheirOwn
    <3>3. p \in DOMAIN file' /\ \E i \in DOMAIN file'[p] : file'[p][i] = writing[x]
      BY <3>2, <1>6, StaysPlaced
    <3>4. \A y \in Writers : writing'[y] = writing[x] => y = x
      BY <2>1, <2>2, <2>4, <3>1, <1>1, <1>3 DEF WritersHoldTheirOwn
    <3>5. writing[x] <= Len(handed')
      BY <2>1, <2>2, <1>3, <1>5
    <3> QED BY <3>1, <3>3, <3>4, <3>5
  <2> QED BY <2>3, <2>4
<1>12. AckedAreClosed'
  <2> SUFFICES ASSUME NEW a \in DOMAIN acked
               PROVE  /\ \A x \in Writers : writing'[x] # acked[a]
                      /\ acked[a] <= Len(handed')
                      /\ \E p \in 1 .. Len(file') - 1 : \E i \in DOMAIN file'[p] : file'[p][i] = acked[a]
    BY <1>7 DEF AckedAreClosed
  <2>1. acked[a] \in Nat /\ acked[a] <= Len(handed)
    BY <1>1, AckedTyped DEF AckedAreClosed
  <2>2. \A x \in Writers : writing'[x] = (IF x = w THEN n ELSE writing[x])
    BY <1>1, <1>7 DEF TypeOK
  <2>3. acked[a] # n /\ acked[a] <= Len(handed')
    BY <2>1, <1>3, <1>5
  <2>4. PICK p \in 1 .. Len(file) - 1 : \E i \in DOMAIN file[p] : file[p][i] = acked[a]
    BY <1>1 DEF AckedAreClosed
  <2>5. file'[p] = file[p] /\ Len(file') = Len(file)
    BY <1>1, <1>6, Extended
  <2> QED BY <2>2, <2>3, <2>4, <2>5, <1>1 DEF AckedAreClosed
<1> QED BY <1>5, <1>8, <1>9, <1>10, <1>11, <1>12 DEF Placement

\* The newline closes the line of what it acknowledges, or an earlier one did.
LEMMA WriteNewlinePlaces ==
  ASSUME Placement, NEW w \in Writers, WriteNewline(w)
  PROVE  Placement'
<1>1. /\ TypeOK /\ overlaps <= Len(handed) /\ TextsAreHanded /\ TextsAreInOrder
      /\ WritersHoldTheirOwn /\ AckedAreClosed
  BY DEF Placement
<1>2. /\ writing[w] # 0 /\ file' = Append(file, <<>>)
      /\ acked' = Append(acked, writing[w])
      /\ writing' = [writing EXCEPT ![w] = 0]
      /\ handed' = handed /\ failures' = failures /\ overlaps' = overlaps
  BY DEF WriteNewline
<1>3. writing[w] \in 1 .. MaxEvents /\ acked \in Seq(1 .. MaxEvents)
  BY <1>1, <1>2 DEF TypeOK
<1>4. /\ acked' \in Seq(1 .. MaxEvents) /\ Len(acked') = Len(acked) + 1
      /\ DOMAIN acked' = DOMAIN acked \cup {Len(acked) + 1}
      /\ acked'[Len(acked) + 1] = writing[w]
      /\ \A a \in DOMAIN acked : acked'[a] = acked[a]
  BY <1>2, <1>3
<1>5. \A x \in Writers : writing'[x] = (IF x = w THEN 0 ELSE writing[x]) /\ writing[x] \in 0 .. MaxEvents
  BY <1>1, <1>2 DEF TypeOK
<1>6. TypeOK'
  <2>1. writing' \in [Writers -> 0 .. MaxEvents]
    BY <1>1, <1>2, FileBounds DEF TypeOK
  <2>2. file' \in Seq(Seq(0 .. MaxEvents + 1)) /\ file' # <<>>
    BY <1>1, <1>2, Closed DEF Text
  <2> QED BY <2>1, <2>2, <1>1, <1>2, <1>4 DEF TypeOK, Events
<1>7. \A p \in DOMAIN file' : \A i \in DOMAIN file'[p] :
        p \in DOMAIN file /\ i \in DOMAIN file[p] /\ file'[p][i] = file[p][i]
  BY <1>1, <1>2, Closed
<1>8. TextsAreHanded'
  BY <1>1, <1>2, <1>7 DEF TextsAreHanded, Torn, TornBetween, TornInside
<1>9. TextsAreInOrder'
  BY <1>1, <1>7 DEF TextsAreInOrder, Torn, TornBetween, TornInside
<1>10. \A p \in DOMAIN file : p \in 1 .. Len(file') - 1 /\ p \in DOMAIN file' /\ file'[p] = file[p]
  <2>1. Len(file') = Len(file) + 1 /\ DOMAIN file = 1 .. Len(file) /\ Len(file) \in Nat
    BY <1>1, <1>2, Closed, FileTyped
  <2>2. 1 .. Len(file') - 1 = DOMAIN file
    BY <2>1
  <2> QED BY <2>2, <1>1, <1>2, Closed
<1>11. WritersHoldTheirOwn'
  <2> SUFFICES ASSUME NEW x \in Writers, writing'[x] # 0
               PROVE  /\ writing'[x] <= Len(handed')
                      /\ \E p \in DOMAIN file' : \E i \in DOMAIN file'[p] : file'[p][i] = writing'[x]
                      /\ \A y \in Writers : writing'[y] = writing'[x] => y = x
    BY DEF WritersHoldTheirOwn
  <2>1. writing'[x] = writing[x] /\ writing[x] # 0
    BY <1>5
  <2>2. PICK p \in DOMAIN file : \E i \in DOMAIN file[p] : file[p][i] = writing[x]
    BY <2>1, <1>1 DEF WritersHoldTheirOwn
  <2>3. \A y \in Writers : writing'[y] = writing[x] => y = x
    BY <2>1, <1>1, <1>5 DEF WritersHoldTheirOwn
  <2> QED BY <2>1, <2>2, <2>3, <1>1, <1>2, <1>10 DEF WritersHoldTheirOwn
<1>12. AckedAreClosed'
  <2> SUFFICES ASSUME NEW a \in DOMAIN acked'
               PROVE  /\ \A x \in Writers : writing'[x] # acked'[a]
                      /\ acked'[a] <= Len(handed')
                      /\ \E p \in 1 .. Len(file') - 1 : \E i \in DOMAIN file'[p] : file'[p][i] = acked'[a]
    BY DEF AckedAreClosed
  <2>1. CASE a \in DOMAIN acked
    <3>1. acked'[a] = acked[a] /\ acked[a] \in 1 .. MaxEvents
      BY <2>1, <1>1, <1>4, AckedTyped
    <3>2. \A x \in Writers : writing'[x] # acked[a]
      BY <2>1, <3>1, <1>1, <1>5 DEF AckedAreClosed
    <3>3. PICK p \in 1 .. Len(file) - 1 : \E i \in DOMAIN file[p] : file[p][i] = acked[a]
      BY <2>1, <1>1 DEF AckedAreClosed
    <3>4. p \in DOMAIN file
      BY <1>1, FileTyped
    <3> QED BY <2>1, <3>1, <3>2, <3>3, <3>4, <1>1, <1>2, <1>10 DEF AckedAreClosed
  <2>2. CASE a = Len(acked) + 1
    <3>1. acked'[a] = writing[w]
      BY <2>2, <1>4
    <3>2. \A x \in Writers : writing'[x] # writing[w]
      BY <1>1, <1>2, <1>5 DEF WritersHoldTheirOwn
    <3>3. PICK p \in DOMAIN file : \E i \in DOMAIN file[p] : file[p][i] = writing[w]
      BY <1>1, <1>2 DEF WritersHoldTheirOwn
    <3> QED BY <3>1, <3>2, <3>3, <1>1, <1>2, <1>10 DEF WritersHoldTheirOwn
  <2> QED BY <2>1, <2>2, <1>4
<1> QED BY <1>1, <1>2, <1>6, <1>8, <1>9, <1>11, <1>12 DEF Placement

\* A failed write adds only torn text, or a text that stays.
LEMMA WriteFailsPlaces ==
  ASSUME Placement, NEW w \in Writers, WriteFails(w)
  PROVE  Placement'
<1>1. /\ TypeOK /\ overlaps <= Len(handed) /\ TextsAreHanded /\ TextsAreInOrder
      /\ WritersHoldTheirOwn /\ AckedAreClosed
  BY DEF Placement
<1>2. /\ acked' = acked /\ handed' = handed /\ overlaps' = overlaps
      /\ failures' \in 0 .. MaxFailures /\ Len(handed) \in Nat
  BY <1>1, FileBounds DEF WriteFails, TypeOK
<1>3. CASE writing[w] = 0
  <2>1. PICK text \in Torn : Extend(text)
    BY <1>3 DEF WriteFails
  <2>2. text \in Text /\ writing' = writing
    BY <1>3, FileBounds DEF WriteFails, Torn, TornBetween, TornInside, Text
  <2>3. TypeOK'
    <3>1. file' \in Seq(Seq(0 .. MaxEvents + 1)) /\ file' # <<>>
      BY <1>1, <2>1, <2>2, Extended DEF Text
    <3> QED BY <3>1, <1>1, <1>2, <2>2 DEF TypeOK, Events
  <2>4. TextsAreHanded' /\ TextsAreInOrder'
    BY <1>2, <2>1, <2>2, TextPlaced
  <2>5. WritersHoldTheirOwn'
    <3> SUFFICES ASSUME NEW x \in Writers, writing[x] # 0
                 PROVE  \E p \in DOMAIN file' : \E i \in DOMAIN file'[p] : file'[p][i] = writing[x]
      BY <1>1, <1>2, <2>2 DEF WritersHoldTheirOwn
    <3>1. PICK p \in DOMAIN file : \E i \in DOMAIN file[p] : file[p][i] = writing[x]
      BY <1>1 DEF WritersHoldTheirOwn
    <3> QED BY <3>1, <2>1, <2>2, StaysPlaced
  <2>6. AckedAreClosed'
    <3> SUFFICES ASSUME NEW a \in DOMAIN acked
                 PROVE  \E p \in 1 .. Len(file') - 1 : \E i \in DOMAIN file'[p] : file'[p][i] = acked[a]
      BY <1>1, <1>2, <2>2 DEF AckedAreClosed
    <3>1. PICK p \in 1 .. Len(file) - 1 : \E i \in DOMAIN file[p] : file[p][i] = acked[a]
      BY <1>1 DEF AckedAreClosed
    <3>2. file'[p] = file[p] /\ Len(file') = Len(file)
      BY <1>1, <2>1, <2>2, Extended
    <3> QED BY <3>1, <3>2
  <2> QED BY <1>1, <1>2, <2>3, <2>4, <2>5, <2>6 DEF Placement
<1>4. CASE writing[w] # 0
  <2>1. writing' = [writing EXCEPT ![w] = 0] /\ file' = file
    BY <1>4 DEF WriteFails
  <2>2. \A x \in Writers : writing'[x] = (IF x = w THEN 0 ELSE writing[x]) /\ writing[x] \in 0 .. MaxEvents
    BY <1>1, <2>1 DEF TypeOK
  <2>3. TypeOK'
    <3>1. writing' \in [Writers -> 0 .. MaxEvents]
      BY <1>1, <2>1, FileBounds DEF TypeOK
    <3> QED BY <3>1, <2>1, <1>1, <1>2 DEF TypeOK, Events
  <2>4. TextsAreHanded' /\ TextsAreInOrder'
    BY <1>1, <1>2, <2>1 DEF TextsAreHanded, TextsAreInOrder, Torn, TornBetween, TornInside
  <2>5. WritersHoldTheirOwn'
    BY <1>1, <1>2, <2>1, <2>2 DEF WritersHoldTheirOwn
  <2>6. AckedAreClosed'
    <3>1. \A a \in DOMAIN acked : acked[a] # 0
      BY <1>1, AckedTyped
    <3> QED BY <3>1, <1>1, <1>2, <2>1, <2>2 DEF AckedAreClosed
  <2> QED BY <1>1, <1>2, <2>3, <2>4, <2>5, <2>6 DEF Placement
<1> QED BY <1>3, <1>4

\* A crash leaves the file as it is.
LEMMA CrashPlaces ==
  ASSUME Placement, Crash
  PROVE  Placement'
<1>1. /\ TypeOK /\ overlaps <= Len(handed) /\ TextsAreHanded /\ TextsAreInOrder
      /\ WritersHoldTheirOwn /\ AckedAreClosed
  BY DEF Placement
<1>2. /\ acked' = acked /\ handed' = handed /\ overlaps' = overlaps /\ file' = file
      /\ failures' \in 0 .. MaxFailures
      /\ \A x \in Writers : writing'[x] = 0
      /\ writing' \in [Writers -> 0 .. MaxEvents]
  BY <1>1, FileBounds DEF Crash, TypeOK
<1>3. TypeOK'
  BY <1>1, <1>2 DEF TypeOK, Events
<1>4. TextsAreHanded' /\ TextsAreInOrder'
  BY <1>1, <1>2 DEF TextsAreHanded, TextsAreInOrder, Torn, TornBetween, TornInside
<1>5. WritersHoldTheirOwn'
  BY <1>2 DEF WritersHoldTheirOwn
<1>6. AckedAreClosed'
  <2>1. \A a \in DOMAIN acked : acked[a] # 0
    BY <1>1, AckedTyped
  <2> QED BY <2>1, <1>1, <1>2 DEF AckedAreClosed
<1> QED BY <1>1, <1>2, <1>3, <1>4, <1>5, <1>6 DEF Placement

-----------------------------------------------------------------------------

\* The losses can be counted.
LEMMA LossesAreFinite ==
  ASSUME TypeOK
  PROVE  /\ IsFiniteSet(Lost) /\ Cardinality(Lost) \in Nat
         /\ IsFiniteSet(Doomed) /\ Cardinality(Doomed) \in Nat
         /\ Remains \in {0, 1}
<1>1. acked \in Seq(1 .. MaxEvents)
  BY DEF TypeOK
<1>2. IsFiniteSet(DOMAIN acked)
  <2>1. DOMAIN acked = 1 .. Len(acked) /\ Len(acked) \in Int /\ 1 \in Int
    BY <1>1
  <2> QED BY <2>1, FS_Interval
<1>3. IsFiniteSet(Lost)
  <2>1. Lost \in SUBSET DOMAIN acked
    BY DEF Lost
  <2> QED BY <1>2, <2>1, FS_Subset
<1>4. IsFiniteSet(Doomed)
  <2>1. Doomed \in SUBSET Writers
    BY DEF Doomed
  <2> QED BY <2>1, FS_Subset, WritersAssumption
<1> QED BY <1>3, <1>4, FS_CardinalityType DEF Remains

\* A set within one more element has at most one more.
LEMMA OneMoreAtMost ==
  ASSUME NEW S, IsFiniteSet(S), NEW x, NEW T, T \subseteq S \cup {x}
  PROVE  /\ IsFiniteSet(T) /\ Cardinality(T) \in Nat
         /\ Cardinality(T) <= Cardinality(S) + 1
<1>1. /\ IsFiniteSet(S \cup {x})
      /\ Cardinality(S \cup {x}) = IF x \in S THEN Cardinality(S) ELSE Cardinality(S) + 1
  BY FS_AddElement
<1>2. IsFiniteSet(T) /\ Cardinality(T) <= Cardinality(S \cup {x})
  BY <1>1, FS_Subset
<1>3. Cardinality(S) \in Nat /\ Cardinality(T) \in Nat /\ Cardinality(S \cup {x}) \in Nat
  BY <1>1, <1>2, FS_CardinalityType
<1> QED BY <1>1, <1>2, <1>3

\* A set within another has at most as many.
LEMMA NoMoreAtMost ==
  ASSUME NEW S, IsFiniteSet(S), NEW T, T \subseteq S
  PROVE  Cardinality(T) \in Nat /\ Cardinality(T) <= Cardinality(S)
BY FS_Subset, FS_CardinalityType

\* An event stands on one line only.
LEMMA TextsAreOnOneLine ==
  ASSUME Placement, NEW p \in DOMAIN file, NEW q \in DOMAIN file, p # q,
         NEW i \in DOMAIN file[p], NEW k \in DOMAIN file[q], file[p][i] = file[q][k]
  PROVE  file[p][i] \in Torn
<1>1. TypeOK /\ TextsAreHanded /\ TextsAreInOrder /\ Len(handed) \in Nat
  BY DEF Placement, TypeOK
<1>2. p \in Nat /\ q \in Nat
  BY <1>1, FileTyped
<1>3. CASE file[p][i] \notin Torn
  <2>1. file[p][i] \in 1 .. Len(handed) /\ file[q][k] \in 1 .. Len(handed)
    BY <1>1, <1>3 DEF TextsAreHanded
  <2>2. p < q \/ q < p
    BY <1>2
  <2>3. file[p][i] < file[q][k] \/ file[q][k] < file[p][i]
    BY <2>2, <1>1, <1>3 DEF TextsAreInOrder
  <2> QED BY <2>1, <2>3
<1> QED BY <1>3

\* What is read is on a closed line or alone on the open one.
LEMMA ReadOnALine ==
  ASSUME TypeOK, NEW e
  PROVE  ReadIn(file, e) <=> \/ \E p \in 1 .. Len(file) - 1 : IsEvent(file[p]) /\ file[p][1] = e
                             \/ IsEvent(Current) /\ Current[1] = e
<1>1. \A p \in DOMAIN file : p \in 1 .. Len(file) - 1 \/ p = Len(file)
  BY FileTyped
<1>2. (\A p \in 1 .. Len(file) - 1 : p \in DOMAIN file) /\ Len(file) \in DOMAIN file
  BY FileTyped
<1> QED BY <1>1, <1>2 DEF ReadIn, Current

\* A text loses no event already acknowledged: at most the one that was alone on
\* the open line.
LEMMA ExtendingLoses ==
  ASSUME Placement, NEW text \in Text, Extend(text), acked' = acked,
         text \in Torn \/ text > Len(handed)
  PROVE  /\ Lost' = Lost
         /\ \A e : ReadIn(file, e) /\ ~ ReadIn(file', e) => IsEvent(Current) /\ Current[1] = e
<1>1. TypeOK /\ AckedAreClosed /\ Len(handed) \in Nat
  BY DEF Placement, TypeOK
<1>2. \A e : ReadIn(file, e) /\ ~ ReadIn(file', e) => IsEvent(Current) /\ Current[1] = e
  BY <1>1, ReadOnALine, ReadOnceExtended
<1>3. ASSUME NEW a \in DOMAIN acked
      PROVE  ReadIn(file', acked[a]) <=> ReadIn(file, acked[a])
  <2>1. /\ acked[a] \in 1 .. MaxEvents /\ acked[a] <= Len(handed)
    BY <1>1, AckedTyped DEF AckedAreClosed
  <2>2. acked[a] \notin Torn
    BY <2>1, FileBounds DEF Torn, TornBetween, TornInside
  <2>3. acked[a] # text \/ text \in Torn
    BY <2>1, <1>1 DEF Text
  <2>4. PICK p \in 1 .. Len(file) - 1 : \E i \in DOMAIN file[p] : file[p][i] = acked[a]
    BY <1>1 DEF AckedAreClosed
  <2>5. ~ (IsEvent(Current) /\ Current[1] = acked[a])
    <3>1. Len(file) \in Nat
      BY <1>1, FileTyped
    <3>2. p \in 1 .. Len(file) /\ p # Len(file)
      BY <3>1
    <3>3. p \in DOMAIN file /\ Len(file) \in DOMAIN file /\ p # Len(file)
      BY <3>2, <1>1, FileTyped
    <3>4. PICK i \in DOMAIN file[p] : file[p][i] = acked[a]
      BY <2>4
    <3>5. IsEvent(Current) => 1 \in DOMAIN file[Len(file)]
      BY <1>1, FileTyped DEF IsEvent, Current
    <3> QED BY <3>3, <3>4, <3>5, <2>2, TextsAreOnOneLine DEF Current
  <2> QED BY <2>3, <2>5, <1>1, ReadOnALine, ReadOnceExtended
<1>4. Lost' = Lost
  BY <1>3 DEF Lost
<1> QED BY <1>2, <1>4

\* An event alone on the open line is of the one handle that holds it.
LEMMA OneHolds ==
  ASSUME Placement, NEW w \in Writers, Holds(w), NEW x \in Writers, writing[x] # 0,
         IsEvent(Current), Current[1] = writing[x]
  PROVE  x = w
<1>1. PICK i \in DOMAIN Current : Current[i] = writing[w]
  BY DEF Holds
<1>2. Current \in Seq(Text) /\ Len(Current) = 1
  BY FileTyped DEF Placement, IsEvent
<1>3. i = 1
  BY <1>1, <1>2
<1> QED BY <1>1, <1>3 DEF Placement, WritersHoldTheirOwn, Holds

\* An event alone on the open line that is being written is held.
LEMMA WhoeverIsAloneHolds ==
  ASSUME Placement, NEW x \in Writers, writing[x] # 0,
         IsEvent(Current), Current[1] = writing[x]
  PROVE  Holds(x)
<1>1. Current \in Seq(Text) /\ Len(Current) = 1
  BY FileTyped DEF Placement, IsEvent
<1>2. 1 \in DOMAIN Current
  BY <1>1
<1> QED BY <1>2 DEF Holds

\* Nothing is lost of a new log.
LEMMA InitPaid == Init => LossesArePaid
<1> SUFFICES ASSUME Init PROVE LossesArePaid
  OBVIOUS
<1>1. Lost = {} /\ Doomed = {}
  BY DEF Init, Lost, Doomed
<1>2. Remains = 0
  BY DEF Init, Remains, Current
<1> QED BY <1>1, <1>2, FS_EmptySet DEF LossesArePaid, Init

\* A text on an empty line costs nothing; on remains, itself, which they paid for;
\* on another handle's text, both, for which the overlap pays two.
LEMMA WriteTextPays ==
  ASSUME FileInv, NEW w \in Writers, WriteText(w)
  PROVE  LossesArePaid'
<1> DEFINE n == Len(handed) + 1
<1>1. Placement /\ LossesArePaid /\ TypeOK
  BY DEF FileInv, Placement
<1>2. Len(handed) \in Nat /\ n \in 1 .. MaxEvents /\ n \in Text /\ n > Len(handed)
  BY <1>1, FileBounds DEF TypeOK, WriteText, Text
<1>3. /\ Extend(n) /\ acked' = acked /\ failures' = failures
      /\ writing' = [writing EXCEPT ![w] = n] /\ writing[w] = 0
  <2>1. Len(handed') = n
    BY <1>1 DEF WriteText, TypeOK
  <2> QED BY <2>1 DEF WriteText
<1>4. /\ Lost' = Lost
      /\ \A e : ReadIn(file, e) /\ ~ ReadIn(file', e) => IsEvent(Current) /\ Current[1] = e
  BY <1>1, <1>2, <1>3, ExtendingLoses
<1>5. \A x \in Writers : writing'[x] = (IF x = w THEN n ELSE writing[x])
  BY <1>1, <1>3 DEF TypeOK
<1>6. Remains' = 0
  <2>1. Current'[Len(Current) + 1] = n /\ Len(Current) + 1 \in DOMAIN Current'
    BY <1>1, <1>2, <1>3, Extended
  <2>2. Holds(w)'
    BY <2>1, <1>2, <1>5 DEF Holds
  <2> QED BY <2>2 DEF Remains
<1>7. \A x \in Doomed' : x \in Doomed \/ x = w \/ (IsEvent(Current) /\ writing[x] # 0 /\ Current[1] = writing[x])
  BY <1>4, <1>5 DEF Doomed
<1>8. /\ IsFiniteSet(Doomed) /\ Cardinality(Doomed) \in Nat /\ Cardinality(Lost) \in Nat
      /\ Remains \in {0, 1} /\ failures \in Nat /\ overlaps \in Nat
  BY <1>1, LossesAreFinite DEF TypeOK
<1>9. overlaps' \in {overlaps, overlaps + 1}
  BY DEF WriteText
<1>10. CASE Current = <<>>
  <2>1. ReadIn(file', n)
    <3>1. n \notin Torn
      BY <1>2, FileBounds DEF Torn, TornBetween, TornInside
    <3> QED BY <3>1, <1>1, <1>2, <1>3, <1>10, ReadOnceExtended
  <2>2. ~ IsEvent(Current)
    BY <1>10 DEF IsEvent
  <2>3. w \notin Doomed'
    BY <2>1, <1>5 DEF Doomed
  <2>4. Doomed' \subseteq Doomed
    BY <2>2, <2>3, <1>7
  <2>5. Cardinality(Doomed') \in Nat /\ Cardinality(Doomed') <= Cardinality(Doomed)
    BY <2>4, <1>8, NoMoreAtMost
  <2> QED BY <2>5, <1>1, <1>3, <1>4, <1>6, <1>8, <1>9 DEF LossesArePaid
<1>11. CASE Current # <<>> /\ \E x \in Writers : Holds(x)
  <2>1. PICK x \in Writers : Holds(x)
    BY <1>11
  <2>2. overlaps' = overlaps + 1
    BY <2>1 DEF WriteText, Holds
  <2>3. Doomed' \subseteq (Doomed \cup {w}) \cup {x}
    <3>1. \A y \in Writers : IsEvent(Current) /\ writing[y] # 0 /\ Current[1] = writing[y] => y = x
      BY <1>1, <2>1, OneHolds
    <3>2. Doomed' \subseteq Writers
      BY DEF Doomed
    <3> QED BY <3>1, <3>2, <1>7
  <2>4. IsFiniteSet(Doomed \cup {w}) /\ Cardinality(Doomed \cup {w}) <= Cardinality(Doomed) + 1
        /\ Cardinality(Doomed \cup {w}) \in Nat
    BY <1>8, OneMoreAtMost
  <2>5. Cardinality(Doomed') \in Nat /\ Cardinality(Doomed') <= Cardinality(Doomed \cup {w}) + 1
    BY <2>3, <2>4, OneMoreAtMost
  <2> QED BY <2>2, <2>4, <2>5, <1>1, <1>3, <1>4, <1>6, <1>8 DEF LossesArePaid
<1>12. CASE Current # <<>> /\ ~ \E x \in Writers : Holds(x)
  <2>1. Remains = 1
    BY <1>12 DEF Remains
  <2>2. Doomed' \subseteq Doomed \cup {w}
    <3>1. Doomed' \subseteq Writers
      BY DEF Doomed
    <3> QED BY <3>1, <1>1, <1>7, <1>12, WhoeverIsAloneHolds
  <2>3. Cardinality(Doomed') \in Nat /\ Cardinality(Doomed') <= Cardinality(Doomed) + 1
    BY <2>2, <1>8, OneMoreAtMost
  <2> QED BY <2>1, <2>3, <1>1, <1>3, <1>4, <1>6, <1>8, <1>9 DEF LossesArePaid
<1> QED BY <1>10, <1>11, <1>12

\* An append that returns Ok for a doomed event turns it into a lost one.
LEMMA WriteNewlinePays ==
  ASSUME FileInv, NEW w \in Writers, WriteNewline(w)
  PROVE  LossesArePaid'
<1>1. Placement /\ LossesArePaid /\ TypeOK
  BY DEF FileInv, Placement
<1>2. /\ writing[w] # 0 /\ file' = Append(file, <<>>)
      /\ acked' = Append(acked, writing[w])
      /\ writing' = [writing EXCEPT ![w] = 0]
      /\ failures' = failures /\ overlaps' = overlaps
  BY DEF WriteNewline
<1>3. writing[w] \in 1 .. MaxEvents /\ acked \in Seq(1 .. MaxEvents)
  BY <1>1, <1>2 DEF TypeOK
<1>4. /\ DOMAIN acked' = DOMAIN acked \cup {Len(acked) + 1}
      /\ acked'[Len(acked) + 1] = writing[w]
      /\ \A a \in DOMAIN acked : acked'[a] = acked[a]
  BY <1>2, <1>3
<1>5. \A e : ReadIn(file', e) <=> ReadIn(file, e)
  BY <1>1, <1>2, ReadOnceClosed
<1>6. Remains' = 0
  BY <1>1, <1>2, Closed DEF Remains
<1>7. \A x \in Writers : writing'[x] = (IF x = w THEN 0 ELSE writing[x])
  BY <1>1, <1>2 DEF TypeOK
<1>8. Doomed' = Doomed \ {w}
  BY <1>5, <1>7 DEF Doomed
<1>9. /\ IsFiniteSet(Doomed) /\ Cardinality(Doomed) \in Nat
      /\ IsFiniteSet(Lost) /\ Cardinality(Lost) \in Nat
      /\ Remains \in {0, 1} /\ failures \in Nat /\ overlaps \in Nat
  BY <1>1, LossesAreFinite DEF TypeOK
<1>10. CASE ReadIn(file, writing[w])
  <2>1. Lost' \subseteq Lost
    BY <1>10, <1>4, <1>5 DEF Lost
  <2>2. Cardinality(Lost') \in Nat /\ Cardinality(Lost') <= Cardinality(Lost)
    BY <2>1, <1>9, NoMoreAtMost
  <2>3. Cardinality(Doomed') \in Nat /\ Cardinality(Doomed') <= Cardinality(Doomed)
    BY <1>8, <1>9, NoMoreAtMost
  <2> QED BY <2>2, <2>3, <1>1, <1>2, <1>6, <1>9 DEF LossesArePaid
<1>11. CASE ~ ReadIn(file, writing[w])
  <2>1. Lost' \subseteq Lost \cup {Len(acked) + 1}
    BY <1>4, <1>5 DEF Lost
  <2>2. Cardinality(Lost') \in Nat /\ Cardinality(Lost') <= Cardinality(Lost) + 1
    BY <2>1, <1>9, OneMoreAtMost
  <2>3. w \in Doomed
    BY <1>2, <1>11 DEF Doomed
  <2>4. Cardinality(Doomed') = Cardinality(Doomed) - 1
    BY <2>3, <1>8, <1>9, FS_RemoveElement
  <2> QED BY <2>2, <2>4, <1>1, <1>2, <1>6, <1>9 DEF LossesArePaid
<1> QED BY <1>10, <1>11

\* A failed write costs the event it lands on, or leaves remains.
LEMMA WriteFailsPays ==
  ASSUME FileInv, NEW w \in Writers, WriteFails(w)
  PROVE  LossesArePaid'
<1>1. Placement /\ Placement' /\ LossesArePaid /\ TypeOK /\ TypeOK'
  BY WriteFailsPlaces DEF FileInv, Placement
<1>2. acked' = acked /\ failures' = failures + 1 /\ overlaps' = overlaps
  BY DEF WriteFails
<1>3. /\ IsFiniteSet(Doomed) /\ Cardinality(Doomed) \in Nat /\ Cardinality(Lost) \in Nat
      /\ Remains \in {0, 1} /\ failures \in Nat /\ overlaps \in Nat
  BY <1>1, LossesAreFinite DEF TypeOK
<1>4. Remains' \in {0, 1}
  BY DEF Remains
<1>5. CASE writing[w] = 0
  <2>1. PICK text \in Torn : Extend(text)
    BY <1>5 DEF WriteFails
  <2>2. text \in Text /\ writing' = writing
    BY <1>5, FileBounds DEF WriteFails, Torn, TornBetween, TornInside, Text
  <2>3. /\ Lost' = Lost
        /\ \A e : ReadIn(file, e) /\ ~ ReadIn(file', e) => IsEvent(Current) /\ Current[1] = e
    BY <1>1, <1>2, <2>1, <2>2, ExtendingLoses
  <2>4. \A x \in Doomed' : x \in Doomed \/ (IsEvent(Current) /\ writing[x] # 0 /\ Current[1] = writing[x])
    BY <2>2, <2>3 DEF Doomed
  <2>5. Doomed' \subseteq Writers
    BY DEF Doomed
  <2>6. CASE \E x \in Writers : Holds(x)
    <3>1. PICK x \in Writers : Holds(x)
      BY <2>6
    <3>2. Holds(x)'
      BY <1>1, <2>1, <2>2, <3>1, Extended DEF Holds
    <3>3. Remains' = 0
      BY <3>2 DEF Remains
    <3>4. Doomed' \subseteq Doomed \cup {x}
      BY <1>1, <2>4, <2>5, <3>1, OneHolds
    <3>5. Cardinality(Doomed') \in Nat /\ Cardinality(Doomed') <= Cardinality(Doomed) + 1
      BY <3>4, <1>3, OneMoreAtMost
    <3> QED BY <3>3, <3>5, <2>3, <1>1, <1>2, <1>3 DEF LossesArePaid
  <2>7. CASE ~ \E x \in Writers : Holds(x)
    <3>1. Doomed' \subseteq Doomed
      BY <1>1, <2>4, <2>5, <2>7, WhoeverIsAloneHolds
    <3>2. Cardinality(Doomed') \in Nat /\ Cardinality(Doomed') <= Cardinality(Doomed)
      BY <3>1, <1>3, NoMoreAtMost
    <3> QED BY <3>2, <2>3, <1>1, <1>2, <1>3, <1>4 DEF LossesArePaid
  <2> QED BY <2>6, <2>7
<1>6. CASE writing[w] # 0
  <2>1. file' = file /\ writing' = [writing EXCEPT ![w] = 0]
    BY <1>6 DEF WriteFails
  <2>2. \A x \in Writers : writing'[x] = (IF x = w THEN 0 ELSE writing[x])
    BY <1>1, <2>1 DEF TypeOK
  <2>3. Lost' = Lost
    BY <1>2, <2>1 DEF Lost
  <2>4. Doomed' \subseteq Doomed
    BY <2>1, <2>2 DEF Doomed
  <2>5. Cardinality(Doomed') \in Nat /\ Cardinality(Doomed') <= Cardinality(Doomed)
    BY <2>4, <1>3, NoMoreAtMost
  <2> QED BY <2>3, <2>5, <1>1, <1>2, <1>3, <1>4 DEF LossesArePaid
<1> QED BY <1>5, <1>6

\* A crash costs what it leaves on the open line; what was being written is never
\* acknowledged.
LEMMA CrashPays ==
  ASSUME FileInv, Crash
  PROVE  LossesArePaid'
<1>1. LossesArePaid /\ TypeOK
  BY DEF FileInv, Placement
<1>2. /\ acked' = acked /\ failures' = failures + 1 /\ overlaps' = overlaps /\ file' = file
      /\ \A x \in Writers : writing'[x] = 0
  BY DEF Crash
<1>3. Lost' = Lost /\ Doomed' = {}
  BY <1>2 DEF Lost, Doomed
<1>4. /\ Cardinality(Doomed) \in Nat /\ Cardinality(Lost) \in Nat
      /\ Remains \in {0, 1} /\ failures \in Nat /\ overlaps \in Nat
  BY <1>1, LossesAreFinite DEF TypeOK
<1>5. Remains' \in {0, 1} /\ Cardinality(Doomed') = 0
  BY <1>3, FS_EmptySet DEF Remains
<1> QED BY <1>1, <1>2, <1>3, <1>4, <1>5 DEF LossesArePaid

\* The invariant holds in every state.
LEMMA FileInvHolds == Spec => []FileInv
<1>1. Init => FileInv
  BY InitPlacement, InitPaid DEF FileInv
<1>2. FileInv /\ [Next]_vars => FileInv'
  <2> SUFFICES ASSUME FileInv, [Next]_vars PROVE FileInv'
    OBVIOUS
  <2>1. Placement
    BY DEF FileInv
  <2>2. ASSUME NEW w \in Writers, WriteText(w) PROVE FileInv'
    BY <2>1, <2>2, WriteTextPlaces, WriteTextPays DEF FileInv
  <2>3. ASSUME NEW w \in Writers, WriteNewline(w) PROVE FileInv'
    BY <2>1, <2>3, WriteNewlinePlaces, WriteNewlinePays DEF FileInv
  <2>4. ASSUME NEW w \in Writers, WriteFails(w) PROVE FileInv'
    BY <2>1, <2>4, WriteFailsPlaces, WriteFailsPays DEF FileInv
  <2>5. CASE Crash
    BY <2>1, <2>5, CrashPlaces, CrashPays DEF FileInv
  <2>6. CASE UNCHANGED vars
    <3>1. Placement'
      BY <2>1, <2>6 DEF vars, Placement, TypeOK, Events, TextsAreHanded, Torn, TornBetween, TornInside,
                        TextsAreInOrder, WritersHoldTheirOwn, AckedAreClosed
    <3>2. Lost' = Lost /\ Doomed' = Doomed /\ Remains' = Remains
      BY <2>6 DEF vars, Lost, Doomed, Remains, Holds, Current
    <3>3. LossesArePaid'
      BY <3>2, <2>6 DEF vars, FileInv, LossesArePaid
    <3> QED BY <3>1, <3>3 DEF FileInv
  <2> QED BY <2>2, <2>3, <2>4, <2>5, <2>6 DEF Next
<1> QED BY <1>1, <1>2, PTL DEF Spec

-----------------------------------------------------------------------------

\* Every part of the log's state keeps its type.
THEOREM FileTypes == Spec => []TypeOK
<1>1. FileInv => TypeOK
  BY DEF FileInv, Placement
<1> QED BY <1>1, FileInvHolds, PTL

\* The lines that are events, and their order, as the reader meets them.
LEMMA EventLinesAreHanded ==
  ASSUME Placement
  PROVE  /\ file \in Seq(Seq(Nat))
         /\ \A p \in DOMAIN file : IsEvent(file[p]) => 1 \in DOMAIN file[p] /\ file[p][1] \in 1 .. Len(handed)
         /\ \A p, q \in DOMAIN file :
              p < q /\ IsEvent(file[p]) /\ IsEvent(file[q]) => file[p][1] < file[q][1]
<1>1. TypeOK /\ TextsAreHanded /\ TextsAreInOrder
  BY DEF Placement
<1>2. file \in Seq(Seq(Nat))
  <2>1. file \in Seq(Seq(Text))
    BY <1>1, FileTyped
  <2>2. Text \subseteq Nat
    BY DEF Text
  <2>3. Seq(Text) \subseteq Seq(Nat)
    BY <2>2, SeqMonotonic
  <2> QED BY <2>1, <2>3, SeqMonotonic
<1>3. \A p \in DOMAIN file : IsEvent(file[p]) => 1 \in DOMAIN file[p] /\ file[p][1] \notin Torn
  BY <1>1, FileTyped DEF IsEvent
<1>4. \A p \in DOMAIN file : IsEvent(file[p]) => file[p][1] \in 1 .. Len(handed)
  BY <1>1, <1>3 DEF TextsAreHanded
<1>5. \A p, q \in DOMAIN file :
        p < q /\ IsEvent(file[p]) /\ IsEvent(file[q]) => file[p][1] < file[q][1]
  BY <1>1, <1>3 DEF TextsAreInOrder
<1> QED BY <1>2, <1>3, <1>4, <1>5

\* A crash or a failed write costs at most one event appended, an overlap of two
\* handles at most two; every other is read, in order (event.rs, write_line and
\* read_events).
THEOREM FileLossesAreBounded == Spec => []LossesAreAccountedFor
<1>1. FileInv => LossesAreAccountedFor
  <2> SUFFICES ASSUME FileInv PROVE LossesAreAccountedFor
    OBVIOUS
  <2>1. Placement /\ TypeOK /\ LossesArePaid
    BY DEF FileInv, Placement
  <2>2. /\ Readable(file) \in Seq(Nat)
        /\ \A i \in DOMAIN Readable(file) :
             \E p \in DOMAIN file : IsEvent(file[p]) /\ Readable(file)[i] = file[p][1]
        /\ \A p \in DOMAIN file :
             IsEvent(file[p]) => \E i \in DOMAIN Readable(file) : Readable(file)[i] = file[p][1]
        /\ \A i, k \in DOMAIN Readable(file) :
             i < k => Readable(file)[i] < Readable(file)[k]
    BY <2>1, EventLinesAreHanded, ReadableTellsTheEvents
  <2>3. DOMAIN Readable(file) = 1 .. Len(Readable(file))
    BY <2>2
  <2>4. \A e : Contains(Readable(file), e) <=> ReadIn(file, e)
    BY <2>2, <2>3 DEF Contains, ReadIn
  <2>5. {i \in DOMAIN acked : ~ Contains(Readable(file), acked[i])} = Lost
    BY <2>4 DEF Lost
  <2>6. Cardinality(Lost) <= failures + 2 * overlaps
    BY <2>1, LossesAreFinite DEF LossesArePaid, TypeOK
  <2> QED BY <2>2, <2>5, <2>6 DEF LossesAreAccountedFor
<1> QED BY <1>1, FileInvHolds, PTL

\* What EventLog::read gives is a log: any event after any other.
LEMMA WhatIsReadIsALog ==
  ASSUME Placement
  PROVE  Len(Readable(file)) \in Nat /\ IsLog(ReadEvents(file), Len(Readable(file)))
<1> DEFINE r == Readable(file)
<1>1. /\ r \in Seq(Nat)
      /\ \A i \in DOMAIN r : \E p \in DOMAIN file : IsEvent(file[p]) /\ r[i] = file[p][1]
  BY EventLinesAreHanded, ReadableTellsTheEvents
<1>2. DOMAIN r = 1 .. Len(r) /\ Len(r) \in Nat
  BY <1>1
<1>3. \A i \in DOMAIN r : r[i] \in 1 .. Len(handed)
  BY <1>1, EventLinesAreHanded
<1>4. handed \in Seq(AllEvents) /\ \A i \in DOMAIN handed : handed[i] \in Events(i)
  BY DEF Placement, TypeOK, AllEvents
<1>5. DOMAIN handed = 1 .. Len(handed) /\ Len(handed) \in Nat
  BY <1>4
<1>6. ASSUME NEW i \in 1 .. Len(r) PROVE \E at \in Nat : ReadEvents(file)[i] \in Events(at)
  <2>1. i \in DOMAIN r
    BY <1>2
  <2>2. ReadEvents(file)[i] = handed[r[i]]
    BY <2>1 DEF ReadEvents
  <2>3. r[i] \in DOMAIN handed /\ r[i] \in Nat
    BY <2>1, <1>3, <1>5
  <2> QED BY <2>2, <2>3, <1>4
<1>7. DOMAIN ReadEvents(file) = 1 .. Len(r)
  BY <1>2 DEF ReadEvents
<1> QED BY <1>2, <1>6, <1>7 DEF IsLog

\* The report of whatever a log's file still gives is what looking at the whole
\* of it gives (report.rs, from_events).
THEOREM ReportsMeanWhatTheySay == Spec => []ReportMeansWhatItSays
<1>1. FileInv => ReportMeansWhatItSays
  <2> SUFFICES ASSUME FileInv PROVE ReportMeansWhatItSays
    OBVIOUS
  <2>1. Len(Readable(file)) \in Nat /\ IsLog(ReadEvents(file), Len(Readable(file)))
    BY WhatIsReadIsALog DEF FileInv
  <2> QED BY <2>1, ReportMeansItsLog DEF ReportMeansWhatItSays
<1> QED BY <1>1, FileInvHolds, PTL

\* A daemon starting on whatever the file still gives owes the job what that
\* lacks, and nothing else (fleet.rs, resumption).
THEOREM RestartsOweWhatIsLacking == Spec => []RestartOwesWhatTheLogLacks
<1>1. FileInv => RestartOwesWhatTheLogLacks
  <2> SUFFICES ASSUME FileInv PROVE RestartOwesWhatTheLogLacks
    OBVIOUS
  <2>1. Len(Readable(file)) \in Nat /\ IsLog(ReadEvents(file), Len(Readable(file)))
    BY WhatIsReadIsALog DEF FileInv
  <2> QED BY <2>1, ResumptionOwesWhatIsLacking DEF RestartOwesWhatTheLogLacks
<1> QED BY <1>1, FileInvHolds, PTL
====
