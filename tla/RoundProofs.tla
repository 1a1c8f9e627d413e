---------------------------- MODULE RoundProofs ----------------------------
(***************************************************************************)
(* What rounds on one branch promise, for any rounds and push attempts.    *)
(*                                                                         *)
(* The inductive invariant is RoundsSafe: what a round has sent, is about  *)
(* to send or is about to be judged for has been on the branch.  It is     *)
(* stated of one round at a time, and only grows truer as more commits are *)
(* published, so that a step of one round leaves every other's alone.      *)
(* Deliveries need two facts more: what leads to one, and that a branch    *)
(* nobody deleted has all it ever had.                                     *)
(***************************************************************************)
EXTENDS Round, SequenceTheorems, TLAPS

\* All that a round, or who stops it, can do.
StepOf(r) ==
  \/ RoundStep(r) \/ AgentExits(r) \/ VerifyRules(r) \/ VerifyInterrupted(r)
  \/ Killed(r) \/ Cancel(r)

-----------------------------------------------------------------------------
(* The operators.                                                          *)

\* Everything is ahead of or behind itself, and nothing is behind the claim.
LEMMA PrefixFacts ==
  /\ \A c \in Commit : IsPrefix(c, c)
  /\ \A c \in Commit : IsPrefix(<<>>, c)
BY DEF IsPrefix, Commit

\* A round leaves commits.
LEMMA AgentsLeaveCommits ==
  ASSUME NEW r \in Rounds, rounds[r].start \in Commit, NEW left \in LeftBy(r)
  PROVE  left.head \in Commit /\ left.dirty \in BOOLEAN
<1>1. ASSUME rounds[r].start # <<>> PROVE Front(rounds[r].start) \in Commit
  <2>1. Len(rounds[r].start) \in Nat \ {0}
    BY <1>1, EmptySeq DEF Commit
  <2> DEFINE start == rounds[r].start
             n == Len(start) - 1
  <2>2. \A i \in 1 .. n : start[i] \in Rounds
    BY <2>1 DEF Commit
  <2>3. n \in Int /\ 1 \in Int
    BY <2>1
  <2> HIDE DEF n
  <2>4. SubSeq(start, 1, n) \in Seq(Rounds)
    BY <2>2, <2>3, SubSeqProperties, Zenon
  <2> QED BY <2>4 DEF Commit, Front, n
<1> DEFINE begin == rounds[r].start
           before == IF begin = <<>> THEN {} ELSE {Front(begin)}
<1>2. /\ left.dirty \in BOOLEAN
      /\ left.head \in {begin, Append(begin, r)} \cup before \cup {Append(c, r) : c \in before}
  BY DEF LeftBy
<1>3. \A c \in Commit : Append(c, r) \in Commit
  BY DEF Commit
<1>4. before \subseteq Commit
  BY <1>1
<1> HIDE DEF before
<1> QED BY <1>2, <1>3, <1>4

LEMMA CommitAllCommits ==
  ASSUME NEW r \in Rounds, rounds[r].head \in Commit
  PROVE  CommitAll(r).head \in Commit /\ CommitAll(r).dirty = FALSE
BY DEF CommitAll, Commit

LEMMA SayingIsAnEvent ==
  ASSUME NEW kind \in {"pushed", "verifyRejected", "passed", "failed", "pullRequest"}
  PROVE  /\ Saying(kind) \in Event
         /\ Saying(kind).kind = kind
BY DEF Saying, Event, Commit

\* What a round says at its end are events; it says it committed only what it
\* preserved, and that it passed only if nothing was lost or cut short.
LEMMA CompletionEvents ==
  ASSUME NEW round \in Round, NEW ruling
  PROVE  LET said == EventsForCompletion(round, ruling)
         IN  /\ said \in Seq(Event)
             /\ \A i \in DOMAIN said :
                  /\ said[i].kind = "committed" => ~ round.lost /\ said[i].commit \in round.work
                  /\ said[i].kind = "passed" =>
                       ~ round.lost /\ ~ round.agentFailed /\ ruling # "interrupted"
<1> DEFINE Committed(c) == [kind |-> "committed", commit |-> c]
           saved == {<<Committed(c), Saying("pushed")>> : c \in round.work}
           work == IF saved = {} THEN <<>> ELSE CHOOSE w \in saved : TRUE
           Right(e) == /\ e \in Event
                       /\ e.kind = "committed" => e.commit \in round.work
                       /\ e.kind # "passed"
           said == EventsForCompletion(round, ruling)
<1>1. work \in Seq(Event) /\ \A k \in DOMAIN work : Right(work[k])
  <2>1. CASE saved = {}
    BY <2>1
  <2>2. CASE saved # {}
    <3>1. work \in saved
      BY <2>2
    <3>2. PICK c \in round.work : work = <<Committed(c), Saying("pushed")>>
      BY <3>1
    <3>3. Committed(c) \in Event /\ Right(Committed(c))
      BY DEF Event, Round
    <3>4. Right(Saying("pushed")) /\ Saying("pushed") \in Event
      BY SayingIsAnEvent
    <3> HIDE DEF Right, Committed, work, saved
    <3>5. work = <<Committed(c), Saying("pushed")>> /\ Committed(c) \in Event
      BY <3>2, <3>3 DEF Right
    <3>6. work \in Seq(Event) /\ DOMAIN work = {1, 2} /\ work[1] = Committed(c)
          /\ work[2] = Saying("pushed")
      BY <3>4, <3>5
    <3> QED BY <3>3, <3>4, <3>6
  <2> QED BY <2>1, <2>2
<1>2. \/ said = <<Saying("failed")>>
      \/ ~ round.lost /\ said = work \o <<Saying("failed")>>
      \/ ~ round.lost /\ said = work \o <<Saying("verifyRejected"), Saying("failed")>>
      \/ /\ ~ round.lost /\ ~ round.agentFailed /\ ruling # "interrupted"
         /\ said = work \o <<Saying("passed")>>
  BY DEF EventsForCompletion
<1>3. /\ Saying("failed") \in Event /\ Saying("failed").kind = "failed"
      /\ Saying("verifyRejected") \in Event /\ Saying("verifyRejected").kind = "verifyRejected"
      /\ Saying("passed") \in Event /\ Saying("passed").kind = "passed"
  BY SayingIsAnEvent
<1> HIDE DEF work, saved, said
<1>4. CASE said = <<Saying("failed")>>
  <2> QED BY <1>4, <1>3 DEF said
<1>5. CASE ~ round.lost /\ said = work \o <<Saying("failed")>>
  <2> QED BY <1>5, <1>1, <1>3 DEF said
<1>6. CASE ~ round.lost /\ said = work \o <<Saying("verifyRejected"), Saying("failed")>>
  <2> QED BY <1>6, <1>1, <1>3 DEF said
<1>7. CASE /\ ~ round.lost /\ ~ round.agentFailed /\ ruling # "interrupted"
           /\ said = work \o <<Saying("passed")>>
  <2> QED BY <1>7, <1>1, <1>3 DEF said
<1> QED BY <1>2, <1>4, <1>5, <1>6, <1>7

-----------------------------------------------------------------------------
(* Types.                                                                  *)

\* A step of one round that leaves the remote to the lemmas below.
LEMMA RoundKeepsItsType ==
  ASSUME TypeOK, NEW r \in Rounds, StepOf(r)
  PROVE  rounds' \in [Rounds -> Round]
<1>1. rounds[r] \in Round /\ rounds \in [Rounds -> Round] /\ merged \in Commit
      /\ branch \subseteq Commit
  BY DEF TypeOK
<1>2. SUFFICES \E round \in Round : Becomes(r, round)
  BY <1>1 DEF Becomes
<1>3. 0 \in 0 .. PushAttempts - 1
  BY RoundAssumption
<1>4. <<Saying("failed")>> \in Seq(Event) /\ <<>> \in Seq(Event) /\ <<>> \in Commit
  BY SayingIsAnEvent DEF Commit
<1>5. ASSUME Over(r) PROVE \E round \in Round : Becomes(r, round)
  <2>1. NotStarted \in Round
    BY <1>3, <1>4 DEF NotStarted, Round
  <2>2. [NotStarted EXCEPT !.pc = "over", !.start = rounds[r].start] \in Round
    BY <1>1, <2>1 DEF Round
  <2> QED BY <1>5, <2>2 DEF Over
<1>6. ASSUME NEW pc \in {"agent", "viewing", "creating", "opened"}, Goes(r, pc)
      PROVE  \E round \in Round : Becomes(r, round)
  <2>1. [rounds[r] EXCEPT !.pc = pc] \in Round
    BY <1>1 DEF Round
  <2> QED BY <1>6, <2>1 DEF Goes
<1>7. ASSUME PushFails(r) PROVE \E round \in Round : Becomes(r, round)
  <2> DEFINE tried == rounds[r].attempts + 1
  <2>1. [rounds[r] EXCEPT !.pc = "verifying", !.attempts = 0, !.lost = TRUE] \in Round
    BY <1>1, <1>3 DEF Round
  <2>2. tried # PushAttempts => tried \in 0 .. PushAttempts - 1
    BY <1>1, RoundAssumption DEF Round
  <2>3. tried # PushAttempts => [rounds[r] EXCEPT !.attempts = tried] \in Round
    BY <1>1, <2>2 DEF Round
  <2> QED BY <1>7, <2>1, <2>3 DEF PushFails
<1>8. ASSUME NEW ruling, Rule(r, ruling) PROVE \E round \in Round : Becomes(r, round)
  <2>1. EventsForCompletion(rounds[r], ruling) \in Seq(Event)
    BY <1>1, CompletionEvents
  <2>2. [rounds[r] EXCEPT !.pc = "recording", !.agentFailed = FALSE, !.work = {},
                          !.lost = FALSE, !.cancelled = FALSE,
                          !.say = EventsForCompletion(rounds[r], ruling)] \in Round
    BY <1>1, <2>1 DEF Round
  <2> QED BY <1>8, <2>2 DEF Rule
<1>9. ASSUME NEW failed \in BOOLEAN, AgentStops(r, failed)
      PROVE  \E round \in Round : Becomes(r, round)
  <2>1. PICK left \in LeftBy(r) :
          Becomes(r, [rounds[r] EXCEPT !.pc = "committing", !.agentFailed = failed,
                                       !.head = left.head, !.dirty = left.dirty])
    BY <1>9 DEF AgentStops
  <2>2. left.head \in Commit /\ left.dirty \in BOOLEAN
    BY <1>1, AgentsLeaveCommits DEF Round
  <2>3. [rounds[r] EXCEPT !.pc = "committing", !.agentFailed = failed,
                          !.head = left.head, !.dirty = left.dirty] \in Round
    BY <1>1, <2>2 DEF Round
  <2> QED BY <2>1, <2>3
<1>10. CASE PinBase(r)
  <2>1. [rounds[r] EXCEPT !.pc = "pinned", !.base = merged] \in Round
    BY <1>1 DEF Round
  <2> QED BY <1>10, <2>1 DEF PinBase
<1>11. CASE PinTip(r)
  <2>1. \A tip \in branch : [rounds[r] EXCEPT !.pc = "starting", !.start = tip] \in Round
    BY <1>1 DEF Round
  <2> QED BY <1>11, <2>1 DEF PinTip
<1>12. CASE StartRound(r)
  <2>1. [rounds[r] EXCEPT !.pc = "provisioning", !.head = rounds[r].start] \in Round
    BY <1>1 DEF Round
  <2> QED BY <1>12, <1>5, <2>1 DEF StartRound
<1>13. CASE Provision(r)
  <2>1. [rounds[r] EXCEPT !.pc = "recording", !.say = <<Saying("failed")>>] \in Round
    BY <1>1, <1>4 DEF Round
  <2> QED BY <1>13, <1>6, <2>1 DEF Provision
<1>14. CASE CommitWork(r)
  <2> DEFINE tree == CommitAll(r)
             done == [rounds[r] EXCEPT !.head = tree.head, !.dirty = tree.dirty]
  <2>1. tree.head \in Commit /\ tree.dirty \in BOOLEAN
    BY <1>1, CommitAllCommits DEF Round
  <2> HIDE DEF tree
  <2>2. /\ [done EXCEPT !.pc = "pushing", !.work = {tree.head}] \in Round
        /\ [done EXCEPT !.pc = "verifying"] \in Round
        /\ [done EXCEPT !.pc = "verifying", !.lost = TRUE] \in Round
        /\ [rounds[r] EXCEPT !.pc = "verifying", !.lost = TRUE] \in Round
    BY <1>1, <2>1 DEF Round
  <2> QED BY <1>14, <2>2 DEF CommitWork, tree
<1>15. CASE PushLands(r)
  <2>1. [rounds[r] EXCEPT !.pc = "verifying", !.attempts = 0] \in Round
    BY <1>1, <1>3 DEF Round
  <2> QED BY <1>15, <2>1 DEF PushLands
<1>16. CASE RecordEvent(r)
  <2>1. rounds[r].say \in Seq(Event) /\ rounds[r].say # <<>>
    BY <1>1, <1>16 DEF Round, RecordEvent
  <2>2. Tail(rounds[r].say) \in Seq(Event)
    BY <2>1
  <2>3. [rounds[r] EXCEPT !.say = Tail(rounds[r].say)] \in Round
    BY <1>1, <2>2 DEF Round
  <2> QED BY <1>16, <2>3 DEF RecordEvent
<1>17. CASE Cancel(r)
  <2>1. [rounds[r] EXCEPT !.cancelled = TRUE] \in Round
    BY <1>1 DEF Round
  <2> QED BY <1>17, <2>1 DEF Cancel
<1>18. CASE Refused(r) \/ Killed(r) \/ NotDelivered(r) \/ RecordDelivery(r)
  BY <1>5, <1>18 DEF Refused, Killed, NotDelivered, RecordDelivery
<1>19. CASE Recorded(r) \/ ViewPullRequest(r) \/ CreatePullRequest(r)
  BY <1>5, <1>6, <1>19 DEF Recorded, ViewPullRequest, CreatePullRequest
<1>20. CASE PushReplyIsLost(r) \/ PushIsRefused(r)
  BY <1>7, <1>20 DEF PushReplyIsLost, PushIsRefused
<1>21. CASE NothingToVerify(r) \/ VerifyRules(r) \/ VerifyInterrupted(r) \/ VerifyCancelled(r)
  BY <1>8, <1>21 DEF NothingToVerify, VerifyRules, VerifyInterrupted, VerifyCancelled
<1>22. CASE AgentExits(r) \/ AgentCancelled(r)
  BY <1>9, <1>22 DEF AgentExits, AgentCancelled
<1> QED BY <1>10, <1>11, <1>12, <1>13, <1>14, <1>15, <1>16, <1>17, <1>18, <1>19, <1>20, <1>21,
           <1>22 DEF StepOf, RoundStep

\* Only the events of this round, and by one event at most.
LEMMA EventsKeepTheirType ==
  ASSUME TypeOK, NEW r \in Rounds, StepOf(r)
  PROVE  events' \in [Rounds -> Seq(Event)]
<1>1. events \in [Rounds -> Seq(Event)] /\ rounds[r] \in Round
  BY DEF TypeOK
<1>2. ASSUME NEW event \in Event, Send(r, event) PROVE events' \in [Rounds -> Seq(Event)]
  <2>1. Append(events[r], event) \in Seq(Event)
    BY <1>1
  <2> QED BY <1>1, <1>2, <2>1 DEF Send
<1>3. CASE StartRound(r)
  BY <1>1, <1>2, <1>3, SayingIsAnEvent DEF StartRound
<1>4. CASE ViewPullRequest(r) \/ RecordDelivery(r)
  BY <1>1, <1>2, <1>4, SayingIsAnEvent DEF ViewPullRequest, RecordDelivery
<1>5. CASE RecordEvent(r)
  <2>1. Head(rounds[r].say) \in Event
    BY <1>1, <1>5 DEF RecordEvent, Round
  <2> QED BY <1>2, <1>5, <2>1 DEF RecordEvent
<1>6. CASE UNCHANGED events
  BY <1>1, <1>6
<1> QED
  BY <1>3, <1>4, <1>5, <1>6
  DEF StepOf, RoundStep, PinBase, PinTip, Refused, Provision, AgentCancelled, AgentExits, AgentStops,
      CommitWork, PushLands, PushReplyIsLost, PushIsRefused, Push, NothingToVerify, VerifyRules,
      VerifyInterrupted, VerifyCancelled, Rule, Recorded, CreatePullRequest, NotDelivered, Killed,
      Cancel

\* A push publishes what it makes the tip; nothing else a round does moves the
\* branch.
LEMMA RemoteKeepsItsType ==
  ASSUME TypeOK, NEW r \in Rounds, StepOf(r)
  PROVE  /\ branch' \subseteq published' /\ published' \subseteq Commit
         /\ merged' \in Commit /\ pullRequest' \in {"none", "open", "merged"}
         /\ deleted' \in 0 .. MaxDeletions
<1>1. /\ branch \subseteq published /\ published \subseteq Commit /\ merged \in Commit
      /\ pullRequest \in {"none", "open", "merged"} /\ deleted \in 0 .. MaxDeletions
      /\ rounds[r].head \in Commit
  BY DEF TypeOK, Round
<1>2. CASE Push(r) /\ UNCHANGED <<merged, pullRequest, deleted>>
  BY <1>1, <1>2 DEF Push
<1>3. CASE UNCHANGED remote
  BY <1>1, <1>3 DEF remote
<1>4. CASE CreatePullRequest(r)
  BY <1>1, <1>4 DEF CreatePullRequest
<1> QED
  BY <1>2, <1>3, <1>4
  DEF StepOf, RoundStep, PinBase, PinTip, Refused, StartRound, Provision, AgentCancelled, AgentExits,
      AgentStops, CommitWork, PushLands, PushReplyIsLost, PushIsRefused, Push, NothingToVerify,
      VerifyRules, VerifyInterrupted, VerifyCancelled, Rule, RecordEvent, Recorded,
      ViewPullRequest, NotDelivered, RecordDelivery, Killed, Cancel

\* The trees a round's `verify` judged are trees it had.
LEMMA JudgedKeepsItsType ==
  ASSUME TypeOK, NEW r \in Rounds, StepOf(r)
  PROVE  judged' \in [Rounds -> SUBSET [head : Commit, dirty : BOOLEAN]]
<1>1. /\ judged \in [Rounds -> SUBSET [head : Commit, dirty : BOOLEAN]]
      /\ [head |-> rounds[r].head, dirty |-> rounds[r].dirty] \in [head : Commit, dirty : BOOLEAN]
  BY DEF TypeOK, Round
<1>2. CASE VerifyRules(r)
  BY <1>1, <1>2 DEF VerifyRules
<1>3. CASE UNCHANGED judged
  BY <1>1, <1>3
<1> QED
  BY <1>2, <1>3
  DEF StepOf, RoundStep, PinBase, PinTip, Refused, StartRound, Provision, AgentCancelled, AgentExits,
      AgentStops, CommitWork, PushLands, PushReplyIsLost, PushIsRefused, Push, NothingToVerify,
      VerifyInterrupted, VerifyCancelled, RecordEvent, Recorded, ViewPullRequest,
      CreatePullRequest, NotDelivered, RecordDelivery, Killed, Cancel

\* Every reachable state is of its type: no attempt beyond the last, no event
\* of another kind, and a tip that has been published.
THEOREM RoundTypes == Spec => []TypeOK
<1>1. Init => TypeOK
  <2> SUFFICES ASSUME Init PROVE TypeOK
    OBVIOUS
  <2>1. <<>> \in Commit /\ <<>> \in Seq(Event)
    BY DEF Commit
  <2>2. NotStarted \in Round
    BY <2>1, RoundAssumption DEF NotStarted, Round
  <2> QED BY <2>1, <2>2, RoundAssumption DEF Init, TypeOK
<1>2. TypeOK /\ [Next]_vars => TypeOK'
  <2> SUFFICES ASSUME TypeOK, [Next]_vars PROVE TypeOK'
    OBVIOUS
  <2>1. ASSUME NEW r \in Rounds, StepOf(r)
        PROVE  TypeOK'
    <3>1. rounds' \in [Rounds -> Round]
      BY <2>1, RoundKeepsItsType
    <3>2. events' \in [Rounds -> Seq(Event)]
      BY <2>1, EventsKeepTheirType
    <3>3. judged' \in [Rounds -> SUBSET [head : Commit, dirty : BOOLEAN]]
      BY <2>1, JudgedKeepsItsType
    <3>4. /\ branch' \subseteq published' /\ published' \subseteq Commit
          /\ merged' \in Commit /\ pullRequest' \in {"none", "open", "merged"}
          /\ deleted' \in 0 .. MaxDeletions
      BY <2>1, RemoteKeepsItsType
    <3> QED BY <3>1, <3>2, <3>3, <3>4 DEF TypeOK
  <2>2. CASE Merge
    BY <2>2 DEF Merge, TypeOK
  <2>3. CASE DeleteBranch
    BY <2>3, RoundAssumption DEF DeleteBranch, TypeOK
  <2>4. CASE UNCHANGED vars
    BY <2>4 DEF vars, remote, TypeOK
  <2> QED BY <2>1, <2>2, <2>3, <2>4 DEF Next, StepOf
<1> QED BY <1>1, <1>2, PTL DEF Spec

-----------------------------------------------------------------------------
(* Safety.                                                                 *)

\* What a round has said or is about to say.
Told(round, sent) == ToSet(sent) \cup ToSet(round.say)

\* The branch has had all there is in the checkout.
Kept(round, had) == ~ round.dirty /\ \E c \in had : IsPrefix(round.head, c)

\* Of one round that has sent `sent` and judged `trees`, of a branch that has
\* been at `had`.
Safe(round, sent, trees, had) ==
  /\ round.start \in had
  /\ round.pc \in Stoppable => Told(round, sent) = {} /\ trees = {}
  /\ round.pc \notin {"pushing", "verifying"} => round.work = {}
  /\ round.pc = "pushing" => ~ round.dirty /\ round.work = {round.head}
  /\ round.pc = "verifying" /\ ~ round.lost =>
       Kept(round, had) /\ round.work \subseteq had \cap {round.head}
  /\ \A e \in Told(round, sent) : e.kind = "committed" => e.commit \in had
  /\ \A e \in Told(round, sent) : e.kind = "passed" => Kept(round, had)
  /\ \A e, f \in Told(round, sent) : HasVerify /\ e.kind = "passed" /\ f.kind = "committed" =>
       trees = {[head |-> f.commit, dirty |-> FALSE]}

RoundsSafe ==
  /\ <<>> \in published /\ branch \subseteq published
  /\ \A tip, other \in branch : tip = other
  /\ \A r \in Rounds : Safe(rounds[r], events[r], judged[r], published)

\* What is true of a round stays true as the branch moves on.
LEMMA SafetyOutlivesPushes ==
  ASSUME NEW round, NEW sent, NEW trees, NEW had, NEW more, Safe(round, sent, trees, had),
         had \subseteq more
  PROVE  Safe(round, sent, trees, more)
<1>1. Kept(round, had) => Kept(round, more)
  BY DEF Kept
<1> QED BY <1>1 DEF Safe

\* One event more.
LEMMA SendingTellsOneMore ==
  ASSUME NEW sent \in Seq(Event), NEW event \in Event
  PROVE  ToSet(Append(sent, event)) = ToSet(sent) \cup {event}
<1> DEFINE more == Append(sent, event)
<1>1. /\ Len(sent) \in Nat /\ DOMAIN sent = 1 .. Len(sent)
      /\ DOMAIN more = 1 .. Len(sent) + 1
      /\ more[Len(sent) + 1] = event /\ \A i \in 1 .. Len(sent) : more[i] = sent[i]
  OBVIOUS
<1> HIDE DEF more
<1>2. \A e \in ToSet(more) : e \in ToSet(sent) \cup {event}
  BY <1>1 DEF ToSet
<1>3. \A e \in ToSet(sent) \cup {event} : e \in ToSet(more)
  BY <1>1 DEF ToSet
<1> QED BY <1>2, <1>3 DEF more

LEMMA NothingIsTold ==
  ToSet(<<>>) = {}
BY DEF ToSet

\* A round that is over, with one event sent or none, has told no more of
\* commits and passes, and has nothing left to lose.
LEMMA OverIsSafe ==
  ASSUME NEW round \in Round, NEW sent \in Seq(Event), NEW trees, NEW had, <<>> \in had,
         Safe(round, sent, trees, had), NEW after,
         after \in {sent, Append(sent, Saying("failed")), Append(sent, Saying("pullRequest"))}
  PROVE  Safe([NotStarted EXCEPT !.pc = "over", !.start = round.start], after, trees, had)
<1> DEFINE over == [NotStarted EXCEPT !.pc = "over", !.start = round.start]
<1>1. /\ over.pc = "over" /\ over.start = round.start /\ over.say = <<>> /\ over.work = {}
      /\ over.dirty = FALSE /\ over.head = <<>>
  BY DEF NotStarted
<1> HIDE DEF over
<1>2. Kept(over, had)
  <2>1. <<>> \in Commit
    BY DEF Commit
  <2>2. IsPrefix(<<>>, <<>>)
    BY <2>1, PrefixFacts
  <2> QED BY <1>1, <2>2 DEF Kept
<1>3. \A e \in Told(over, after) : e \in Told(round, sent) \/ e.kind \in {"failed", "pullRequest"}
  <2>1. /\ Saying("failed") \in Event /\ Saying("failed").kind = "failed"
        /\ Saying("pullRequest") \in Event /\ Saying("pullRequest").kind = "pullRequest"
    BY SayingIsAnEvent
  <2>2. ToSet(after) \subseteq ToSet(sent) \cup {Saying("failed"), Saying("pullRequest")}
    <3>1. /\ ToSet(Append(sent, Saying("failed"))) = ToSet(sent) \cup {Saying("failed")}
          /\ ToSet(Append(sent, Saying("pullRequest"))) = ToSet(sent) \cup {Saying("pullRequest")}
      BY <2>1, SendingTellsOneMore
    <3>2. CASE after = sent
      BY <3>2
    <3>3. CASE after = Append(sent, Saying("failed"))
      BY <3>1, <3>3
    <3>4. CASE after = Append(sent, Saying("pullRequest"))
      BY <3>1, <3>4
    <3> QED BY <3>2, <3>3, <3>4
  <2> QED BY <1>1, <2>1, <2>2, NothingIsTold DEF Told
<1>4. over.pc \notin Stoppable /\ over.pc \notin {"pushing", "verifying"}
  BY <1>1 DEF Stoppable
<1>5. Safe(over, after, trees, had)
  BY <1>1, <1>2, <1>3, <1>4 DEF Safe
<1> QED BY <1>5 DEF over

\* Until it pushes a round has nothing to show.
LEMMA WorkingIsSafe ==
  ASSUME NEW round \in Round, NEW next \in Round, NEW sent, NEW trees, NEW had,
         Safe(round, sent, trees, had), round.pc \in Stoppable,
         next.say = round.say, next.start \in had, next.work = {},
         next.pc \notin {"pushing", "verifying"}
  PROVE  Safe(next, sent, trees, had)
<1>1. Told(next, sent) = {} /\ trees = {}
  BY DEF Told, Safe
<1> QED BY <1>1 DEF Safe

\* A round that knows it lost its work claims nothing of it.
LEMMA LosingIsSafe ==
  ASSUME NEW round \in Round, NEW next \in Round, NEW sent, NEW trees, NEW had,
         Safe(round, sent, trees, had), round.pc \in Stoppable,
         next.say = round.say, next.start = round.start, next.pc = "verifying", next.lost
  PROVE  Safe(next, sent, trees, had)
<1>1. Told(next, sent) = {} /\ trees = {}
  BY DEF Told, Safe
<1> QED BY <1>1 DEF Safe

\* The delivery leaves the checkout as it was judged.
LEMMA DeliveringIsSafe ==
  ASSUME NEW round \in Round, NEW next \in Round, NEW sent, NEW trees, NEW had,
         Safe(round, sent, trees, had), round.pc \notin Stoppable,
         next.say = round.say, next.start = round.start, next.head = round.head,
         next.dirty = round.dirty, next.work = round.work,
         next.pc \in {"viewing", "creating", "opened"}
  PROVE  Safe(next, sent, trees, had)
<1>1. Told(next, sent) = Told(round, sent) /\ (Kept(next, had) <=> Kept(round, had))
  BY DEF Told, Kept
<1>2. next.pc \notin Stoppable /\ round.pc \notin {"pushing", "verifying"}
  BY DEF Stoppable
<1> QED BY <1>1, <1>2 DEF Safe

\* Neither the token nor the attempts are what a round is judged by.
LEMMA TryingOnIsSafe ==
  ASSUME NEW round \in Round, NEW sent, NEW trees, NEW had, Safe(round, sent, trees, had),
         NEW next, \/ next = [round EXCEPT !.cancelled = TRUE]
                   \/ \E tried : next = [round EXCEPT !.attempts = tried]
  PROVE  Safe(next, sent, trees, had)
<1>1. /\ next.pc = round.pc /\ next.start = round.start /\ next.head = round.head
      /\ next.dirty = round.dirty /\ next.work = round.work /\ next.lost = round.lost
      /\ next.say = round.say
  BY DEF Round
<1>2. Told(next, sent) = Told(round, sent) /\ (Kept(next, had) <=> Kept(round, had))
  BY <1>1 DEF Told, Kept
<1> QED BY <1>1, <1>2 DEF Safe

\* The ruling: what a round says at its end is about what it preserved, and it
\* says it passed only if it preserved all and was judged on it.
LEMMA RulingIsSafe ==
  ASSUME NEW round \in Round, NEW sent, NEW trees, NEW had, Safe(round, sent, trees, had),
         round.pc = "verifying", NEW ruling, NEW next \in Round, NEW judgement,
         next.pc = "recording", next.start = round.start, next.head = round.head,
         next.dirty = round.dirty, next.work = {},
         next.say = EventsForCompletion(round, ruling),
         \/ (round.agentFailed \/ ~ HasVerify) /\ judgement = trees
         \/ judgement = trees \cup {[head |-> round.head, dirty |-> round.dirty]}
         \/ ruling = "interrupted" /\ judgement = trees
  PROVE  Safe(next, sent, judgement, had)
<1>1. Told(round, sent) = {} /\ trees = {} /\ round.start \in had
  BY DEF Safe, Stoppable
<1>2. \A e \in Told(next, sent) :
        /\ e.kind = "committed" => ~ round.lost /\ e.commit \in round.work
        /\ e.kind = "passed" => ~ round.lost /\ ~ round.agentFailed /\ ruling # "interrupted"
  <2>1. Told(next, sent) = ToSet(next.say)
    BY <1>1 DEF Told
  <2> QED BY <2>1, CompletionEvents DEF ToSet
<1>3. ~ round.lost => /\ Kept(round, had) /\ ~ round.dirty
                      /\ round.work \subseteq had \cap {round.head}
  BY DEF Safe, Kept
<1>4. Kept(round, had) <=> Kept(next, had)
  BY DEF Kept
<1>5. \A e \in Told(next, sent) :
        /\ e.kind = "committed" => e.commit \in had /\ e.commit = round.head /\ ~ round.dirty
        /\ e.kind = "passed" => Kept(next, had)
  BY <1>2, <1>3, <1>4
<1>6. \A e, f \in Told(next, sent) : HasVerify /\ e.kind = "passed" /\ f.kind = "committed" =>
        judgement = {[head |-> f.commit, dirty |-> FALSE]}
  <2> SUFFICES ASSUME NEW e \in Told(next, sent), NEW f \in Told(next, sent), HasVerify,
                      e.kind = "passed", f.kind = "committed"
               PROVE  judgement = {[head |-> f.commit, dirty |-> FALSE]}
    OBVIOUS
  <2>1. judgement = {[head |-> round.head, dirty |-> round.dirty]}
    BY <1>1, <1>2
  <2>2. f.commit = round.head /\ round.dirty = FALSE
    BY <1>5 DEF Round
  <2> QED BY <2>1, <2>2
<1> QED BY <1>1, <1>5, <1>6 DEF Safe, Stoppable

\* The first of the events to send, sent.
LEMMA RecordingIsSafe ==
  ASSUME NEW round \in Round, NEW sent \in Seq(Event), NEW trees, NEW had,
         Safe(round, sent, trees, had), round.pc = "recording", round.say # <<>>,
         NEW next, next = [round EXCEPT !.say = Tail(@)]
  PROVE  Safe(next, Append(sent, Head(round.say)), trees, had)
<1> DEFINE after == Append(sent, Head(round.say))
<1>1. round.say \in Seq(Event) /\ round.say # <<>>
  BY DEF Round
<1>2. Head(round.say) \in Event /\ Head(round.say) \in ToSet(round.say)
      /\ ToSet(Tail(round.say)) \subseteq ToSet(round.say)
  BY <1>1 DEF ToSet
<1>3. /\ next.pc = "recording" /\ next.start = round.start /\ next.head = round.head
      /\ next.dirty = round.dirty /\ next.work = round.work /\ next.say = Tail(round.say)
  BY DEF Round
<1>4. Told(next, after) \subseteq Told(round, sent)
  BY <1>2, <1>3, SendingTellsOneMore DEF Told
<1>5. Kept(next, had) <=> Kept(round, had)
  BY <1>3 DEF Kept
<1> HIDE DEF after
<1>6. Safe(next, after, trees, had)
  BY <1>3, <1>4, <1>5 DEF Safe, Stoppable
<1> QED BY <1>6 DEF after

\* Every step of a round leaves that round safe.
LEMMA StepIsSafe ==
  ASSUME TypeOK, TypeOK', RoundsSafe, NEW r \in Rounds,
         StepOf(r)
  PROVE  Safe(rounds'[r], events'[r], judged'[r], published')
<1> DEFINE round == rounds[r]
           next == rounds'[r]
           SafeNow(n) == Safe(n, events[r], judged[r], published)
<1>1. /\ round \in Round /\ next \in Round /\ events[r] \in Seq(Event)
      /\ SafeNow(round) /\ <<>> \in published /\ branch \subseteq published
      /\ round.start \in published /\ published \subseteq Commit
  BY DEF TypeOK, RoundsSafe, Safe
<1>2. ASSUME NEW n, Becomes(r, n) PROVE next = n
  BY <1>2 DEF Becomes, TypeOK
<1>3. ASSUME UNCHANGED <<remote, events, judged>>, SafeNow(next)
      PROVE  Safe(rounds'[r], events'[r], judged'[r], published')
  BY <1>3 DEF remote
<1>4. ASSUME NEW pc \in {"viewing", "creating", "opened"}, Goes(r, pc), round.pc \notin Stoppable
      PROVE  SafeNow(next)
  <2>1. next = [round EXCEPT !.pc = pc]
    BY <1>4, <1>2 DEF Goes
  <2>2. next.pc = pc /\ next.say = round.say /\ next.start = round.start
        /\ next.work = round.work /\ next.head = round.head /\ next.dirty = round.dirty
    BY <1>1, <2>1 DEF Round
  <2>3. next.pc \in {"viewing", "creating", "opened"}
    BY <1>4, <2>2
  <2> HIDE DEF next, round
  <2> QED BY <1>1, <1>4, <2>2, <2>3, DeliveringIsSafe
<1>5. ASSUME Over(r), UNCHANGED judged, UNCHANGED published,
             UNCHANGED events \/ Send(r, Saying("failed")) \/ Send(r, Saying("pullRequest"))
      PROVE  Safe(rounds'[r], events'[r], judged'[r], published')
  <2>1. next = [NotStarted EXCEPT !.pc = "over", !.start = round.start]
    BY <1>5, <1>2 DEF Over
  <2>2. events'[r] \in {events[r], Append(events[r], Saying("failed")),
                        Append(events[r], Saying("pullRequest"))}
    BY <1>5 DEF Send, TypeOK
  <2> HIDE DEF next, round
  <2>3. Safe(next, events'[r], judged[r], published)
    BY <1>1, <2>1, <2>2, OverIsSafe
  <2> QED BY <1>5, <2>3 DEF next
<1>6. ASSUME PushFails(r), round.pc = "pushing" PROVE SafeNow(next)
  <2>1. CASE next = [round EXCEPT !.attempts = round.attempts + 1]
    BY <1>1, <2>1, TryingOnIsSafe
  <2>2. CASE next = [round EXCEPT !.pc = "verifying", !.attempts = 0, !.lost = TRUE]
    <3>1. next.pc = "verifying" /\ next.lost /\ next.say = round.say
          /\ next.start = round.start /\ next.head = round.head /\ next.dirty = round.dirty
      BY <1>1, <2>2 DEF Round
    <3>2. round.pc \in Stoppable
      BY <1>6 DEF Stoppable
    <3> HIDE DEF next, round
    <3> QED BY <1>1, <3>1, <3>2, LosingIsSafe
  <2> QED BY <1>6, <1>2, <2>1, <2>2 DEF PushFails
<1>7. ASSUME NEW failed, AgentStops(r, failed) PROVE SafeNow(next)
  <2>1. PICK left \in LeftBy(r) :
          next = [round EXCEPT !.pc = "committing", !.agentFailed = failed,
                               !.head = left.head, !.dirty = left.dirty]
    BY <1>7, <1>2 DEF AgentStops
  <2>2. next.pc \notin {"pushing", "verifying"} /\ next.say = round.say /\ next.start = round.start
        /\ next.work = round.work
    BY <1>1, <2>1 DEF Round
  <2>3. round.pc \in Stoppable /\ round.work = {}
    BY <1>1, <1>7 DEF AgentStops, At, Safe, Stoppable
  <2> HIDE DEF next, round
  <2> QED BY <1>1, <2>2, <2>3, WorkingIsSafe
<1>8. CASE PinBase(r) \/ PinTip(r) \/ (StartRound(r) /\ UNCHANGED events /\ ~ Over(r))
  <2>1. UNCHANGED <<remote, events, judged>>
    BY <1>8 DEF PinBase, PinTip, StartRound
  <2>2. round.pc \in Stoppable /\ round.work = {}
    BY <1>1, <1>8 DEF PinBase, PinTip, StartRound, At, Safe, Stoppable
  <2>3. CASE PinBase(r)
    <3>1. next = [round EXCEPT !.pc = "pinned", !.base = merged]
      BY <1>2, <2>3 DEF PinBase
    <3>2. next.pc \notin {"pushing", "verifying"} /\ next.say = round.say /\ next.work = round.work
          /\ next.start = round.start
      BY <1>1, <3>1 DEF Round
    <3> HIDE DEF next, round
    <3>3. SafeNow(next)
      BY <1>1, <2>2, <3>2, WorkingIsSafe
    <3> QED BY <1>3, <2>1, <3>3
  <2>4. CASE PinTip(r)
    <3>1. PICK tip \in branch : next = [round EXCEPT !.pc = "starting", !.start = tip]
      BY <1>2, <2>4 DEF PinTip
    <3>2. next.pc \notin {"pushing", "verifying"} /\ next.say = round.say /\ next.work = round.work
          /\ next.start \in published
      BY <1>1, <3>1 DEF Round
    <3> HIDE DEF next, round
    <3>3. SafeNow(next)
      BY <1>1, <2>2, <3>2, WorkingIsSafe
    <3> QED BY <1>3, <2>1, <3>3
  <2>5. CASE StartRound(r) /\ ~ Over(r)
    <3>1. next = [round EXCEPT !.pc = "provisioning", !.head = round.start]
      BY <1>2, <2>5 DEF StartRound
    <3>2. next.pc \notin {"pushing", "verifying"} /\ next.say = round.say /\ next.work = round.work
          /\ next.start = round.start
      BY <1>1, <3>1 DEF Round
    <3> HIDE DEF next, round
    <3>3. SafeNow(next)
      BY <1>1, <2>2, <3>2, WorkingIsSafe
    <3> QED BY <1>3, <2>1, <3>3
  <2> QED BY <1>8, <2>3, <2>4, <2>5
<1>9. CASE StartRound(r) /\ Over(r)
  BY <1>9, <1>5 DEF StartRound, remote
<1>10. CASE Provision(r)
  <2>1. round.pc = "provisioning" /\ round.pc \in Stoppable
    BY <1>10 DEF Provision, At, Stoppable
  <2>2. CASE Goes(r, "agent")
    <3>1. next = [round EXCEPT !.pc = "agent"]
      BY <1>2, <2>2 DEF Goes
    <3>2. next.pc \notin {"pushing", "verifying"} /\ next.say = round.say
          /\ next.work = {} /\ next.start \in published
      BY <1>1, <2>1, <3>1 DEF Round, Safe
    <3> HIDE DEF next, round
    <3>3. SafeNow(next)
      BY <1>1, <2>1, <3>2, WorkingIsSafe
    <3> QED BY <1>10, <1>3, <3>3 DEF Provision
  <2>3. CASE Becomes(r, [round EXCEPT !.pc = "recording", !.say = <<Saying("failed")>>])
    <3>1. next.pc = "recording" /\ next.say = <<Saying("failed")>> /\ next.start = round.start
          /\ next.work = {}
      BY <1>1, <1>2, <2>1, <2>3 DEF Round, Safe
    <3>2. Told(round, events[r]) = {} /\ ToSet(next.say) = {Saying("failed")}
      BY <1>1, <2>1, <3>1 DEF Safe, ToSet
    <3>3. \A e \in Told(next, events[r]) : e.kind = "failed"
      BY <3>2, SayingIsAnEvent DEF Told
    <3> HIDE DEF next, round
    <3>4. SafeNow(next)
      BY <1>1, <3>1, <3>3 DEF Safe, Stoppable
    <3> QED BY <1>10, <1>3, <3>4 DEF Provision
  <2> QED BY <1>10, <2>2, <2>3 DEF Provision
<1>11. CASE CommitWork(r)
  <2> DEFINE tree == CommitAll(r)
             done == [round EXCEPT !.head = tree.head, !.dirty = tree.dirty]
  <2>1. tree.head \in Commit /\ tree.dirty = FALSE
    BY <1>1, CommitAllCommits DEF Round
  <2>2. round.pc = "committing" /\ round.pc \in Stoppable /\ round.work = {}
        /\ Told(round, events[r]) = {} /\ judged[r] = {}
    BY <1>1, <1>11 DEF CommitWork, At, Safe, Stoppable
  <2> HIDE DEF tree
  <2>3. CASE next = [done EXCEPT !.pc = "pushing", !.work = {tree.head}]
    <3>1. next.pc = "pushing" /\ ~ next.dirty /\ next.work = {next.head}
          /\ next.start = round.start /\ next.say = round.say
      BY <1>1, <2>1, <2>3 DEF Round
    <3>2. Told(next, events[r]) = {}
      BY <2>2, <3>1 DEF Told
    <3> HIDE DEF next, round
    <3> QED BY <1>1, <1>11, <1>3, <2>2, <3>1, <3>2 DEF CommitWork, Safe
  <2>4. CASE next = [done EXCEPT !.pc = "verifying"] /\ ~ IsAheadOf(tree.head, round.start)
    <3>1. next.pc = "verifying" /\ ~ next.dirty /\ next.work = {} /\ next.head = tree.head
          /\ next.start = round.start /\ next.say = round.say
      BY <1>1, <2>1, <2>2, <2>4 DEF Round
    <3>2. Told(next, events[r]) = {} /\ Kept(next, published)
      BY <1>1, <2>2, <2>4, <3>1 DEF Told, Kept, IsAheadOf
    <3> HIDE DEF next, round
    <3> QED BY <1>1, <1>11, <1>3, <2>2, <3>1, <3>2 DEF CommitWork, Safe
  <2>5. CASE \/ next = [round EXCEPT !.pc = "verifying", !.lost = TRUE]
             \/ next = [done EXCEPT !.pc = "verifying", !.lost = TRUE]
    <3>1. next.pc = "verifying" /\ next.lost /\ next.say = round.say
          /\ next.start = round.start
      BY <1>1, <2>1, <2>5 DEF Round
    <3>2. round.pc \in Stoppable
      BY <2>2
    <3> HIDE DEF next, round
    <3>3. SafeNow(next)
      BY <1>1, <3>1, <3>2, LosingIsSafe
    <3> QED BY <1>11, <1>3, <3>3 DEF CommitWork
  <2> QED BY <1>11, <1>2, <2>3, <2>4, <2>5 DEF CommitWork, tree
<1>12. CASE PushLands(r)
  <2>1. next = [round EXCEPT !.pc = "verifying", !.attempts = 0]
    BY <1>12, <1>2 DEF PushLands
  <2>2. /\ round.pc = "pushing" /\ ~ round.dirty /\ round.work = {round.head}
        /\ Told(round, events[r]) = {} /\ judged[r] = {} /\ round.head \in Commit
    BY <1>1, <1>12 DEF PushLands, At, Safe, Stoppable, Round
  <2>3. /\ next.pc = "verifying" /\ ~ next.dirty /\ next.work = {next.head}
        /\ next.head = round.head /\ next.start = round.start /\ next.say = round.say
    BY <1>1, <2>1, <2>2 DEF Round
  <2>4. published' = published \cup {round.head} /\ UNCHANGED <<events, judged>>
    BY <1>12 DEF PushLands, Push
  <2>5. Kept(next, published') /\ Told(next, events[r]) = {}
    BY <2>2, <2>3, <2>4, PrefixFacts DEF Kept, Told
  <2> HIDE DEF next, round
  <2>6. Safe(next, events[r], judged[r], published')
    BY <1>1, <2>2, <2>3, <2>4, <2>5 DEF Safe
  <2> QED BY <2>4, <2>6 DEF next
<1>13. CASE PushReplyIsLost(r) \/ PushIsRefused(r)
  <2>1. round.pc = "pushing" /\ PushFails(r)
    BY <1>13 DEF PushReplyIsLost, PushIsRefused, At
  <2>2. published \subseteq published' /\ UNCHANGED <<events, judged>>
    BY <1>13 DEF PushReplyIsLost, PushIsRefused, Push, remote
  <2>3. SafeNow(next)
    BY <1>6, <2>1
  <2> HIDE DEF next
  <2>4. Safe(next, events[r], judged[r], published')
    BY <2>2, <2>3, SafetyOutlivesPushes
  <2> QED BY <2>2, <2>4 DEF next
<1>14. ASSUME NEW ruling, Rule(r, ruling), At(r, "verifying"),
             \/ (round.agentFailed \/ ~ HasVerify) /\ judged'[r] = judged[r]
             \/ judged'[r] = judged[r] \cup {[head |-> round.head, dirty |-> round.dirty]}
             \/ ruling = "interrupted" /\ judged'[r] = judged[r]
      PROVE  Safe(rounds'[r], events'[r], judged'[r], published')
  <2>1. /\ next.pc = "recording" /\ next.start = round.start /\ next.head = round.head
        /\ next.dirty = round.dirty /\ next.work = {}
        /\ next.say = EventsForCompletion(round, ruling)
    BY <1>1, <1>14, <1>2 DEF Rule, Round
  <2>2. round.pc = "verifying" /\ UNCHANGED events /\ UNCHANGED published
    BY <1>14 DEF Rule, At, remote
  <2> HIDE DEF next, round
  <2>3. Safe(next, events[r], judged'[r], published)
    BY <1>1, <1>14, <2>1, <2>2, RulingIsSafe DEF round
  <2> QED BY <2>2, <2>3 DEF next
<1>15. CASE NothingToVerify(r)
  BY <1>14, <1>15 DEF NothingToVerify
<1>16. CASE VerifyRules(r)
  <2>1. judged'[r] = judged[r] \cup {[head |-> round.head, dirty |-> round.dirty]}
    BY <1>16 DEF VerifyRules, TypeOK
  <2> QED BY <1>14, <1>16, <2>1 DEF VerifyRules
<1>17. CASE VerifyInterrupted(r) \/ VerifyCancelled(r)
  BY <1>14, <1>17 DEF VerifyInterrupted, VerifyCancelled
<1>18. CASE RecordEvent(r)
  <2>1. next = [round EXCEPT !.say = Tail(@)]
    BY <1>18, <1>2 DEF RecordEvent
  <2>2. round.pc = "recording" /\ round.say # <<>> /\ UNCHANGED judged /\ UNCHANGED published
        /\ events'[r] = Append(events[r], Head(round.say))
    BY <1>18 DEF RecordEvent, At, remote, Send, TypeOK
  <2>3. Safe(next, Append(events[r], Head(round.say)), judged[r], published)
    BY <1>1, <2>1, <2>2, RecordingIsSafe
  <2> HIDE DEF next, round
  <2> QED BY <2>2, <2>3 DEF next
<1>19. CASE Recorded(r)
  <2>1. round.pc = "recording" /\ round.pc \notin Stoppable /\ UNCHANGED <<remote, events, judged>>
    BY <1>19 DEF Recorded, At, Stoppable
  <2>2. CASE Goes(r, "viewing")
    BY <1>4, <1>3, <2>1, <2>2
  <2>3. CASE Over(r)
    BY <1>5, <2>1, <2>3 DEF remote
  <2> QED BY <1>19, <2>2, <2>3 DEF Recorded
<1>20. CASE ViewPullRequest(r)
  <2>1. round.pc = "viewing" /\ round.pc \notin Stoppable /\ UNCHANGED <<remote, judged>>
    BY <1>20 DEF ViewPullRequest, At, Stoppable
  <2>2. CASE Goes(r, "creating") /\ UNCHANGED events
    BY <1>4, <1>3, <2>1, <2>2
  <2>3. CASE Over(r) /\ Send(r, Saying("pullRequest"))
    BY <1>5, <2>1, <2>3 DEF remote
  <2> QED BY <1>20, <2>2, <2>3 DEF ViewPullRequest
<1>21. CASE CreatePullRequest(r)
  <2>1. round.pc = "creating" /\ round.pc \notin Stoppable /\ Goes(r, "opened")
        /\ UNCHANGED <<published, events, judged>>
    BY <1>21 DEF CreatePullRequest, At, Stoppable
  <2>2. SafeNow(next)
    BY <1>4, <2>1
  <2> QED BY <2>1, <2>2
<1>22. CASE RecordDelivery(r) \/ NotDelivered(r) \/ Killed(r) \/ Refused(r)
  BY <1>22, <1>5 DEF RecordDelivery, NotDelivered, Killed, Refused, remote
<1>23. CASE Cancel(r)
  <2>1. next = [round EXCEPT !.cancelled = TRUE]
    BY <1>23, <1>2 DEF Cancel
  <2>2. SafeNow(next)
    BY <1>1, <2>1, TryingOnIsSafe
  <2> QED BY <1>23, <1>3, <2>2 DEF Cancel
<1>24. CASE AgentExits(r) \/ AgentCancelled(r)
  <2>1. PICK failed : AgentStops(r, failed)
    BY <1>24 DEF AgentExits, AgentCancelled
  <2>2. UNCHANGED <<remote, events, judged>>
    BY <2>1 DEF AgentStops
  <2> QED BY <1>7, <1>3, <2>1, <2>2
<1>25. StartRound(r) => Over(r) \/ (UNCHANGED events /\ ~ Over(r))
  BY DEF StartRound
<1> HIDE DEF round, next
<1> QED BY <1>8, <1>9, <1>10, <1>11, <1>12, <1>13, <1>15, <1>16, <1>17, <1>18, <1>19, <1>20, <1>21,
           <1>22, <1>23, <1>24, <1>25 DEF StepOf, RoundStep

\* A round moves the branch by pushing, and only forward.
LEMMA BranchMovesForward ==
  ASSUME NEW r \in Rounds, StepOf(r)
  PROVE  /\ published \subseteq published'
         /\ \/ branch' = branch
            \/ \E new : branch' = {new} /\ \A old \in branch : IsPrefix(old, new)
<1>1. CASE FastForwards(r) /\ Push(r)
  BY <1>1 DEF FastForwards, Push
<1>2. CASE UNCHANGED <<branch, published>>
  BY <1>2
<1> QED
  BY <1>1, <1>2
  DEF StepOf, RoundStep, PinBase, PinTip, Refused, StartRound, Provision, AgentCancelled, AgentExits,
      AgentStops, CommitWork, PushLands, PushReplyIsLost, PushIsRefused, NothingToVerify,
      VerifyRules, VerifyInterrupted, VerifyCancelled, Rule, RecordEvent, Recorded,
      ViewPullRequest, CreatePullRequest, NotDelivered, RecordDelivery, Killed, Cancel, remote

\* A step of one round leaves the others alone.
LEMMA OthersAreLeftAlone ==
  ASSUME TypeOK, NEW r \in Rounds, NEW s \in Rounds \ {r},
         StepOf(r)
  PROVE  rounds'[s] = rounds[s] /\ events'[s] = events[s] /\ judged'[s] = judged[s]
<1>1. rounds \in [Rounds -> Round] /\ events \in [Rounds -> Seq(Event)]
      /\ judged \in [Rounds -> SUBSET [head : Commit, dirty : BOOLEAN]]
  BY DEF TypeOK
<1>2. \A n : Becomes(r, n) => rounds'[s] = rounds[s]
  BY <1>1 DEF Becomes
<1>3. \A e : Send(r, e) => events'[s] = events[s]
  BY <1>1 DEF Send
<1>4. rounds'[s] = rounds[s]
  <2>1. (\A pc : Goes(r, pc) => rounds'[s] = rounds[s]) /\ (Over(r) => rounds'[s] = rounds[s])
    BY <1>2 DEF Goes, Over
  <2>2. PushFails(r) => rounds'[s] = rounds[s]
    BY <1>2 DEF PushFails
  <2>3. \A ruling : Rule(r, ruling) => rounds'[s] = rounds[s]
    BY <1>2 DEF Rule
  <2>4. CommitWork(r) => rounds'[s] = rounds[s]
    BY <1>2 DEF CommitWork
  <2>5. \A failed : AgentStops(r, failed) => rounds'[s] = rounds[s]
    BY <1>2 DEF AgentStops
  <2> QED
    BY <1>2, <2>1, <2>2, <2>3, <2>4, <2>5
    DEF StepOf, RoundStep, PinBase, PinTip, Refused, StartRound, Provision, AgentCancelled, AgentExits,
        PushLands, PushReplyIsLost, PushIsRefused, NothingToVerify, VerifyRules,
        VerifyInterrupted, VerifyCancelled, RecordEvent, Recorded, ViewPullRequest,
        CreatePullRequest, NotDelivered, RecordDelivery, Killed, Cancel
<1>5. events'[s] = events[s]
  BY <1>3
  DEF StepOf, RoundStep, PinBase, PinTip, Refused, StartRound, Provision, AgentCancelled, AgentExits,
      AgentStops, CommitWork, PushLands, PushReplyIsLost, PushIsRefused, Push, NothingToVerify,
      VerifyRules, VerifyInterrupted, VerifyCancelled, Rule, RecordEvent, Recorded,
      ViewPullRequest, CreatePullRequest, NotDelivered, RecordDelivery, Killed, Cancel
<1>6. judged'[s] = judged[s]
  BY <1>1
  DEF StepOf, RoundStep, PinBase, PinTip, Refused, StartRound, Provision, AgentCancelled, AgentExits,
      AgentStops, CommitWork, PushLands, PushReplyIsLost, PushIsRefused, Push, NothingToVerify,
      VerifyRules, VerifyInterrupted, VerifyCancelled, Rule, RecordEvent, Recorded,
      ViewPullRequest, CreatePullRequest, NotDelivered, RecordDelivery, Killed, Cancel
<1> QED BY <1>4, <1>5, <1>6

THEOREM RoundsStaySafe == Spec => []RoundsSafe
<1>1. Init => RoundsSafe
  <2> SUFFICES ASSUME Init PROVE RoundsSafe
    OBVIOUS
  <2>1. ASSUME NEW r \in Rounds
        PROVE  Safe(rounds[r], events[r], judged[r], published)
    <3>1. rounds[r] = NotStarted /\ events[r] = <<>> /\ judged[r] = {} /\ published = {<<>>}
      BY DEF Init
    <3>2. NotStarted.pc = "cloning" /\ NotStarted.start = <<>> /\ NotStarted.work = {}
          /\ NotStarted.say = <<>>
      BY DEF NotStarted
    <3>3. Told(NotStarted, <<>>) = {}
      BY <3>2, NothingIsTold DEF Told
    <3>4. Safe(NotStarted, <<>>, {}, {<<>>})
      BY <3>2, <3>3 DEF Safe
    <3> QED BY <3>1, <3>4
  <2> QED BY <2>1 DEF Init, RoundsSafe
<1>2. TypeOK /\ TypeOK' /\ RoundsSafe /\ [Next]_vars => RoundsSafe'
  <2> SUFFICES ASSUME TypeOK, TypeOK', RoundsSafe, [Next]_vars PROVE RoundsSafe'
    OBVIOUS
  <2>1. branch' \subseteq published'
    BY DEF TypeOK
  <2>2. ASSUME NEW r \in Rounds, StepOf(r)
        PROVE  RoundsSafe'
    <3>1. Safe(rounds'[r], events'[r], judged'[r], published')
      BY <2>2, StepIsSafe
    <3>2. ASSUME NEW s \in Rounds \ {r}
          PROVE  Safe(rounds'[s], events'[s], judged'[s], published')
      <4>1. /\ rounds'[s] = rounds[s] /\ events'[s] = events[s] /\ judged'[s] = judged[s]
            /\ published \subseteq published'
        BY <2>2, OthersAreLeftAlone, BranchMovesForward
      <4>2. Safe(rounds[s], events[s], judged[s], published)
        BY DEF RoundsSafe
      <4>3. Safe(rounds[s], events[s], judged[s], published')
        BY <4>1, <4>2, SafetyOutlivesPushes
      <4> QED BY <4>1, <4>3
    <3>3. <<>> \in published' /\ \A tip, other \in branch' : tip = other
      BY <2>2, BranchMovesForward DEF RoundsSafe
    <3> QED BY <2>1, <3>1, <3>2, <3>3 DEF RoundsSafe
  <2>3. CASE Merge \/ DeleteBranch \/ UNCHANGED vars
    <3>1. UNCHANGED <<rounds, events, judged, published>> /\ branch' \subseteq branch
      BY <2>3 DEF Merge, DeleteBranch, vars, remote
    <3> QED BY <2>1, <3>1 DEF RoundsSafe
  <2> QED BY <2>2, <2>3 DEF Next, StepOf
<1> QED BY <1>1, <1>2, RoundTypes, PTL DEF Spec

\* What a round says it committed has been on the job's branch, at any number
\* of attempts, replies lost, and rounds that met on it.
THEOREM RecordedIsPublished == Spec => []RecordedWorkIsPublished
<1>1. RoundsSafe => RecordedWorkIsPublished
  BY DEF RoundsSafe, Safe, Told, ToSet, RecordedWorkIsPublished, Said
<1> QED BY <1>1, RoundsStaySafe, PTL

\* A round that passed has left nothing in its checkout that the branch has not
\* had.
THEOREM PassedLoseNothing == Spec => []PassedRoundsLoseNothing
<1>1. RoundsSafe => PassedRoundsLoseNothing
  <2> SUFFICES ASSUME RoundsSafe, NEW r \in Rounds, Said(r, "passed") # {}
               PROVE  ~ rounds[r].dirty /\ \E c \in published : IsPrefix(rounds[r].head, c)
    BY DEF PassedRoundsLoseNothing
  <2>1. PICK i \in DOMAIN events[r] : events[r][i].kind = "passed"
    BY DEF Said
  <2>2. events[r][i] \in Told(rounds[r], events[r])
    BY DEF Told, ToSet
  <2>3. Kept(rounds[r], published)
    BY <2>1, <2>2 DEF RoundsSafe, Safe
  <2> QED BY <2>3 DEF Kept
<1> QED BY <1>1, RoundsStaySafe, PTL

\* `verify` judged the tree a round's "committed" names, and no other.
THEOREM VerdictsAreOfTheRecordedWork == Spec => []VerdictIsAboutTheRecordedWork
<1>1. RoundsSafe => VerdictIsAboutTheRecordedWork
  <2> SUFFICES ASSUME RoundsSafe, NEW r \in Rounds, HasVerify, Said(r, "passed") # {},
                      NEW c \in Said(r, "committed")
               PROVE  judged[r] = {[head |-> c, dirty |-> FALSE]}
    BY DEF VerdictIsAboutTheRecordedWork
  <2>1. PICK i \in DOMAIN events[r] : events[r][i].kind = "passed"
    BY DEF Said
  <2>2. PICK k \in DOMAIN events[r] : events[r][k].kind = "committed" /\ events[r][k].commit = c
    BY DEF Said
  <2>3. /\ events[r][i] \in Told(rounds[r], events[r])
        /\ events[r][k] \in Told(rounds[r], events[r])
    BY DEF Told, ToSet
  <2> QED BY <2>1, <2>2, <2>3 DEF RoundsSafe, Safe
<1> QED BY <1>1, RoundsStaySafe, PTL

-----------------------------------------------------------------------------
(* Delivery.                                                               *)

\* Where two sequences agree, entry by entry.
LEMMA PrefixByEntries ==
  ASSUME NEW c \in Commit, NEW d \in Commit
  PROVE  IsPrefix(c, d) <=> Len(c) <= Len(d) /\ \A i \in 1 .. Len(c) : c[i] = d[i]
<1>1. /\ Len(c) \in Nat /\ Len(d) \in Nat
      /\ \A i \in 1 .. Len(c) : c[i] \in Rounds
      /\ \A i \in 1 .. Len(d) : d[i] \in Rounds
  BY DEF Commit
<1> SUFFICES ASSUME Len(c) <= Len(d)
             PROVE  SubSeq(c, 1, Len(c)) = SubSeq(d, 1, Len(c))
                      <=> \A i \in 1 .. Len(c) : c[i] = d[i]
  BY <1>1 DEF IsPrefix
<1> DEFINE n == Len(c)
           left == SubSeq(c, 1, n)
           right == SubSeq(d, 1, n)
<1>2. /\ left \in Seq(Rounds) /\ Len(left) = n /\ \A i \in 1 .. n : left[i] = c[i]
      /\ right \in Seq(Rounds) /\ Len(right) = n /\ \A i \in 1 .. n : right[i] = d[i]
  BY <1>1 DEF Commit
<1> HIDE DEF left, right
<1>3. left = right <=> \A i \in 1 .. n : left[i] = right[i]
  BY <1>2, SeqEqual
<1> QED BY <1>2, <1>3 DEF left, right

\* What is behind a commit is behind those after it.
LEMMA PrefixesChain ==
  ASSUME NEW c \in Commit, NEW d \in Commit, NEW e \in Commit, IsPrefix(c, d), IsPrefix(d, e)
  PROVE  IsPrefix(c, e)
<1>1. Len(c) \in Nat /\ Len(d) \in Nat /\ Len(e) \in Nat
  BY DEF Commit
<1>2. Len(c) <= Len(d) /\ \A i \in 1 .. Len(c) : c[i] = d[i]
  BY PrefixByEntries
<1>3. Len(d) <= Len(e) /\ \A i \in 1 .. Len(d) : d[i] = e[i]
  BY PrefixByEntries
<1>4. Len(c) <= Len(e) /\ \A i \in 1 .. Len(c) : c[i] = e[i]
  BY <1>1, <1>2, <1>3
<1> QED BY <1>4, PrefixByEntries

\* Only a round that passed with work to deliver is about to.
DeliveriesAreOfAPass ==
  \A r \in Rounds : rounds[r].pc \in {"viewing", "creating"} => ToDeliver(r)

\* Until somebody deletes the branch, it has every commit it ever was at.
BranchHasAll ==
  deleted = 0 => branch # {} /\ \A c \in published, tip \in branch : IsPrefix(c, tip)

\* One way leads to a delivery, and another through it.
LEMMA WayToADelivery ==
  ASSUME TypeOK, NEW r \in Rounds, StepOf(r),
         rounds'[r].pc \in {"viewing", "creating", "opened"}
  PROVE  /\ UNCHANGED events
         /\ rounds'[r].start = rounds[r].start /\ rounds'[r].base = rounds[r].base
         /\ \/ rounds'[r].pc = "viewing" /\ ToDeliver(r)
            \/ rounds'[r].pc = "creating" /\ At(r, "viewing")
            \/ rounds'[r].pc = "opened" /\ At(r, "creating")
<1>1. rounds \in [Rounds -> Round] /\ rounds[r] \in Round
  BY DEF TypeOK
<1>2. ASSUME NEW round, Becomes(r, round) PROVE rounds'[r] = round
  BY <1>1, <1>2 DEF Becomes
<1>3. ~ Over(r)
  BY <1>2 DEF Over, NotStarted
<1>4. ASSUME NEW pc, Goes(r, pc)
      PROVE  rounds'[r].pc = pc /\ rounds'[r].start = rounds[r].start
             /\ rounds'[r].base = rounds[r].base
  <2>1. rounds'[r] = [rounds[r] EXCEPT !.pc = pc]
    BY <1>2, <1>4 DEF Goes
  <2> QED BY <1>1, <2>1 DEF Round
<1>5. ~ (At(r, "pushing") /\ PushFails(r))
  <2> SUFFICES ASSUME At(r, "pushing"), PushFails(r) PROVE FALSE
    OBVIOUS
  <2> DEFINE tried == rounds[r].attempts + 1
  <2>1. \/ rounds'[r] = [rounds[r] EXCEPT !.pc = "verifying", !.attempts = 0, !.lost = TRUE]
        \/ rounds'[r] = [rounds[r] EXCEPT !.attempts = tried]
    BY <1>2 DEF PushFails
  <2>2. rounds'[r].pc \in {"verifying", "pushing"}
    BY <1>1, <2>1 DEF Round, At
  <2> QED BY <2>2
<1>6. ASSUME NEW ruling PROVE ~ Rule(r, ruling)
  <2> SUFFICES ASSUME Rule(r, ruling) PROVE FALSE
    OBVIOUS
  <2>1. rounds'[r].pc = "recording"
    BY <1>1, <1>2 DEF Rule, Round
  <2> QED BY <2>1
<1>7. ASSUME NEW failed PROVE ~ AgentStops(r, failed)
  <2> SUFFICES ASSUME AgentStops(r, failed) PROVE FALSE
    OBVIOUS
  <2>1. PICK left \in LeftBy(r) :
          Becomes(r, [rounds[r] EXCEPT !.pc = "committing", !.agentFailed = failed,
                                       !.head = left.head, !.dirty = left.dirty])
    BY DEF AgentStops
  <2>2. rounds'[r].pc = "committing"
    BY <1>1, <1>2, <2>1 DEF Round
  <2> QED BY <2>2
<1>8. ~ CommitWork(r)
  <2> SUFFICES ASSUME CommitWork(r) PROVE FALSE
    OBVIOUS
  <2> DEFINE tree == CommitAll(r)
             done == [rounds[r] EXCEPT !.head = tree.head, !.dirty = tree.dirty]
  <2>1. \/ rounds'[r] = [done EXCEPT !.pc = "pushing", !.work = {tree.head}]
        \/ rounds'[r] = [done EXCEPT !.pc = "verifying"]
        \/ rounds'[r] = [done EXCEPT !.pc = "verifying", !.lost = TRUE]
        \/ rounds'[r] = [rounds[r] EXCEPT !.pc = "verifying", !.lost = TRUE]
    BY <1>2 DEF CommitWork
  <2> HIDE DEF tree
  <2>2. rounds'[r].pc \in {"pushing", "verifying"}
    BY <1>1, <2>1 DEF Round
  <2> QED BY <2>2
<1>9. ~ PinBase(r) /\ ~ PinTip(r) /\ ~ PushLands(r)
  BY <1>1, <1>2 DEF PinBase, PinTip, PushLands, Round
<1>10. ~ StartRound(r) /\ ~ Provision(r)
  <2>1. ASSUME Becomes(r, [rounds[r] EXCEPT !.pc = "provisioning", !.head = rounds[r].start])
        PROVE  FALSE
    <3>1. rounds'[r].pc = "provisioning"
      BY <1>1, <1>2, <2>1 DEF Round
    <3> QED BY <3>1
  <2>2. ASSUME Becomes(r, [rounds[r] EXCEPT !.pc = "recording", !.say = <<Saying("failed")>>])
        PROVE  FALSE
    <3>1. rounds'[r].pc = "recording"
      BY <1>1, <1>2, <2>2 DEF Round
    <3> QED BY <3>1
  <2>3. ~ Goes(r, "agent")
    BY <1>4
  <2> QED BY <1>3, <2>1, <2>2, <2>3 DEF StartRound, Provision
<1>11. ~ RecordEvent(r)
  <2> SUFFICES ASSUME RecordEvent(r) PROVE FALSE
    OBVIOUS
  <2>1. rounds'[r] = [rounds[r] EXCEPT !.say = Tail(@)] /\ rounds[r].pc = "recording"
    BY <1>2 DEF RecordEvent, At
  <2>2. rounds'[r].pc = "recording"
    BY <1>1, <2>1 DEF Round
  <2> QED BY <2>2
<1>12. ~ Cancel(r)
  <2> SUFFICES ASSUME Cancel(r) PROVE FALSE
    OBVIOUS
  <2>1. rounds'[r] = [rounds[r] EXCEPT !.cancelled = TRUE] /\ rounds[r].pc \in Stoppable
    BY <1>2 DEF Cancel
  <2>2. rounds'[r].pc \in Stoppable
    BY <1>1, <2>1 DEF Round
  <2> QED BY <2>2 DEF Stoppable
<1>13. CASE Recorded(r)
  BY <1>3, <1>4, <1>13 DEF Recorded
<1>14. CASE ViewPullRequest(r)
  BY <1>3, <1>4, <1>14 DEF ViewPullRequest
<1>15. CASE CreatePullRequest(r)
  BY <1>4, <1>15 DEF CreatePullRequest
<1> QED
  BY <1>3, <1>5, <1>6, <1>7, <1>8, <1>9, <1>10, <1>11, <1>12, <1>13, <1>14, <1>15
  DEF StepOf, RoundStep, Refused, AgentCancelled, AgentExits, PushReplyIsLost, PushIsRefused,
      NothingToVerify, VerifyRules, VerifyInterrupted, VerifyCancelled, NotDelivered,
      RecordDelivery, Killed

\* A push onto the branch, if nobody deleted it, publishes what has all that
\* was published.
LEMMA PushesCarryAll ==
  ASSUME TypeOK, BranchHasAll, NEW r \in Rounds, StepOf(r)
  PROVE  BranchHasAll'
<1>1. /\ branch \subseteq Commit /\ published \subseteq Commit /\ rounds[r].head \in Commit
      /\ rounds[r] \in Round
  BY DEF TypeOK, Round
<1>2. CASE FastForwards(r) /\ Push(r)
  <2> SUFFICES ASSUME deleted' = 0
               PROVE  branch' # {} /\ \A c \in published', tip \in branch' : IsPrefix(c, tip)
    BY DEF BranchHasAll
  <2>1. deleted = 0 /\ branch' = {rounds[r].head}
        /\ published' = published \cup {rounds[r].head}
    BY <1>2 DEF Push
  <2>2. PICK tip \in branch : \A c \in published : IsPrefix(c, tip)
    BY <2>1 DEF BranchHasAll
  <2>3. IsPrefix(tip, rounds[r].head)
    BY <1>2 DEF FastForwards
  <2>4. \A c \in published : IsPrefix(c, rounds[r].head)
    BY <1>1, <2>2, <2>3, PrefixesChain
  <2>5. IsPrefix(rounds[r].head, rounds[r].head)
    BY <1>1, PrefixFacts
  <2> QED BY <2>1, <2>4, <2>5
<1>3. CASE UNCHANGED <<branch, published, deleted>>
  BY <1>3 DEF BranchHasAll
<1> QED
  BY <1>2, <1>3
  DEF StepOf, RoundStep, PinBase, PinTip, Refused, StartRound, Provision, AgentCancelled, AgentExits,
      AgentStops, CommitWork, PushLands, PushReplyIsLost, PushIsRefused, NothingToVerify,
      VerifyRules, VerifyInterrupted, VerifyCancelled, Rule, RecordEvent, Recorded,
      ViewPullRequest, CreatePullRequest, NotDelivered, RecordDelivery, Killed, Cancel, remote

\* What a round recorded, and the tip it left, the branch has been at.
LEMMA TipsArePublished ==
  ASSUME RoundsSafe, NEW r \in Rounds
  PROVE  TipAsLeft(r) \in published /\ Said(r, "committed") \subseteq published
<1>1. Said(r, "committed") \subseteq published
  BY DEF RoundsSafe, Safe, Told, ToSet, Said
<1>2. rounds[r].start \in published
  BY DEF RoundsSafe, Safe
<1> QED BY <1>1, <1>2 DEF TipAsLeft

\* What a round is to deliver depends on what it sent, started at and was
\* based on.
LEMMA SameToDeliver ==
  ASSUME NEW r \in Rounds, ToDeliver(r), events'[r] = events[r],
         rounds'[r].start = rounds[r].start, rounds'[r].base = rounds[r].base
  PROVE  ToDeliver(r)'
BY DEF ToDeliver, TipAsLeft, Said, IsAheadOf

LEMMA DeliveriesStayOfAPass == Spec => [](DeliveriesAreOfAPass /\ BranchHasAll)
<1> DEFINE DeliveryInv == DeliveriesAreOfAPass /\ BranchHasAll
<1>1. Init => DeliveryInv
  <2> SUFFICES ASSUME Init PROVE DeliveryInv
    OBVIOUS
  <2>1. <<>> \in Commit
    BY DEF Commit
  <2>2. IsPrefix(<<>>, <<>>)
    BY <2>1, PrefixFacts
  <2> QED BY <2>2 DEF Init, NotStarted, DeliveriesAreOfAPass, BranchHasAll
<1>2. TypeOK /\ DeliveryInv /\ [Next]_vars => DeliveryInv'
  <2> SUFFICES ASSUME TypeOK, DeliveryInv, [Next]_vars PROVE DeliveryInv'
    OBVIOUS
  <2>1. ASSUME NEW r \in Rounds, StepOf(r)
        PROVE  DeliveryInv'
    <3>1. BranchHasAll'
      BY <2>1, PushesCarryAll
    <3>2. ASSUME NEW s \in Rounds, rounds'[s].pc \in {"viewing", "creating"}
          PROVE  ToDeliver(s)'
      <4>1. CASE s = r
        <5>1. ToDeliver(r)
          BY <2>1, <3>2, <4>1, WayToADelivery DEF At, DeliveriesAreOfAPass
        <5> QED BY <2>1, <3>2, <4>1, <5>1, WayToADelivery, SameToDeliver
      <4>2. CASE s # r
        <5>1. rounds'[s] = rounds[s] /\ events'[s] = events[s]
          BY <2>1, <4>2, OthersAreLeftAlone
        <5>2. ToDeliver(s)
          BY <3>2, <5>1 DEF DeliveriesAreOfAPass
        <5> QED BY <5>1, <5>2, SameToDeliver
      <4> QED BY <4>1, <4>2
    <3> QED BY <3>1, <3>2 DEF DeliveriesAreOfAPass
  <2>2. CASE Merge \/ DeleteBranch \/ UNCHANGED vars
    <3>1. UNCHANGED <<rounds, events, published>>
      BY <2>2 DEF Merge, DeleteBranch, vars, remote
    <3>2. DeliveriesAreOfAPass'
      BY <3>1, SameToDeliver DEF DeliveriesAreOfAPass
    <3>3. deleted \in Nat
      BY DEF TypeOK
    <3>4. BranchHasAll'
      BY <2>2, <3>1, <3>3 DEF BranchHasAll, Merge, DeleteBranch, vars, remote
    <3> QED BY <3>2, <3>4
  <2> QED BY <2>1, <2>2 DEF Next, StepOf
<1> QED BY <1>1, <1>2, RoundTypes, PTL DEF Spec

\* Of all rounds that met on it the branch has what they recorded and what they
\* passed, if nobody deleted it: what is recorded has been published, and what
\* was published stays, since no push is taken that does not carry it.
THEOREM RecordedStays == Spec => []RecordedWorkStays
<1>1. RoundsSafe /\ BranchHasAll => RecordedWorkStays
  <2> SUFFICES ASSUME RoundsSafe, BranchHasAll, deleted = 0, NEW r \in Rounds, NEW tip \in branch
               PROVE  /\ \A c \in Said(r, "committed") : IsPrefix(c, tip)
                      /\ IsPrefix(TipAsLeft(r), tip)
    BY DEF RecordedWorkStays
  <2>1. TipAsLeft(r) \in published /\ Said(r, "committed") \subseteq published
    BY TipsArePublished
  <2> QED BY <2>1 DEF BranchHasAll
<1> QED BY <1>1, RoundsStaySafe, DeliveriesStayOfAPass, PTL

\* A pull request is opened only by a round that passed, for a tip the branch
\* has had and the round's base has not, and has still if nobody deleted it.
THEOREM PullRequestsAreOfAPass == Spec => PullRequestsFollowAPass
<1>1. /\ TypeOK /\ RoundsSafe /\ DeliveriesAreOfAPass /\ BranchHasAll
      /\ [Next]_vars
      => [\A r \in Rounds : rounds'[r].pc = "opened" /\ ~ At(r, "opened") =>
            /\ Said(r, "passed") # {}
            /\ TipAsLeft(r) \in published /\ IsAheadOf(TipAsLeft(r), rounds[r].base)
            /\ deleted = 0 => \A tip \in branch : IsPrefix(TipAsLeft(r), tip)]_vars
  <2> SUFFICES ASSUME TypeOK, RoundsSafe, DeliveriesAreOfAPass, BranchHasAll, [Next]_vars,
                      NEW s \in Rounds, rounds'[s].pc = "opened", ~ At(s, "opened")
               PROVE  /\ Said(s, "passed") # {}
                      /\ TipAsLeft(s) \in published /\ IsAheadOf(TipAsLeft(s), rounds[s].base)
                      /\ deleted = 0 => \A tip \in branch : IsPrefix(TipAsLeft(s), tip)
    OBVIOUS
  <2>1. At(s, "creating")
    <3>1. ASSUME NEW r \in Rounds, StepOf(r)
          PROVE  At(s, "creating")
      <4>1. CASE s = r
        BY <3>1, <4>1, WayToADelivery
      <4>2. CASE s # r
        BY <3>1, <4>2, OthersAreLeftAlone DEF At
      <4> QED BY <4>1, <4>2
    <3>2. ~ (Merge \/ DeleteBranch \/ UNCHANGED vars)
      BY DEF Merge, DeleteBranch, vars, remote, At
    <3> QED BY <3>1, <3>2 DEF Next, StepOf
  <2>2. ToDeliver(s)
    BY <2>1 DEF DeliveriesAreOfAPass, At
  <2>3. TipAsLeft(s) \in published
    BY TipsArePublished
  <2> QED BY <2>2, <2>3 DEF ToDeliver, BranchHasAll
<1> QED
  BY <1>1, RoundTypes, RoundsStaySafe, DeliveriesStayOfAPass, PTL DEF Spec, PullRequestsFollowAPass

=============================================================================
