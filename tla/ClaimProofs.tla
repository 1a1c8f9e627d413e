---------------------------- MODULE ClaimProofs ----------------------------
(***************************************************************************)
(* What claims promise, for any claimers, any number of ids and attempts.  *)
(*                                                                         *)
(* The inductive invariant is ClaimInv: branches are numbered as they are  *)
(* created, a number is of one branch and one claim, and a claim that      *)
(* finds its id taken has seen a branch created since it looked.           *)
(***************************************************************************)
EXTENDS Claim, WellFoundedInduction, TLAPS

\* A bounded set of numbers has a highest.
LEMMA HasAMaximum ==
  ASSUME NEW n \in Nat, NEW S \in SUBSET (0 .. n), S # {}
  PROVE  \E i \in S : \A k \in S : k <= i
<1> DEFINE Mirror == {n - i : i \in S}
           Before == {ss \in Nat \X Nat : ss[1] < ss[2]}
<1>1. Mirror \subseteq Nat /\ Mirror # {}
  <2>1. \A i \in S : n - i \in Nat
    OBVIOUS
  <2>2. PICK i \in S : TRUE
    OBVIOUS
  <2> QED BY <2>1, <2>2
<1>2. IsWellFoundedOn(Before, Nat)
  BY NatLessThanWellFounded, Zenon DEF OpToRel
<1>3. PICK x \in Mirror : \A y \in Mirror : <<y, x>> \notin Before
  <2> HIDE DEF Before, Mirror
  <2> QED BY <1>1, <1>2, WFMin
<1>4. PICK i \in S : x = n - i
  OBVIOUS
<1>5. ASSUME NEW k \in S PROVE k <= i
  <2>1. n - k \in Mirror /\ n - k \in Nat /\ x \in Nat
    OBVIOUS
  <2>2. ~ (n - k < x)
    BY <1>3, <2>1
  <2> HIDE DEF Mirror
  <2> QED BY <1>4, <2>1, <2>2
<1> QED BY <1>5

-----------------------------------------------------------------------------
(* The operators.                                                          *)

\* The highest job branch is one of them, or 0.
LEMMA HighestIsHighest ==
  ASSUME NEW taken \in SUBSET Ids
  PROVE  /\ Highest(taken) \in Ids
         /\ \A k \in taken : k <= Highest(taken)
<1>1. \E i \in taken \cup {0} : \A k \in taken \cup {0} : k <= i
  <2>1. taken \cup {0} \in SUBSET (0 .. MaxId) /\ taken \cup {0} # {} /\ MaxId \in Nat
    BY ClaimBounds DEF Ids
  <2> QED BY <2>1, HasAMaximum, Zenon
<1>2. \E i \in taken \cup {0} : \A k \in taken : k <= i
  BY <1>1
<1>3. Highest(taken) \in taken \cup {0} /\ \A k \in taken : k <= Highest(taken)
  BY <1>2 DEF Highest
<1>4. 0 \in Ids
  BY ClaimBounds DEF Ids
<1> QED BY <1>3, <1>4

\* The next id, if there is one, is an id from 1 that no branch has taken.
LEMMA NextIdIsFree ==
  ASSUME NEW taken \in SUBSET Ids
  PROVE  /\ JobIdPast(taken) \in 1 .. NoId
         /\ JobIdPast(taken) # NoId =>
              JobIdPast(taken) \in Ids /\ JobIdPast(taken) \notin taken
<1>1. Highest(taken) \in 0 .. MaxId /\ \A k \in taken : k <= Highest(taken)
  BY HighestIsHighest DEF Ids
<1> QED BY <1>1, ClaimBounds DEF JobIdPast, NoId, Ids

-----------------------------------------------------------------------------
(* The inductive invariant.                                                *)

\* A claim that has begun has its base, and one that has listed an id there is.
ChoicesAreMade ==
  \A c \in Claimers :
    /\ claiming[c].pc # "idle" => claiming[c].base \in Bases
    /\ claiming[c].pc \in {"pushing", "updating", "claimed"} => claiming[c].id \in Ids

\* Numbers are given in order, each to one branch and one claim.
NumbersAreUnique ==
  /\ \A i \in Ids : branches[i].claim <= created
  /\ \A k \in claims : k.claim <= created
  /\ \A k, l \in claims : k.claim = l.claim => k = l
  /\ \A k \in claims, i \in Ids : branches[i].claim = k.claim =>
       i = k.id /\ branches[i].by = k.by /\ branches[i].commit = k.base

\* Finding its id taken, a claim has seen one more branch created than it has
\* lost attempts.
LossesAreAhead ==
  \A c \in Claimers :
    /\ claiming[c].attempts <= created - claiming[c].since
    /\ claiming[c].pc \in {"pushing", "updating"} /\ branches[claiming[c].id] # NoBranch =>
         claiming[c].attempts + 1 <= created - claiming[c].since

\* A claim in hand is its claimer's latest.
LatestIsInHand ==
  \A c \in Claimers : claiming[c].pc = "claimed" =>
    \E k \in claims : /\ k.by = c /\ k.id = claiming[c].id
                      /\ \A l \in claims : l.by = c => l.claim <= k.claim

ClaimInv ==
  TypeOK /\ ChoicesAreMade /\ NumbersAreUnique /\ LossesAreAhead /\ LatestIsInHand

-----------------------------------------------------------------------------
(* A step keeps it.  First the types, action by action.                    *)

LEMMA GoesIsTyped ==
  ASSUME claiming \in [Claimers -> Claiming], NEW c \in Claimers, NEW to \in Claiming,
         Goes(c, to)
  PROVE  claiming' \in [Claimers -> Claiming]
BY DEF Goes

LEMMA IdleIsTyped == Idle \in Claiming
BY ClaimBounds DEF Idle, Claiming, NoId

LEMMA LosesAttemptIsTyped ==
  ASSUME claiming \in [Claimers -> Claiming], NEW c \in Claimers, LosesAttempt(c)
  PROVE  claiming' \in [Claimers -> Claiming]
<1>1. claiming[c].attempts + 1 # ClaimAttempts =>
        [claiming[c] EXCEPT !.pc = "listing", !.id = NoId, !.attempts = claiming[c].attempts + 1]
          \in Claiming
  <2>1. /\ claiming[c] \in Claiming /\ NoId \in 1 .. NoId
        /\ claiming[c].attempts \in 0 .. ClaimAttempts - 1
    BY ClaimBounds DEF Claiming, NoId
  <2>2. claiming[c].attempts + 1 # ClaimAttempts =>
          claiming[c].attempts + 1 \in 0 .. ClaimAttempts - 1
    BY <2>1, ClaimBounds
  <2> QED BY <2>1, <2>2 DEF Claiming
<1> QED BY <1>1, IdleIsTyped, GoesIsTyped DEF LosesAttempt

LEMMA CreateIsTyped ==
  ASSUME TypeOK, NEW i \in Ids, NEW who \in Claimers \cup {Somebody}, NEW commit \in Bases,
         Create(i, who, commit)
  PROVE  /\ branches' \in [Ids -> Branch \cup {NoBranch}]
         /\ created' \in 0 .. MaxCreations
         /\ branches'[i] = [claim |-> created + 1, by |-> who, commit |-> commit]
         /\ created + 1 \in 1 .. MaxCreations
<1>1. created + 1 \in 1 .. MaxCreations
  BY ClaimBounds DEF TypeOK, Create
<1>2. [claim |-> created + 1, by |-> who, commit |-> commit] \in Branch
  BY <1>1 DEF Branch
<1> QED BY <1>1, <1>2, ClaimBounds DEF TypeOK, Create

\* The claim to begin with, and the one that has an id to try.
LEMMA BeginningsAreTyped ==
  ASSUME TypeOK
  PROVE  /\ \A b \in Bases :
              [Idle EXCEPT !.pc = "listing", !.base = b, !.since = created] \in Claiming
         /\ \A c \in Claimers : \A i \in 1 .. NoId :
              [claiming[c] EXCEPT !.pc = "pushing", !.id = i] \in Claiming
         /\ \A c \in Claimers : \A pc \in {"updating", "claimed"} :
              [claiming[c] EXCEPT !.pc = pc] \in Claiming
<1>1. ASSUME NEW b \in Bases
      PROVE  [Idle EXCEPT !.pc = "listing", !.base = b, !.since = created] \in Claiming
  <2>1. Idle \in Claiming /\ created \in 0 .. MaxCreations
    BY IdleIsTyped DEF TypeOK
  <2> QED BY <2>1 DEF Claiming
<1>2. \A c \in Claimers : claiming[c] \in Claiming
  BY DEF TypeOK
<1> QED BY <1>1, <1>2 DEF Claiming

LEMMA TypeStep ==
  ASSUME TypeOK, ChoicesAreMade, LatestIsInHand, Next
  PROVE  TypeOK'
<1> USE DEF TypeOK
<1>1. ASSUME NEW c \in Claimers, StartClaim(c)
      PROVE  TypeOK'
  <2>1. PICK b \in Bases :
          Goes(c, [Idle EXCEPT !.pc = "listing", !.base = b, !.since = created])
    BY <1>1 DEF StartClaim
  <2>2. claiming' \in [Claimers -> Claiming]
    BY <2>1, BeginningsAreTyped, GoesIsTyped
  <2> QED BY <1>1, <2>2 DEF StartClaim
<1>2. ASSUME NEW c \in Claimers, ListsBranches(c)
      PROVE  TypeOK'
  <2>1. JobIdPast(Taken) \in 1 .. NoId
    BY NextIdIsFree DEF Taken
  <2>2. claiming' \in [Claimers -> Claiming]
    BY <1>2, <2>1, BeginningsAreTyped, IdleIsTyped, GoesIsTyped DEF ListsBranches
  <2> QED BY <1>2, <2>2 DEF ListsBranches
<1>3. ASSUME NEW c \in Claimers, PushNegotiates(c)
      PROVE  TypeOK'
  <2>1. claiming' \in [Claimers -> Claiming]
    BY <1>3, BeginningsAreTyped, GoesIsTyped, LosesAttemptIsTyped DEF PushNegotiates
  <2> QED BY <1>3, <2>1 DEF PushNegotiates
<1>4. ASSUME NEW c \in Claimers, PushCreates(c)
      PROVE  TypeOK'
  <2>1. claiming[c].id \in Ids /\ claiming[c].base \in Bases
    BY <1>4 DEF PushCreates, At, ChoicesAreMade
  <2>2. /\ branches' \in [Ids -> Branch \cup {NoBranch}]
        /\ created' \in 0 .. MaxCreations
        /\ branches'[claiming[c].id] =
             [claim |-> created + 1, by |-> c, commit |-> claiming[c].base]
        /\ created + 1 \in 1 .. MaxCreations
    BY <1>4, <2>1, CreateIsTyped DEF PushCreates
  <2>3. Returned(c) \in [claim : 1 .. MaxCreations, by : Claimers, id : Ids, base : Bases]
    BY <2>1, <2>2 DEF Returned
  <2>4. claiming' \in [Claimers -> Claiming]
    BY <1>4, BeginningsAreTyped, GoesIsTyped DEF PushCreates
  <2> QED BY <1>4, <2>2, <2>3, <2>4 DEF PushCreates
<1>5. ASSUME NEW c \in Claimers, PushReplyIsLost(c)
      PROVE  TypeOK'
  <2>1. claiming[c].id \in Ids /\ claiming[c].base \in Bases
    BY <1>5 DEF PushReplyIsLost, At, ChoicesAreMade
  <2>2. /\ branches' \in [Ids -> Branch \cup {NoBranch}]
        /\ created' \in 0 .. MaxCreations
    BY <1>5, <2>1, CreateIsTyped DEF PushReplyIsLost
  <2>3. claiming' \in [Claimers -> Claiming]
    BY <1>5, IdleIsTyped, GoesIsTyped DEF PushReplyIsLost
  <2> QED BY <1>5, <2>2, <2>3 DEF PushReplyIsLost
<1>6. ASSUME NEW c \in Claimers, PushLosesItsRace(c)
      PROVE  TypeOK'
  BY <1>6, LosesAttemptIsTyped DEF PushLosesItsRace
<1>7. ASSUME NEW c \in Claimers, ClaimerStops(c)
      PROVE  TypeOK'
  BY <1>7, IdleIsTyped, GoesIsTyped DEF ClaimerStops
<1>8. ASSUME NEW d \in Daemons, CreateJob(d)
      PROVE  TypeOK'
  <2>1. d \in Claimers
    BY DEF Claimers
  <2>2. claiming' \in [Claimers -> Claiming]
    BY <1>8, <2>1, IdleIsTyped, GoesIsTyped DEF CreateJob
  <2>3. ClaimInHand(d) \in claims
    BY <1>8, <2>1 DEF CreateJob, At, LatestIsInHand, ClaimInHand
  <2>4. ClaimInHand(d).claim \in 0 .. MaxCreations
    BY <2>3
  <2>5. jobs' \in [Daemons -> [Ids -> 0 .. MaxCreations]]
    BY <1>8, <2>4 DEF CreateJob
  <2> QED BY <1>8, <2>2, <2>5 DEF CreateJob
<1>9. ASSUME NEW d \in Daemons, NEW i \in Ids, ContinueJob(d, i)
      PROVE  TypeOK'
  <2>1. jobs[d][i] \in 1 .. MaxCreations
    BY <1>9, ClaimBounds DEF ContinueJob
  <2>2. branches[i].claim \in 0 .. MaxCreations
    BY <1>9, ClaimBounds DEF Branch, NoBranch
  <2>3. PICK seen \in {branches[i].claim, 0} :
          continued' = continued \cup {[job |-> jobs[d][i], branch |-> seen]}
    BY <1>9 DEF ContinueJob
  <2>4. seen \in 0 .. MaxCreations
    BY <2>2, ClaimBounds
  <2>5. continued' \subseteq [job : 1 .. MaxCreations, branch : 0 .. MaxCreations]
    BY <2>1, <2>3, <2>4
  <2> QED BY <1>9, <2>5 DEF ContinueJob
<1>10. ASSUME NEW i \in Ids, SomebodyPushes(i)
       PROVE  TypeOK'
  <2>1. PICK b \in Bases : Create(i, Somebody, b)
    BY <1>10 DEF SomebodyPushes
  <2> QED BY <1>10, <2>1, CreateIsTyped DEF SomebodyPushes
<1>11. ASSUME NEW i \in Ids, BranchDeleted(i)
       PROVE  TypeOK'
  BY <1>11, ClaimBounds DEF BranchDeleted
<1> QED
  BY <1>1, <1>2, <1>3, <1>4, <1>5, <1>6, <1>7, <1>8, <1>9, <1>10, <1>11 DEF Next, ClaimStep

-----------------------------------------------------------------------------
(* The parts of the invariant.                                             *)

\* What each claimer is doing after a step: what it did, or one of the next.
LEMMA ClaimersNext ==
  ASSUME TypeOK, Next, NEW c \in Claimers
  PROVE  \/ claiming'[c] = claiming[c] \/ claiming'[c] = Idle
         \/ StartClaim(c) \/ ListsBranches(c) \/ PushNegotiates(c) \/ PushCreates(c)
         \/ PushLosesItsRace(c)
<1> USE DEF TypeOK, Goes
<1>1. ASSUME NEW x \in Claimers, ClaimStep(x)
      PROVE  claiming'[c] = claiming[c] \/ x = c
  BY <1>1 DEF ClaimStep, StartClaim, ListsBranches, PushNegotiates, PushCreates,
              PushReplyIsLost, PushLosesItsRace, ClaimerStops, LosesAttempt
<1>2. ASSUME ClaimStep(c), ClaimerStops(c) \/ PushReplyIsLost(c)
      PROVE  claiming'[c] = Idle
  BY <1>2 DEF ClaimerStops, PushReplyIsLost
<1>3. ASSUME NEW d \in Daemons, CreateJob(d)
      PROVE  claiming'[c] = claiming[c] \/ claiming'[c] = Idle
  BY <1>3 DEF CreateJob
<1> QED
  BY <1>1, <1>2, <1>3
  DEF Next, ClaimStep, ContinueJob, SomebodyPushes, BranchDeleted

\* A lost attempt gives up, or begins the next with the same base.
LEMMA LostAttempt ==
  ASSUME TypeOK, NEW c \in Claimers, LosesAttempt(c)
  PROVE  \/ claiming'[c] = Idle
         \/ /\ claiming'[c].pc = "listing"
            /\ claiming'[c].base = claiming[c].base
            /\ claiming'[c].attempts = claiming[c].attempts + 1
            /\ claiming'[c].since = claiming[c].since
<1>1. claiming[c] \in Claiming
  BY DEF TypeOK
<1>2. \/ claiming'[c] = Idle
      \/ claiming'[c] = [claiming[c] EXCEPT !.pc = "listing", !.id = NoId,
                                            !.attempts = claiming[c].attempts + 1]
  BY DEF LosesAttempt, Goes, TypeOK
<1> QED BY <1>1, <1>2 DEF Claiming

\* A claim that has begun, and one that is past its listing.
LEMMA BegunAndListed ==
  ASSUME TypeOK, NEW c \in Claimers
  PROVE  /\ StartClaim(c) =>
              /\ claiming'[c].pc = "listing" /\ claiming'[c].base \in Bases
              /\ claiming'[c].attempts = 0 /\ claiming'[c].since = created
         /\ ListsBranches(c) /\ claiming'[c] # Idle =>
              /\ JobIdPast(Taken) # NoId /\ claiming'[c].id = JobIdPast(Taken)
              /\ claiming'[c].base = claiming[c].base
              /\ claiming'[c].attempts = claiming[c].attempts
              /\ claiming'[c].since = claiming[c].since
<1>1. claiming[c] \in Claiming /\ claiming \in [Claimers -> Claiming] /\ Idle \in Claiming
  BY IdleIsTyped DEF TypeOK
<1>2. ASSUME NEW b \in Bases, claiming'[c] = [Idle EXCEPT !.pc = "listing", !.base = b,
                                                         !.since = created]
      PROVE  /\ claiming'[c].pc = "listing" /\ claiming'[c].base \in Bases
             /\ claiming'[c].attempts = 0 /\ claiming'[c].since = created
  <2>1. Idle.attempts = 0
    BY DEF Idle
  <2> QED BY <1>1, <1>2, <2>1 DEF Claiming
<1>3. ASSUME claiming'[c] = [claiming[c] EXCEPT !.pc = "pushing", !.id = JobIdPast(Taken)]
      PROVE  /\ claiming'[c].id = JobIdPast(Taken)
             /\ claiming'[c].base = claiming[c].base
             /\ claiming'[c].attempts = claiming[c].attempts
             /\ claiming'[c].since = claiming[c].since
  BY <1>1, <1>3 DEF Claiming
<1> QED BY <1>1, <1>2, <1>3 DEF StartClaim, ListsBranches, Goes

LEMMA ChoicesStep ==
  ASSUME TypeOK, ChoicesAreMade, Next
  PROVE  ChoicesAreMade'
<1> SUFFICES ASSUME NEW c \in Claimers
             PROVE  /\ claiming'[c].pc # "idle" => claiming'[c].base \in Bases
                    /\ claiming'[c].pc \in {"pushing", "updating", "claimed"} =>
                         claiming'[c].id \in Ids
  BY DEF ChoicesAreMade
<1> USE DEF TypeOK, ChoicesAreMade, Goes, At
<1>1. claiming[c] \in Claiming
  OBVIOUS
<1>2. CASE claiming'[c] = claiming[c] \/ claiming'[c] = Idle
  BY <1>2 DEF Idle
<1>3. CASE StartClaim(c)
  BY <1>3, BegunAndListed
<1>4. CASE ListsBranches(c)
  <2>1. CASE claiming'[c] # Idle
    <3>1. claiming'[c].id \in Ids
      <4>1. Taken \in SUBSET Ids
        BY DEF Taken
      <4>2. JobIdPast(Taken) # NoId /\ claiming'[c].id = JobIdPast(Taken)
        BY <1>4, <2>1, BegunAndListed
      <4> QED BY <4>1, <4>2, NextIdIsFree
    <3>2. claiming'[c].base \in Bases
      BY <1>4, <2>1, BegunAndListed DEF ListsBranches
    <3> QED BY <3>1, <3>2
  <2> QED BY <1>2, <2>1
<1>5. CASE PushNegotiates(c)
  <2>1. claiming[c].pc = "pushing"
    BY <1>5 DEF PushNegotiates
  <2>2. CASE LosesAttempt(c)
    BY <1>2, <2>1, <2>2, LostAttempt
  <2>3. CASE Goes(c, [claiming[c] EXCEPT !.pc = "updating"])
    BY <1>1, <2>1, <2>3 DEF Claiming
  <2> QED BY <1>5, <2>2, <2>3 DEF PushNegotiates
<1>6. CASE PushCreates(c)
  BY <1>1, <1>6 DEF PushCreates, Claiming
<1>7. CASE PushLosesItsRace(c)
  BY <1>2, <1>7, LostAttempt DEF PushLosesItsRace
<1> QED BY <1>2, <1>3, <1>4, <1>5, <1>6, <1>7, ClaimersNext

\* How a step changes the remote: a new branch of the next number, one branch
\* less, or nothing.
LEMMA BranchesNext ==
  ASSUME TypeOK, ChoicesAreMade, Next
  PROVE  \/ /\ branches' = branches /\ created' = created
         \/ /\ created' = created
            /\ \E i \in Ids : branches' = [branches EXCEPT ![i] = NoBranch]
         \/ \E i \in Ids, who \in Claimers \cup {Somebody}, b \in Bases : Create(i, who, b)
<1>1. ASSUME NEW c \in Claimers, PushCreates(c) \/ PushReplyIsLost(c)
      PROVE  \E i \in Ids, who \in Claimers \cup {Somebody}, b \in Bases : Create(i, who, b)
  <2>1. claiming[c].id \in Ids /\ claiming[c].base \in Bases
    BY <1>1 DEF PushCreates, PushReplyIsLost, At, ChoicesAreMade
  <2> QED BY <1>1, <2>1 DEF PushCreates, PushReplyIsLost
<1>2. ASSUME NEW i \in Ids, SomebodyPushes(i)
      PROVE  \E b \in Bases : Create(i, Somebody, b)
  BY <1>2 DEF SomebodyPushes
<1>3. ASSUME NEW i \in Ids, BranchDeleted(i)
      PROVE  created' = created /\ branches' = [branches EXCEPT ![i] = NoBranch]
  BY <1>3 DEF BranchDeleted
<1> QED
  BY <1>1, <1>2, <1>3
  DEF Next, ClaimStep, StartClaim, ListsBranches, PushNegotiates, PushLosesItsRace,
      ClaimerStops, CreateJob, ContinueJob

\* A claim is recorded only as its branch is created, under that number.
LEMMA ClaimsNext ==
  ASSUME TypeOK, ChoicesAreMade, Next
  PROVE  \/ claims' = claims
         \/ \E c \in Claimers :
              /\ PushCreates(c)
              /\ claiming[c].id \in Ids /\ claiming[c].base \in Bases
              /\ Create(claiming[c].id, c, claiming[c].base)
              /\ claims' = claims \cup {[claim |-> created + 1, by |-> c,
                                         id |-> claiming[c].id, base |-> claiming[c].base]}
<1>1. ASSUME NEW c \in Claimers, PushCreates(c)
      PROVE  /\ claiming[c].id \in Ids /\ claiming[c].base \in Bases
             /\ Create(claiming[c].id, c, claiming[c].base)
             /\ claims' = claims \cup {[claim |-> created + 1, by |-> c,
                                        id |-> claiming[c].id, base |-> claiming[c].base]}
  <2>1. claiming[c].id \in Ids /\ claiming[c].base \in Bases
    BY <1>1 DEF PushCreates, At, ChoicesAreMade
  <2>2. Create(claiming[c].id, c, claiming[c].base) /\ c \in Claimers \cup {Somebody}
    BY <1>1 DEF PushCreates
  <2>3. branches'[claiming[c].id] =
          [claim |-> created + 1, by |-> c, commit |-> claiming[c].base]
    BY <2>1, <2>2, CreateIsTyped
  <2>4. branches'[claiming[c].id].claim = created + 1
    BY <2>3
  <2> QED BY <1>1, <2>1, <2>2, <2>4 DEF PushCreates, Returned
<1> QED
  BY <1>1
  DEF Next, ClaimStep, StartClaim, ListsBranches, PushNegotiates, PushLosesItsRace,
      PushReplyIsLost, ClaimerStops, CreateJob, ContinueJob, SomebodyPushes, BranchDeleted

LEMMA NumbersStep ==
  ASSUME TypeOK, ChoicesAreMade, NumbersAreUnique, Next
  PROVE  NumbersAreUnique'
<1> USE DEF NumbersAreUnique
<1>1. /\ created \in Nat /\ NoBranch.claim = 0
      /\ \A k \in claims : k.claim \in Nat /\ k.claim # 0 /\ k.claim <= created
      /\ \A i \in Ids : branches[i].claim \in Nat /\ branches[i].claim <= created
  BY ClaimBounds DEF TypeOK, NoBranch, Branch
<1>2. CASE branches' = branches /\ created' = created /\ claims' = claims
  BY <1>2
<1>3. ASSUME NEW i \in Ids, branches' = [branches EXCEPT ![i] = NoBranch],
             created' = created, claims' = claims
      PROVE  NumbersAreUnique'
  <2>1. \A x \in Ids : branches'[x] = IF x = i THEN NoBranch ELSE branches[x]
    BY <1>3 DEF TypeOK
  <2> QED BY <1>1, <1>3, <2>1
<1>4. ASSUME NEW i \in Ids, NEW who \in Claimers \cup {Somebody}, NEW b \in Bases,
             Create(i, who, b),
             \/ claims' = claims
             \/ claims' = claims \cup {[claim |-> created + 1, by |-> who, id |-> i, base |-> b]}
      PROVE  NumbersAreUnique'
  <2>1. /\ created' = created + 1
        /\ \A x \in Ids : branches'[x] = IF x = i THEN [claim |-> created + 1, by |-> who,
                                                        commit |-> b]
                                         ELSE branches[x]
    BY <1>4 DEF Create, TypeOK
  <2>2. \A x \in Ids : branches'[x].claim \in Nat /\ branches'[x].claim <= created + 1
    BY <1>1, <2>1
  <2>3. \A k \in claims' : k \in claims \/
          (k.claim = created + 1 /\ k.by = who /\ k.id = i /\ k.base = b)
    BY <1>4
  <2>4. \A k \in claims' : k.claim <= created + 1
    BY <1>1, <2>3
  <2>5. \A k, l \in claims' : k.claim = l.claim => k = l
    BY <1>1, <1>4
  <2>6. ASSUME NEW k \in claims', NEW x \in Ids, branches'[x].claim = k.claim
        PROVE  x = k.id /\ branches'[x].by = k.by /\ branches'[x].commit = k.base
    <3>1. CASE k \in claims
      <4>1. x # i /\ branches'[x] = branches[x]
        BY <1>1, <2>1, <2>6, <3>1
      <4> QED BY <2>6, <3>1, <4>1
    <3>2. CASE k.claim = created + 1 /\ k.by = who /\ k.id = i /\ k.base = b
      <4>1. x = i
        BY <1>1, <2>1, <2>6, <3>2
      <4> QED BY <2>1, <3>2, <4>1
    <3> QED BY <2>3, <3>1, <3>2
  <2> QED BY <2>1, <2>2, <2>4, <2>5, <2>6
<1>5. CASE claims' = claims
  BY <1>2, <1>3, <1>4, <1>5, BranchesNext
<1>6. ASSUME NEW c \in Claimers,
             claiming[c].id \in Ids, claiming[c].base \in Bases,
             Create(claiming[c].id, c, claiming[c].base),
             claims' = claims \cup {[claim |-> created + 1, by |-> c,
                                     id |-> claiming[c].id, base |-> claiming[c].base]}
      PROVE  NumbersAreUnique'
  BY <1>4, <1>6
<1> QED BY <1>5, <1>6, ClaimsNext

LEMMA LossesStep ==
  ASSUME TypeOK, ChoicesAreMade, LossesAreAhead, Next
  PROVE  LossesAreAhead'
<1> SUFFICES ASSUME NEW c \in Claimers
             PROVE  /\ claiming'[c].attempts <= created' - claiming'[c].since
                    /\ claiming'[c].pc \in {"pushing", "updating"}
                         /\ branches'[claiming'[c].id] # NoBranch =>
                       claiming'[c].attempts + 1 <= created' - claiming'[c].since
  BY DEF LossesAreAhead
<1>1. /\ claiming[c] \in Claiming /\ claiming[c].attempts \in Nat /\ claiming[c].since \in Nat
      /\ created \in Nat /\ created' \in Nat /\ created <= created'
      /\ claiming[c].attempts <= created - claiming[c].since
  <2>1. created' = created \/ created' = created + 1
    BY BranchesNext DEF Create
  <2> QED BY <2>1, ClaimBounds DEF TypeOK, Claiming, LossesAreAhead
<1>2. CASE claiming'[c] = Idle
  BY <1>1, <1>2 DEF Idle
<1>3. CASE claiming'[c] = claiming[c]
  <2>1. ASSUME claiming[c].pc \in {"pushing", "updating"},
               branches'[claiming[c].id] # NoBranch
        PROVE  claiming[c].attempts + 1 <= created' - claiming[c].since
    <3>1. claiming[c].id \in Ids
      BY <2>1 DEF ChoicesAreMade
    <3>2. CASE branches[claiming[c].id] # NoBranch
      BY <1>1, <2>1, <3>2 DEF LossesAreAhead
    <3>3. CASE branches[claiming[c].id] = NoBranch
      <4>1. created' = created + 1
        BY <2>1, <3>1, <3>3, BranchesNext DEF Create, TypeOK
      <4> QED BY <1>1, <4>1
    <3> QED BY <3>2, <3>3
  <2> QED BY <1>1, <1>3, <2>1
<1>4. CASE StartClaim(c)
  BY <1>1, <1>4, BegunAndListed
<1>5. CASE ListsBranches(c)
  <2>1. JobIdPast(Taken) # NoId => branches[JobIdPast(Taken)] = NoBranch
    BY NextIdIsFree DEF Taken
  <2>2. branches' = branches /\ created' = created
    BY <1>5 DEF ListsBranches
  <2>3. CASE claiming'[c] # Idle
    BY <1>1, <1>5, <2>1, <2>2, <2>3, BegunAndListed
  <2> QED BY <1>2, <2>3
\* An attempt is lost to a branch that is there.
<1>6. ASSUME LosesAttempt(c), claiming[c].pc \in {"pushing", "updating"},
             branches[claiming[c].id] # NoBranch, created' = created
      PROVE  /\ claiming'[c].attempts <= created' - claiming'[c].since
             /\ claiming'[c].pc \notin {"pushing", "updating"}
  <2>1. claiming[c].attempts + 1 <= created - claiming[c].since
    BY <1>6 DEF LossesAreAhead
  <2>2. claiming'[c] = Idle => Idle.attempts = 0 /\ Idle.since = 0 /\ Idle.pc = "idle"
    BY DEF Idle
  <2> QED BY <1>1, <1>6, <2>1, <2>2, LostAttempt
<1>7. CASE PushNegotiates(c)
  <2>1. claiming[c].pc = "pushing" /\ branches' = branches /\ created' = created
    BY <1>7 DEF PushNegotiates, At
  <2>2. CASE branches[claiming[c].id] # NoBranch
    BY <1>6, <1>7, <2>1, <2>2 DEF PushNegotiates
  <2>3. CASE branches[claiming[c].id] = NoBranch
    <3>1. claiming'[c] = [claiming[c] EXCEPT !.pc = "updating"]
      BY <1>7, <2>3 DEF PushNegotiates, Goes, TypeOK
    <3> QED BY <1>1, <2>1, <2>3, <3>1 DEF Claiming
  <2> QED BY <2>2, <2>3
<1>8. CASE PushCreates(c)
  <2>1. claiming'[c] = [claiming[c] EXCEPT !.pc = "claimed"]
    BY <1>8 DEF PushCreates, Goes, TypeOK
  <2> QED BY <1>1, <2>1 DEF Claiming
<1>9. CASE PushLosesItsRace(c)
  BY <1>6, <1>9 DEF PushLosesItsRace, At
<1> QED BY <1>2, <1>3, <1>4, <1>5, <1>7, <1>8, <1>9, ClaimersNext

LEMMA LatestStep ==
  ASSUME ClaimInv, TypeOK', Next
  PROVE  LatestIsInHand'
<1> SUFFICES ASSUME NEW c \in Claimers, claiming'[c].pc = "claimed"
             PROVE  \E k \in claims' :
                      /\ k.by = c /\ k.id = claiming'[c].id
                      /\ \A l \in claims' : l.by = c => l.claim <= k.claim
  BY DEF LatestIsInHand
<1> USE DEF ClaimInv
<1>1. claiming[c] \in Claiming /\ created \in Nat
  BY ClaimBounds DEF TypeOK
<1>2. ASSUME claiming'[c] = claiming[c]
      PROVE  \A l \in claims' : l.by = c => l \in claims
  <2>1. ~ PushCreates(c)
    <3>1. ASSUME PushCreates(c)
          PROVE  claiming'[c] = [claiming[c] EXCEPT !.pc = "claimed"] /\ claiming[c].pc = "updating"
      BY <3>1 DEF PushCreates, Goes, At, TypeOK
    <3> QED BY <1>1, <1>2, <3>1 DEF Claiming
  <2> QED BY <2>1, ClaimsNext
<1>3. CASE claiming'[c] = claiming[c]
  <2>1. claims \subseteq claims'
    BY ClaimsNext
  <2>2. PICK k \in claims : /\ k.by = c /\ k.id = claiming[c].id
                            /\ \A l \in claims : l.by = c => l.claim <= k.claim
    BY <1>3 DEF LatestIsInHand
  <2> QED BY <1>2, <1>3, <2>1, <2>2
<1>4. CASE PushCreates(c)
  <2> DEFINE new == [claim |-> created + 1, by |-> c,
                     id |-> claiming[c].id, base |-> claiming[c].base]
  <2>1. claiming'[c] = [claiming[c] EXCEPT !.pc = "claimed"]
    BY <1>4 DEF PushCreates, Goes, TypeOK
  <2>2. claiming'[c].id = claiming[c].id
    BY <1>1, <2>1 DEF Claiming
  <2>3. claiming[c].id \in Ids /\ claiming[c].base \in Bases
    BY <1>4 DEF PushCreates, At, ChoicesAreMade
  <2>4. branches'[claiming[c].id].claim = created + 1
    <3>1. branches'[claiming[c].id] =
            [claim |-> created + 1, by |-> c, commit |-> claiming[c].base]
      BY <1>4, <2>3, CreateIsTyped DEF PushCreates
    <3> QED BY <3>1
  <2>5. claims' = claims \cup {new}
    BY <1>4, <2>4 DEF PushCreates, Returned
  <2>6. \A l \in claims : l.claim \in Nat /\ l.claim <= created
    BY DEF TypeOK, NumbersAreUnique
  <2>7. \A l \in claims' : l.claim <= new.claim
    BY <1>1, <2>5, <2>6
  <2> QED BY <2>2, <2>5, <2>7
<1>5. CASE claiming'[c] = Idle \/ StartClaim(c)
  BY <1>5, BegunAndListed DEF Idle
<1>6. CASE ListsBranches(c)
  <2>1. \/ claiming'[c] = Idle
        \/ claiming'[c] = [claiming[c] EXCEPT !.pc = "pushing", !.id = JobIdPast(Taken)]
    BY <1>6 DEF ListsBranches, Goes, TypeOK
  <2> QED BY <1>1, <1>5, <2>1 DEF Claiming
<1>7. CASE PushNegotiates(c)
  <2>1. LosesAttempt(c) \/ claiming'[c] = [claiming[c] EXCEPT !.pc = "updating"]
    BY <1>7 DEF PushNegotiates, Goes, TypeOK
  <2> QED BY <1>1, <1>5, <2>1, LostAttempt DEF Claiming
<1>8. CASE PushLosesItsRace(c)
  BY <1>5, <1>8, LostAttempt DEF PushLosesItsRace
<1> QED BY <1>3, <1>4, <1>5, <1>6, <1>7, <1>8, ClaimersNext

-----------------------------------------------------------------------------
(* The theorems.                                                           *)

LEMMA ClaimInit == Init => ClaimInv
<1> SUFFICES ASSUME Init PROVE ClaimInv
  OBVIOUS
<1> USE ClaimBounds DEF Init
<1>1. TypeOK
  <2>1. claiming \in [Claimers -> Claiming]
    BY IdleIsTyped
  <2> QED BY <2>1 DEF TypeOK
<1>2. ChoicesAreMade /\ LatestIsInHand
  BY DEF ChoicesAreMade, LatestIsInHand, Idle
<1>3. NumbersAreUnique
  BY DEF NumbersAreUnique, NoBranch
<1>4. LossesAreAhead
  BY DEF LossesAreAhead, Idle
<1> QED BY <1>1, <1>2, <1>3, <1>4 DEF ClaimInv

LEMMA ClaimStuttering ==
  ASSUME ClaimInv, UNCHANGED vars
  PROVE  ClaimInv'
BY DEF ClaimInv, vars, TypeOK, ChoicesAreMade, NumbersAreUnique, LossesAreAhead,
       LatestIsInHand, Taken

LEMMA ClaimStepKeepsInv ==
  ASSUME ClaimInv, Next
  PROVE  ClaimInv'
<1>1. TypeOK' /\ ChoicesAreMade' /\ NumbersAreUnique' /\ LossesAreAhead'
  BY TypeStep, ChoicesStep, NumbersStep, LossesStep DEF ClaimInv
<1>2. LatestIsInHand'
  BY <1>1, LatestStep
<1> QED BY <1>1, <1>2 DEF ClaimInv

THEOREM ClaimInvHolds == Spec => []ClaimInv
<1>1. ClaimInv /\ [Next]_vars => ClaimInv'
  BY ClaimStepKeepsInv, ClaimStuttering
<1> QED BY ClaimInit, <1>1, PTL DEF Spec

\* Every part of a claim keeps its type; no claimer ever tries job 0.
THEOREM ClaimTypes == Spec => []TypeOK
<1>1. ClaimInv => TypeOK
  BY DEF ClaimInv
<1> QED BY <1>1, ClaimInvHolds, PTL

\* No two claims return one branch, however many claimers race for it, and a
\* claim's branch is the one it pushed.
THEOREM OneBranchPerClaim == Spec => []ClaimsAreOfOwnBranches
<1>1. ClaimInv => ClaimsAreOfOwnBranches
  BY DEF ClaimInv, NumbersAreUnique, ClaimsAreOfOwnBranches, TypeOK
<1> QED BY <1>1, ClaimInvHolds, PTL

\* A claim loses no attempt to a branch that was there before it looked.
THEOREM OthersTakeWhatIsLost == Spec => []LossesAreOthersClaims
<1>1. ClaimInv => LossesAreOthersClaims
  BY DEF ClaimInv, LossesAreAhead, LossesAreOthersClaims
<1> QED BY <1>1, ClaimInvHolds, PTL

\* A directory is given once, to the claim its daemon has in hand.
THEOREM DirectoriesAreKept == Spec => JobsAreNotTakenOver
<1> DEFINE Kept ==
      \A d \in Daemons, i \in Ids :
        jobs'[d][i] # jobs[d][i] =>
          /\ jobs[d][i] = 0
          /\ \E k \in claims : k.claim = jobs'[d][i] /\ k.by = d /\ k.id = i
<1>1. ASSUME ClaimInv, [Next]_vars
      PROVE  [Kept]_vars
  <2> USE DEF ClaimInv
  <2>1. ASSUME NEW d \in Daemons, CreateJob(d)
        PROVE  Kept
    <3>1. d \in Claimers /\ claiming[d].id \in Ids
      BY <1>1, <2>1 DEF Claimers, CreateJob, At, ChoicesAreMade
    <3>2. /\ ClaimInHand(d) \in claims
          /\ ClaimInHand(d).by = d
          /\ \A l \in claims : l.by = d => l.claim <= ClaimInHand(d).claim
      BY <1>1, <2>1, <3>1 DEF CreateJob, At, LatestIsInHand, ClaimInHand
    <3>3. PICK k \in claims : /\ k.by = d /\ k.id = claiming[d].id
                              /\ \A l \in claims : l.by = d => l.claim <= k.claim
      BY <1>1, <2>1, <3>1 DEF CreateJob, At, LatestIsInHand
    <3>4. k.claim = ClaimInHand(d).claim
      <4>1. k.claim \in Nat /\ ClaimInHand(d).claim \in Nat
        BY <1>1, <3>2 DEF TypeOK
      <4>2. k.claim <= ClaimInHand(d).claim /\ ClaimInHand(d).claim <= k.claim
        BY <3>2, <3>3
      <4> QED BY <4>1, <4>2
    <3>5. ASSUME jobs[d][claiming[d].id] = 0,
                 jobs' = [jobs EXCEPT ![d][claiming[d].id] = ClaimInHand(d).claim]
          PROVE  Kept
      BY <1>1, <3>1, <3>3, <3>4, <3>5 DEF TypeOK
    <3>6. CASE jobs' = jobs
      BY <3>6
    <3> QED BY <2>1, <3>5, <3>6 DEF CreateJob
  <2>2. CASE UNCHANGED jobs
    BY <2>2
  <2> QED
    BY <1>1, <2>1, <2>2
    DEF Next, ClaimStep, StartClaim, ListsBranches, PushNegotiates, PushCreates,
        PushReplyIsLost, PushLosesItsRace, ClaimerStops, ContinueJob, SomebodyPushes,
        BranchDeleted, vars
<1> HIDE DEF Kept
<1>2. Spec => [][Kept]_vars
  BY <1>1, ClaimInvHolds, PTL DEF Spec
<1> QED BY <1>2 DEF JobsAreNotTakenOver, Kept
=============================================================================
