--------------------------- MODULE RunnersProofs ---------------------------
(***************************************************************************)
(* What all runners, and the supervision of commands, promise, for any     *)
(* number of lines and restarts: each part by an inductive invariant of    *)
(* its own (CommandInv, DockerInv, LocalInv, and FollowInv of              *)
(* FollowedLogProofs), and the parts together as Runners puts them.        *)
(***************************************************************************)
EXTENDS Runners, FollowedLogProofs, WellFoundedInduction

USE RoundBoundsAssumption

-----------------------------------------------------------------------------
(* Commands.  Where supervise is says which of a command's processes there *)
(* can be; a pipe whose forwarder is done has nothing left in it.          *)

ProcessTypes ==
  /\ leader \in {"none", "running", "exited", "reaped"}
  /\ left \subseteq {"inside", "outside"}
  /\ printed \in Seq(C!Pipes) /\ Len(printed) <= MaxLines

SupervisorTypes ==
  /\ command_pc \in {"spawning", "waiting", "stopping", "ended", "draining", "returned", "over"}
  /\ outcome \in {"none", "exited", "timedOut", "cancelled"}
  /\ forwarders \in [C!Pipes -> {"forwarding", "aborting", "done"}]
  /\ command_frames \in Seq(0 .. MaxLines)
  /\ command_cancelled \in BOOLEAN /\ aborted \in BOOLEAN

LEMMA CommandTypesInParts ==
  /\ C!TypeOK <=> ProcessTypes /\ SupervisorTypes
  /\ C!TypeOK' <=> ProcessTypes' /\ SupervisorTypes'
BY Zenon DEF C!TypeOK, ProcessTypes, SupervisorTypes

StagesOfProcesses ==
  /\ command_pc = "spawning" => leader = "none" /\ left = {}
  /\ command_pc = "waiting" => leader \in {"running", "exited"}
  /\ command_pc = "stopping" => leader = "exited" /\ "inside" \notin left
  /\ command_pc = "ended" => leader = "reaped"
  /\ command_pc \in {"draining", "returned", "over"} =>
       leader \in {"none", "reaped"} /\ "inside" \notin left

\* The lines framed are lines printed; of each pipe, its first.
FramesAreLines ==
  /\ C!Framed \subseteq DOMAIN printed
  /\ \A n \in C!Framed : \A m \in 1 .. n - 1 : printed[m] = printed[n] => m \in C!Framed

FramesAreInOrder ==
  \A i, k \in DOMAIN command_frames :
    i < k /\ command_frames[i] # 0 /\ command_frames[k] # 0 =>
      /\ command_frames[i] # command_frames[k]
      /\ printed[command_frames[i]] = printed[command_frames[k]] =>
           command_frames[i] < command_frames[k]

DonePipesAreEmpty ==
  /\ \A pipe \in C!Pipes :
       forwarders[pipe] = "done" /\ ~ aborted =>
         ~ C!Lives /\ \A n \in DOMAIN printed : printed[n] = pipe => n \in C!Framed
  /\ command_pc \in {"spawning", "returned", "over"} /\ ~ aborted =>
       \A pipe \in C!Pipes : forwarders[pipe] = "done"
  /\ \A pipe \in C!Pipes : forwarders[pipe] = "aborting" => aborted

EventIsLast ==
  /\ (\E k \in DOMAIN command_frames : command_frames[k] = 0) => command_pc = "over"
  /\ \A k \in DOMAIN command_frames :
       command_frames[k] = 0 /\ ~ aborted =>
         DOMAIN printed \subseteq {command_frames[i] : i \in 1 .. k - 1}

CommandInv ==
  /\ C!TypeOK /\ StagesOfProcesses
  /\ FramesAreLines /\ FramesAreInOrder /\ DonePipesAreEmpty /\ EventIsLast

LEMMA CommandInit ==
  ASSUME NEW place \in {"spawning", "over"}, C!InitAt(place)
  PROVE  CommandInv
<1> USE DEF C!InitAt
<1>1. ProcessTypes
  BY DEF ProcessTypes
<1>2. SupervisorTypes
  <2>1. command_cancelled \in BOOLEAN /\ aborted \in BOOLEAN
    BY Zenon
  <2>2. forwarders \in [C!Pipes -> {"forwarding", "aborting", "done"}]
    BY DEF C!Pipes
  <2>3. command_frames \in Seq(0 .. MaxLines)
    OBVIOUS
  <2> QED BY <2>1, <2>2, <2>3 DEF SupervisorTypes
<1>3. StagesOfProcesses
  BY DEF StagesOfProcesses
<1>4. FramesAreLines /\ FramesAreInOrder /\ EventIsLast
  BY DEF FramesAreLines, FramesAreInOrder, EventIsLast, C!Framed, C!Range
<1>5. DonePipesAreEmpty
  BY DEF DonePipesAreEmpty, C!Pipes, C!Lives
<1> QED BY <1>1, <1>2, <1>3, <1>4, <1>5, CommandTypesInParts DEF CommandInv

\* The command's own steps: what it prints is not framed yet.
LEMMA CommandStepKeeps ==
  ASSUME CommandInv, C!CommandStep
  PROVE  CommandInv'
<1> USE DEF CommandInv, C!CommandStep
<1>1. /\ UNCHANGED <<command_pc, outcome, forwarders, command_frames, command_cancelled, aborted>>
      /\ C!Framed' = C!Framed
  BY DEF C!Framed, C!Range
<1>2. /\ printed \in Seq(C!Pipes) /\ Len(printed) \in Nat
      /\ printed' \in Seq(C!Pipes) /\ Len(printed') <= MaxLines
      /\ Len(printed') \in Nat /\ Len(printed) <= Len(printed')
      /\ \A n \in 1 .. Len(printed) : printed'[n] = printed[n]
      /\ ~ C!Lives => printed' = printed
  BY CommandTypesInParts DEF ProcessTypes, C!Prints, C!Forks, C!Exits, C!Lives
<1>3. ProcessTypes'
  BY <1>2, CommandTypesInParts DEF ProcessTypes, C!Prints, C!Forks, C!Exits
<1>4. SupervisorTypes'
  BY <1>1, CommandTypesInParts, Zenon DEF SupervisorTypes
<1>5. StagesOfProcesses'
  BY <1>1 DEF StagesOfProcesses, C!Prints, C!Forks, C!Exits
<1>6. ~ C!Lives => ~ C!Lives'
  BY DEF C!Lives, C!Prints, C!Forks, C!Exits
<1>7. FramesAreLines'
  BY <1>1, <1>2 DEF FramesAreLines
<1>8. \A i \in DOMAIN command_frames : command_frames[i] # 0 => command_frames[i] \in 1 .. Len(printed)
  <2>1. \A i \in DOMAIN command_frames : command_frames[i] # 0 => command_frames[i] \in C!Framed
    BY DEF C!Framed, C!Range
  <2>2. C!Framed \subseteq 1 .. Len(printed)
    BY <1>2 DEF FramesAreLines
  <2> QED BY <2>1, <2>2
<1>9. FramesAreInOrder'
  BY <1>1, <1>2, <1>8 DEF FramesAreInOrder
<1>10. DonePipesAreEmpty'
  BY <1>1, <1>2, <1>6 DEF DonePipesAreEmpty
<1>11. EventIsLast'
  <2>1. (\E k \in DOMAIN command_frames : command_frames[k] = 0) /\ ~ aborted => ~ C!Lives
    BY DEF EventIsLast, DonePipesAreEmpty, C!Pipes
  <2> QED BY <2>1, <1>1, <1>2 DEF EventIsLast
<1> QED BY <1>3, <1>4, <1>5, <1>7, <1>9, <1>10, <1>11, CommandTypesInParts

\* Spawning, ending and killing: the processes, and where supervise is.
LEMMA ProcessStepKeeps ==
  ASSUME CommandInv, C!Spawn \/ C!ProcessStep \/ C!CancelFires
  PROVE  CommandInv'
<1> USE DEF CommandInv, C!Spawn, C!ProcessStep, C!CancelFires, C!SeesExit, C!Stops, C!Reap,
            C!KillsWhatIsLeft, C!KillGroup
<1>1. /\ UNCHANGED <<printed, command_frames, aborted>>
      /\ C!Framed' = C!Framed
      /\ \/ UNCHANGED <<forwarders, leader, left, command_pc>>
         \/ command_pc = "spawning" /\ forwarders' = [pipe \in C!Pipes |-> "forwarding"]
            /\ command_pc' = "waiting"
         \/ /\ UNCHANGED forwarders /\ (~ C!Lives => ~ C!Lives')
            /\ command_pc # "over" /\ command_pc' # "returned"
            /\ command_pc' = "over" => command_pc = "spawning" /\ UNCHANGED <<leader, left>>
  BY DEF C!Framed, C!Range, C!processes, C!Lives
<1>2. ProcessTypes'
  BY <1>1, CommandTypesInParts DEF ProcessTypes, C!processes
<1>3. SupervisorTypes'
  <2>1. /\ command_pc' \in {"spawning", "waiting", "stopping", "ended", "draining", "returned", "over"}
        /\ outcome' \in {"none", "exited", "timedOut", "cancelled"}
    BY CommandTypesInParts DEF SupervisorTypes
  <2>2. forwarders' \in [C!Pipes -> {"forwarding", "aborting", "done"}]
    BY CommandTypesInParts DEF SupervisorTypes
  <2>3. command_cancelled' \in BOOLEAN /\ aborted' \in BOOLEAN
    BY CommandTypesInParts DEF SupervisorTypes
  <2>4. command_frames' \in Seq(0 .. MaxLines)
    BY <1>1, CommandTypesInParts DEF SupervisorTypes
  <2> QED BY <2>1, <2>2, <2>3, <2>4 DEF SupervisorTypes
<1>4. StagesOfProcesses'
  BY DEF StagesOfProcesses, C!processes
<1>5. FramesAreLines' /\ FramesAreInOrder'
  BY <1>1 DEF FramesAreLines, FramesAreInOrder
<1>6. DonePipesAreEmpty'
  BY <1>1 DEF DonePipesAreEmpty, C!Lives, C!Pipes
<1>7. EventIsLast'
  BY <1>1 DEF EventIsLast
<1> QED BY <1>2, <1>3, <1>4, <1>5, <1>6, <1>7, CommandTypesInParts

\* A line is framed after those before it in its pipe, and once.
LEMMA ForwardKeeps ==
  ASSUME CommandInv, NEW pipe \in C!Pipes, C!Forward(pipe)
  PROVE  CommandInv'
<1> USE DEF CommandInv, C!Forward
<1>1. PICK n \in DOMAIN printed \ C!Framed :
        /\ printed[n] = pipe /\ \A m \in 1 .. n - 1 : printed[m] = pipe => m \in C!Framed
        /\ command_frames' = Append(command_frames, n)
  OBVIOUS
<1>2. /\ UNCHANGED <<leader, left, printed, command_pc, outcome, forwarders, command_cancelled, aborted>>
      /\ forwarders[pipe] # "done"
  BY DEF C!processes
<1>3. /\ printed \in Seq(C!Pipes) /\ DOMAIN printed = 1 .. Len(printed) /\ Len(printed) \in Nat
      /\ Len(printed) <= MaxLines
      /\ n \in 1 .. Len(printed)
  BY CommandTypesInParts DEF ProcessTypes
<1> DEFINE size == Len(command_frames)
<1>4. command_frames \in Seq(0 .. MaxLines) /\ size \in Nat
  BY CommandTypesInParts DEF SupervisorTypes
<1>5. /\ command_frames' \in Seq(0 .. MaxLines)
      /\ DOMAIN command_frames = 1 .. size /\ DOMAIN command_frames' = 1 .. size + 1
      /\ \A i \in 1 .. size : command_frames'[i] = command_frames[i]
      /\ command_frames'[size + 1] = n
  BY <1>1, <1>3, <1>4
<1> HIDE DEF size
<1>6. C!Framed' = C!Framed \cup {n}
  <2>1. C!Framed = {command_frames[i] : i \in 1 .. size} \ {0}
    BY <1>5 DEF C!Framed, C!Range
  <2>2. C!Framed' = {command_frames'[i] : i \in 1 .. size + 1} \ {0}
    BY <1>5 DEF C!Framed, C!Range
  <2>3. {command_frames'[i] : i \in 1 .. size + 1} = {command_frames[i] : i \in 1 .. size} \cup {n}
    BY <1>4, <1>5
  <2>4. n # 0
    BY <1>3
  <2> QED BY <2>1, <2>2, <2>3, <2>4, Zenon
<1>7. ProcessTypes' /\ StagesOfProcesses'
  BY <1>2, CommandTypesInParts DEF ProcessTypes, StagesOfProcesses
<1>8. SupervisorTypes'
  BY <1>2, <1>5, CommandTypesInParts, Zenon DEF SupervisorTypes
<1>9. FramesAreLines'
  BY <1>1, <1>2, <1>3, <1>6 DEF FramesAreLines
<1>10. FramesAreInOrder'
  <2> SUFFICES ASSUME NEW i \in 1 .. size + 1, NEW k \in 1 .. size + 1, i < k,
                      command_frames'[i] # 0, command_frames'[k] # 0
               PROVE  /\ command_frames'[i] # command_frames'[k]
                      /\ printed[command_frames'[i]] = printed[command_frames'[k]] =>
                           command_frames'[i] < command_frames'[k]
    BY <1>2, <1>5 DEF FramesAreInOrder
  <2>1. CASE k <= size
    BY <2>1, <1>4, <1>5 DEF FramesAreInOrder
  <2>2. CASE k = size + 1
    <3>1. command_frames'[k] = n /\ command_frames'[i] = command_frames[i] /\ i \in 1 .. size
      BY <2>2, <1>4, <1>5
    <3>2. command_frames[i] \in C!Framed /\ command_frames[i] \in 1 .. Len(printed)
      BY <3>1, <1>3, <1>5 DEF FramesAreLines, C!Framed, C!Range
    <3>3. ASSUME printed[command_frames[i]] = printed[n], ~ (command_frames[i] < n)
          PROVE  FALSE
      <4>1. n \in 1 .. command_frames[i] - 1
        BY <3>2, <3>3, <1>1, <1>3
      <4> QED BY <4>1, <3>2, <3>3, <1>1 DEF FramesAreLines
    <3> QED BY <3>1, <3>2, <3>3, <1>1
  <2>3. k <= size \/ k = size + 1
    BY <1>4
  <2> QED BY <2>1, <2>2, <2>3, Zenon
<1>11. DonePipesAreEmpty'
  BY <1>2, <1>6 DEF DonePipesAreEmpty, C!Lives
<1>12. EventIsLast'
  <2>1. \A k \in 1 .. size + 1 : command_frames'[k] = 0 => k \in 1 .. size /\ command_frames[k] = 0
    BY <1>3, <1>4, <1>5
  <2>2. \A k \in 1 .. size : \A i \in 1 .. k - 1 : command_frames'[i] = command_frames[i]
    BY <1>4, <1>5
  <2>3. \A k \in 1 .. size :
          {command_frames'[i] : i \in 1 .. k - 1} = {command_frames[i] : i \in 1 .. k - 1}
    <3> TAKE k \in 1 .. size
    <3>1. \A i \in 1 .. k - 1 : command_frames'[i] = command_frames[i]
      BY <2>2
    <3>2. {command_frames'[i] : i \in 1 .. k - 1} \subseteq {command_frames[i] : i \in 1 .. k - 1}
      BY <3>1
    <3>3. {command_frames[i] : i \in 1 .. k - 1} \subseteq {command_frames'[i] : i \in 1 .. k - 1}
      BY <3>1
    <3> QED BY <3>2, <3>3
  <2>4. /\ (\E k \in DOMAIN command_frames' : command_frames'[k] = 0) => command_pc = "over"
        /\ \A k \in DOMAIN command_frames' :
             command_frames'[k] = 0 /\ ~ aborted =>
               DOMAIN printed \subseteq {command_frames'[i] : i \in 1 .. k - 1}
    BY <2>1, <2>3, <1>5 DEF EventIsLast
  <2> QED BY <2>4, <1>2 DEF EventIsLast
<1> QED BY <1>7, <1>8, <1>9, <1>10, <1>11, <1>12, CommandTypesInParts

\* A pipe is done once it is closed and read, or given up.
LEMMA PipeEndsKeep ==
  ASSUME CommandInv,
         (\E pipe \in C!Pipes : C!Close(pipe) \/ C!Aborts(pipe)) \/ C!Drained \/ C!DrainGraceOver,
         UNCHANGED <<leader, left, printed, outcome, command_cancelled>>
  PROVE  CommandInv'
<1> USE DEF CommandInv, C!Close, C!Aborts, C!Drained, C!DrainGraceOver, C!GraceEnds
<1>1. /\ UNCHANGED <<leader, left, printed, outcome, command_frames, command_cancelled>>
      /\ C!Framed' = C!Framed /\ C!Lives' = C!Lives
  BY DEF C!Framed, C!Range, C!Lives
<1>2. command_pc' = command_pc \/ (command_pc = "draining" /\ command_pc' = "returned")
  OBVIOUS
<1>3. ProcessTypes' /\ StagesOfProcesses'
  BY <1>1, <1>2, CommandTypesInParts DEF ProcessTypes, StagesOfProcesses
<1>4. SupervisorTypes'
  <2>1. forwarders' \in [C!Pipes -> {"forwarding", "aborting", "done"}]
    BY CommandTypesInParts DEF SupervisorTypes
  <2>2. aborted' \in BOOLEAN
    BY CommandTypesInParts DEF SupervisorTypes
  <2> QED BY <2>1, <2>2, <1>1, <1>2, CommandTypesInParts DEF SupervisorTypes
<1>5. FramesAreLines' /\ FramesAreInOrder'
  BY <1>1 DEF FramesAreLines, FramesAreInOrder
<1>6. forwarders \in [C!Pipes -> {"forwarding", "aborting", "done"}]
  BY CommandTypesInParts DEF SupervisorTypes
<1>7. DonePipesAreEmpty'
  <2>1. CASE C!Drained \/ C!DrainGraceOver
    BY <2>1, <1>1, <1>6 DEF DonePipesAreEmpty
  <2>2. ASSUME NEW pipe \in C!Pipes, C!Close(pipe) \/ C!Aborts(pipe)
        PROVE  DonePipesAreEmpty'
    BY <2>2, <1>1, <1>6 DEF DonePipesAreEmpty
  <2> QED BY <2>1, <2>2
<1>8. EventIsLast'
  <2>1. aborted => aborted'
    OBVIOUS
  <2> QED BY <2>1, <1>1, <1>2 DEF EventIsLast
<1> QED BY <1>3, <1>4, <1>5, <1>7, <1>8, CommandTypesInParts

\* The event comes after all that was printed.
LEMMA NextEventKeeps ==
  ASSUME CommandInv, C!NextEvent,
         UNCHANGED <<leader, left, printed, outcome, command_cancelled>>
  PROVE  CommandInv'
<1> USE DEF CommandInv, C!NextEvent
<1> DEFINE size == Len(command_frames)
<1>1. command_frames \in Seq(0 .. MaxLines) /\ size \in Nat
  BY CommandTypesInParts DEF SupervisorTypes
<1>2. /\ command_frames' \in Seq(0 .. MaxLines)
      /\ DOMAIN command_frames = 1 .. size /\ DOMAIN command_frames' = 1 .. size + 1
      /\ \A i \in 1 .. size : command_frames'[i] = command_frames[i]
      /\ command_frames'[size + 1] = 0
  BY <1>1
<1> HIDE DEF size
<1>3. C!Framed' = C!Framed /\ C!Lives' = C!Lives
  BY <1>1, <1>2 DEF C!Framed, C!Range, C!Lives
<1>4. ProcessTypes' /\ StagesOfProcesses'
  BY CommandTypesInParts DEF ProcessTypes, StagesOfProcesses
<1>5. SupervisorTypes'
  BY <1>2, CommandTypesInParts, Zenon DEF SupervisorTypes
<1>6. FramesAreLines'
  BY <1>3 DEF FramesAreLines
<1>7. FramesAreInOrder'
  BY <1>1, <1>2 DEF FramesAreInOrder
<1>8. DonePipesAreEmpty'
  BY <1>3 DEF DonePipesAreEmpty
<1>9. EventIsLast'
  <2>1. \A k \in 1 .. size : command_frames[k] # 0
    BY <1>2 DEF EventIsLast
  <2>2. ~ aborted => DOMAIN printed \subseteq C!Framed
    <3>1. \A n \in DOMAIN printed : printed[n] \in C!Pipes
      BY CommandTypesInParts DEF ProcessTypes
    <3> QED BY <3>1 DEF DonePipesAreEmpty
  <2>3. C!Framed \subseteq {command_frames'[i] : i \in 1 .. size}
    BY <1>1, <1>2 DEF C!Framed, C!Range
  <2> QED BY <2>1, <2>2, <2>3, <1>1, <1>2 DEF EventIsLast
<1> QED BY <1>4, <1>5, <1>6, <1>7, <1>8, <1>9, CommandTypesInParts

LEMMA CommandInvKeeps ==
  CommandInv /\ [C!Next]_command_vars => CommandInv'
<1> SUFFICES ASSUME CommandInv, [C!Next]_command_vars PROVE CommandInv'
  OBVIOUS
<1>1. CASE C!CommandStep
  BY <1>1, CommandStepKeeps
<1>2. CASE C!Spawn \/ C!ProcessStep \/ C!CancelFires
  BY <1>2, ProcessStepKeeps
<1>3. CASE C!DrainStep
  BY <1>3, PipeEndsKeep, NextEventKeeps DEF C!DrainStep, C!processes
<1>4. CASE C!ForwardStep
  BY <1>4, ForwardKeeps, PipeEndsKeep DEF C!ForwardStep, C!Close, C!Aborts, C!processes
<1>5. CASE UNCHANGED command_vars
  <2>1. UNCHANGED <<leader, left, printed, command_pc, outcome, forwarders, command_frames,
                    command_cancelled, aborted>>
    BY <1>5 DEF command_vars
  <2>2. C!Framed' = C!Framed /\ C!Lives' = C!Lives
    BY <2>1 DEF C!Framed, C!Range, C!Lives
  <2>3. C!TypeOK'
    BY <2>1, Zenon DEF CommandInv, C!TypeOK
  <2>4. StagesOfProcesses' /\ FramesAreLines' /\ FramesAreInOrder' /\ EventIsLast'
    BY <2>1, <2>2
    DEF CommandInv, StagesOfProcesses, FramesAreLines, FramesAreInOrder, EventIsLast
  <2>5. DonePipesAreEmpty'
    BY <2>1, <2>2 DEF CommandInv, DonePipesAreEmpty
  <2> QED BY <2>3, <2>4, <2>5 DEF CommandInv
<1> QED BY <1>1, <1>2, <1>3, <1>4, <1>5 DEF C!Next

-----------------------------------------------------------------------------
(* Docker.  Where the daemon is says what has become of the container; a   *)
(* follow that was not cut off has ended at the end of the log.            *)

ContainerTypes ==
  /\ container \in {"none", "created", "running", "exited", "removed"}
  /\ docker_ending \in {"zero", "nonzero", "oom"}
  /\ docker_log \in Seq(D!Pipes) /\ Len(docker_log) <= MaxLines

DockerPlaces ==
  /\ docker_pc \in D!Launching \cup D!Collecting \cup D!Over \cup {"down"}
  /\ stopping \in {"none", "sent", "done"}
  /\ docker_termination \in {"none", "exited", "killed"} /\ code \in {"none", "exited", "killed"}

DockerFollowTypes ==
  /\ passed \in Seq(1 .. MaxLines)
  /\ cut \in BOOLEAN /\ unwaited \in BOOLEAN /\ docker_restarts \in 0 .. MaxRestarts

LEMMA DockerTypesInParts ==
  /\ D!TypeOK <=> ContainerTypes /\ DockerPlaces /\ DockerFollowTypes
  /\ D!TypeOK' <=> ContainerTypes' /\ DockerPlaces' /\ DockerFollowTypes'
BY Zenon DEF D!TypeOK, ContainerTypes, DockerPlaces, DockerFollowTypes

StagesOfContainers ==
  /\ docker_pc = "creating" => container = "none"
  /\ docker_pc \in D!Launching => code = "none"
  /\ docker_pc \in D!Collecting \cup {"started", "down"} =>
       container \in {"running", "exited", "removed"}
  /\ docker_pc \in {"inspecting", "removing"} => container # "running" \/ unwaited
  /\ docker_pc = "removing" => code # "none"
  /\ code = "exited" \/ docker_pc = "inspecting" => container # "running"
  /\ docker_termination # "none" => docker_pc = "over"

ContainersAreRead ==
  docker_pc \in D!Collecting \ {"following"} /\ ~ cut =>
    container # "running" /\ DOMAIN docker_log \subseteq D!Range(passed)

DockerInv == D!TypeOK /\ StagesOfContainers /\ ContainersAreRead

LEMMA HasAMinimum ==
  ASSUME NEW S \in SUBSET Nat, S # {}
  PROVE  \E i \in S : \A k \in S : i <= k
<1> DEFINE Before == {ss \in Nat \X Nat : ss[1] < ss[2]}
<1>1. IsWellFoundedOn(Before, Nat)
  BY NatLessThanWellFounded, Zenon DEF OpToRel
<1>2. PICK i \in S : \A k \in S : <<k, i>> \notin Before
  <2> HIDE DEF Before
  <2> QED BY <1>1, WFMin
<1>3. ASSUME NEW k \in S PROVE i <= k
  <2>1. ~ (k < i) /\ k \in Nat /\ i \in Nat
    BY <1>2
  <2> QED BY <2>1
<1> QED BY <1>3

\* If no line comes next, none is left: else the first left would.
LEMMA NothingFollows ==
  ASSUME D!NextLines = {}, docker_log \in Seq(D!Pipes)
  PROVE  DOMAIN docker_log \subseteq D!Range(passed)
<1> SUFFICES ASSUME NEW n \in DOMAIN docker_log, n \notin D!Range(passed) PROVE FALSE
  OBVIOUS
<1> DEFINE Left == DOMAIN docker_log \ D!Range(passed)
<1>1. Left \subseteq Nat /\ Left # {}
  OBVIOUS
<1>2. PICK m \in Left : \A k \in Left : m <= k
  <2> HIDE DEF Left
  <2> QED BY <1>1, HasAMinimum
<1>3. \A k \in 1 .. m - 1 : k \in D!Range(passed)
  BY <1>2
<1>4. m \in D!NextLines
  BY <1>2, <1>3 DEF D!NextLines
<1> QED BY <1>4

LEMMA DockerInit ==
  ASSUME NEW place \in {"creating", "over"}, D!InitAt(place)
  PROVE  DockerInv
<1> USE DEF D!InitAt
<1>1. ContainerTypes /\ DockerPlaces
  BY DEF ContainerTypes, DockerPlaces, D!Launching, D!Over
<1>2. DockerFollowTypes
  <2>1. cut \in BOOLEAN /\ unwaited \in BOOLEAN
    BY Zenon
  <2> QED BY <2>1 DEF DockerFollowTypes
<1>3. StagesOfContainers /\ ContainersAreRead
  BY DEF StagesOfContainers, ContainersAreRead, D!Collecting
<1> QED BY <1>1, <1>2, <1>3, DockerTypesInParts DEF DockerInv

LEMMA DockerTypesKeep ==
  ASSUME DockerInv, D!Next
  PROVE  D!TypeOK'
<1> USE DEF DockerInv
<1>1. ContainerTypes /\ DockerPlaces /\ DockerFollowTypes
  BY DockerTypesInParts
<1>2. CASE D!EngineStep \/ D!StopEnds
  <2>1. ContainerTypes'
    BY <1>1, <1>2
    DEF ContainerTypes, D!EngineStep, D!StopEnds, D!Prints, D!Exits, D!Pruned, D!engine
  <2>2. DockerPlaces' /\ DockerFollowTypes'
    BY <1>1, <1>2, Zenon DEF DockerPlaces, DockerFollowTypes, D!EngineStep, D!StopEnds
  <2> QED BY <2>1, <2>2, DockerTypesInParts
<1>3. CASE D!LaunchStep \/ D!FollowStarted \/ D!Killed \/ D!Reattach
  <2> USE <1>3 DEF D!LaunchStep, D!Create, D!CancelLaunch, D!Start, D!CleanUp,
                   D!RemoveContainer, D!FollowStarted, D!Follow, D!Killed, D!Reattach
  <2>1. ContainerTypes'
    BY <1>1 DEF ContainerTypes, D!engine
  <2>2. DockerPlaces'
    BY <1>1 DEF DockerPlaces, D!Launching, D!Collecting, D!Over
  <2>3. cut' \in BOOLEAN /\ unwaited' \in BOOLEAN
    BY <1>1, Zenon DEF DockerFollowTypes
  <2>4. passed' \in Seq(1 .. MaxLines)
    <3>1. passed' = passed \/ passed' = <<>>
      OBVIOUS
    <3>2. passed \in Seq(1 .. MaxLines) /\ <<>> \in Seq(1 .. MaxLines)
      BY <1>1 DEF DockerFollowTypes
    <3> QED BY <3>1, <3>2, Zenon
  <2>5. docker_restarts' \in 0 .. MaxRestarts
    <3>1. docker_restarts' = docker_restarts
          \/ (docker_restarts < MaxRestarts /\ docker_restarts' = docker_restarts + 1)
      OBVIOUS
    <3> QED BY <1>1, <3>1 DEF DockerFollowTypes
  <2> QED BY <2>1, <2>2, <2>3, <2>4, <2>5, DockerTypesInParts DEF DockerFollowTypes
<1>4. CASE D!NextLine
  <2> USE <1>4 DEF D!NextLine, D!PassLine, D!FollowEnds, D!FollowDrops
  <2>1. ContainerTypes'
    BY <1>1, Zenon DEF ContainerTypes, D!engine
  <2>2. DockerPlaces'
    BY <1>1 DEF DockerPlaces, D!Collecting
  <2>3. cut' \in BOOLEAN /\ unwaited' \in BOOLEAN /\ docker_restarts' \in 0 .. MaxRestarts
    BY <1>1, Zenon DEF DockerFollowTypes
  <2>4. \A n \in D!NextLines : n \in 1 .. MaxLines
    BY <1>1 DEF ContainerTypes, D!NextLines
  <2>5. passed' = passed \/ \E n \in D!NextLines : passed' = Append(passed, n)
    OBVIOUS
  <2>6. passed' \in Seq(1 .. MaxLines)
    BY <1>1, <2>4, <2>5 DEF DockerFollowTypes
  <2> QED BY <2>1, <2>2, <2>3, <2>6, DockerTypesInParts DEF DockerFollowTypes
<1>5. CASE D!Cancel \/ D!TerminationStep \/ D!Terminate
  <2> USE <1>5 DEF D!Cancel, D!TerminationStep, D!WaitForStop, D!DockerWait, D!Inspect,
                   D!Terminate, D!RemoveContainer
  <2>1. ContainerTypes'
    BY <1>1 DEF ContainerTypes, D!engine
  <2>2. DockerPlaces'
    BY <1>1 DEF DockerPlaces, D!Launching, D!Collecting, D!Over
  <2>3. DockerFollowTypes'
    BY <1>1, Zenon DEF DockerFollowTypes
  <2> QED BY <2>1, <2>2, <2>3, DockerTypesInParts
<1> QED BY <1>2, <1>3, <1>4, <1>5 DEF D!Next

LEMMA StagesOfContainersKeep ==
  ASSUME DockerInv, D!Next
  PROVE  StagesOfContainers'
<1> USE DEF DockerInv, StagesOfContainers, D!Launching, D!Collecting, D!Over, D!engine
<1>1. CASE D!EngineStep \/ D!StopEnds
  BY <1>1 DEF D!EngineStep, D!StopEnds, D!Prints, D!Exits, D!Pruned
<1>2. CASE D!LaunchStep
  BY <1>2
  DEF D!LaunchStep, D!Create, D!CancelLaunch, D!Start, D!CleanUp, D!RemoveContainer
<1>3. CASE D!FollowStarted \/ D!Killed \/ D!Reattach
  <2>1. UNCHANGED <<container, docker_termination>> /\ code' \in {code, "none"}
    BY <1>3 DEF D!FollowStarted, D!Follow, D!Killed, D!Reattach
  <2>2. docker_pc \notin D!Over
    BY <1>3 DEF D!FollowStarted, D!Killed, D!Reattach
  <2>3. \/ docker_pc' \in {"launchFailed", "lost"}
        \/ docker_pc' \in {"following", "down"} /\ container \in {"running", "exited", "removed"}
    <3>1. CASE D!FollowStarted
      BY <3>1 DEF D!FollowStarted
    <3>2. CASE D!Reattach
      BY <3>2 DEF D!Reattach
    <3>3. CASE D!Killed
      <4>1. docker_pc \in D!Launching \/ docker_pc \in D!Collecting
        BY <3>3, DockerTypesInParts DEF D!Killed, DockerPlaces
      <4> QED BY <3>3, <4>1 DEF D!Killed
    <3> QED BY <1>3, <3>1, <3>2, <3>3
  <2> QED BY <2>1, <2>2, <2>3
<1>4. CASE D!NextLine \/ D!Cancel
  BY <1>4 DEF D!NextLine, D!PassLine, D!FollowEnds, D!FollowDrops, D!Cancel
<1>5. CASE D!TerminationStep \/ D!Terminate
  BY <1>5, DockerTypesInParts
  DEF D!TerminationStep, D!WaitForStop, D!DockerWait, D!Inspect, D!Terminate,
      D!RemoveContainer, DockerPlaces
<1> QED BY <1>1, <1>2, <1>4, <1>5, <1>3 DEF D!Next

LEMMA ContainersAreReadKeeps ==
  ASSUME DockerInv, D!Next
  PROVE  ContainersAreRead'
<1> USE DEF DockerInv, ContainersAreRead, D!Collecting, D!engine
<1>1. CASE D!EngineStep \/ D!StopEnds
  BY <1>1 DEF D!EngineStep, D!StopEnds, D!Prints, D!Exits, D!Pruned, D!Range
<1>2. CASE D!LaunchStep \/ D!FollowStarted \/ D!Killed \/ D!Reattach
  BY <1>2 DEF D!LaunchStep, D!Create, D!CancelLaunch, D!Start, D!CleanUp,
              D!FollowStarted, D!Killed, D!Reattach, D!Over
<1>3. CASE D!NextLine
  BY <1>3, NothingFollows, DockerTypesInParts
  DEF D!NextLine, D!PassLine, D!FollowEnds, D!FollowDrops, ContainerTypes, D!Range
<1>4. CASE D!Cancel \/ D!TerminationStep \/ D!Terminate
  BY <1>4
  DEF D!Cancel, D!TerminationStep, D!WaitForStop, D!DockerWait, D!Inspect, D!Terminate, D!Range
<1> QED BY <1>1, <1>2, <1>3, <1>4 DEF D!Next

LEMMA DockerInvKeeps ==
  DockerInv /\ [D!Next]_docker_vars => DockerInv'
<1> SUFFICES ASSUME DockerInv, [D!Next]_docker_vars PROVE DockerInv'
  OBVIOUS
<1>1. CASE D!Next
  BY <1>1, DockerTypesKeep, StagesOfContainersKeep, ContainersAreReadKeeps DEF DockerInv
<1>2. CASE UNCHANGED docker_vars
  <2>1. UNCHANGED <<container, docker_ending, docker_log, docker_pc, stopping,
                    docker_termination, code, passed, cut, unwaited, docker_restarts>>
    BY <1>2 DEF docker_vars
  <2>2. D!TypeOK'
    <3>1. ContainerTypes' /\ DockerPlaces'
      BY <2>1, DockerTypesInParts DEF DockerInv, ContainerTypes, DockerPlaces
    <3>2. DockerFollowTypes'
      BY <2>1, DockerTypesInParts DEF DockerInv, DockerFollowTypes
    <3> QED BY <3>1, <3>2, DockerTypesInParts
  <2> QED BY <2>1, <2>2 DEF DockerInv, StagesOfContainers, ContainersAreRead, D!Range
<1> QED BY <1>1, <1>2

LEMMA RemovingStep ==
  DockerInv /\ [D!Next]_docker_vars =>
    (container = "running" /\ container' = "removed" => docker_pc = "cleaning" \/ unwaited)
<1> USE DEF D!engine
<1>1. ASSUME DockerInv, D!Next, container = "running", container' = "removed"
      PROVE  docker_pc = "cleaning" \/ unwaited
  BY <1>1
  DEF DockerInv, StagesOfContainers, D!Next, D!EngineStep, D!StopEnds, D!Prints, D!Exits,
      D!Pruned, D!LaunchStep, D!Create, D!CancelLaunch, D!Start, D!CleanUp, D!FollowStarted,
      D!Killed, D!Reattach, D!NextLine, D!Cancel, D!TerminationStep, D!Terminate
<1> QED BY <1>1 DEF docker_vars

ContainerIsOver == container \in {"exited", "removed"}

LEMMA DockerStreamStep ==
  DockerInv /\ [D!Next]_docker_vars => [D!Stream!Next]_(D!Stream!vars)
<1> SUFFICES ASSUME DockerInv, [D!Next]_docker_vars PROVE [D!Stream!Next]_(D!Stream!vars)
  OBVIOUS
<1> USE DEF D!engine
<1>1. ASSUME UNCHANGED <<docker_log, passed, cut, docker_termination>>,
             ContainerIsOver' = ContainerIsOver
      PROVE  UNCHANGED D!Stream!vars
  BY <1>1 DEF D!Stream!vars, ContainerIsOver
<1>2. CASE D!EngineStep
  <2>1. CASE D!Prints
    <3>1. D!Stream!RoundPrints
      BY <1>2, <2>1 DEF D!EngineStep, D!Prints, D!Stream!RoundPrints, D!Pipes
    <3> QED BY <3>1 DEF D!Stream!Next
  <2>2. CASE D!Exits \/ D!Pruned
    <3>1. UNCHANGED <<docker_log, passed, cut, docker_termination>> /\ ContainerIsOver'
      BY <1>2, <2>2 DEF D!EngineStep, D!Exits, D!Pruned, ContainerIsOver
    <3>2. CASE ContainerIsOver
      BY <1>1, <3>1, <3>2
    <3>3. CASE ~ ContainerIsOver
      <4>1. D!Stream!RoundEnds
        BY <3>1, <3>3 DEF D!Stream!RoundEnds, ContainerIsOver
      <4> QED BY <4>1 DEF D!Stream!Next
    <3> QED BY <3>2, <3>3
  <2> QED BY <1>2, <2>1, <2>2 DEF D!EngineStep
<1>3. CASE D!LaunchStep
  <2>1. /\ UNCHANGED <<docker_log, passed, cut, docker_termination>>
        /\ ContainerIsOver => ContainerIsOver'
    BY <1>3
    DEF D!LaunchStep, D!Create, D!CancelLaunch, D!Start, D!CleanUp, D!RemoveContainer,
        ContainerIsOver, DockerInv, StagesOfContainers
  <2>2. CASE ContainerIsOver' = ContainerIsOver
    BY <1>1, <2>1, <2>2
  <2>3. CASE ~ ContainerIsOver /\ ContainerIsOver'
    <3>1. D!Stream!RoundEnds
      BY <2>1, <2>3 DEF D!Stream!RoundEnds, ContainerIsOver
    <3> QED BY <3>1 DEF D!Stream!Next
  <2> QED BY <2>1, <2>2, <2>3 DEF ContainerIsOver
<1>4. CASE D!FollowStarted \/ D!Reattach
  <2>1. CASE D!Follow
    <3>1. D!Stream!Reattaches
      BY <1>4, <2>1
      DEF D!FollowStarted, D!Reattach, D!Follow, D!Stream!Reattaches, DockerInv, StagesOfContainers
    <3> QED BY <3>1 DEF D!Stream!Next
  <2>2. CASE UNCHANGED <<passed, cut>>
    BY <1>1, <1>4, <2>2 DEF D!FollowStarted, D!Reattach, ContainerIsOver
  <2> QED BY <1>4, <2>1, <2>2 DEF D!FollowStarted, D!Reattach
<1>5. CASE D!StopEnds \/ D!Killed \/ D!Cancel \/ D!TerminationStep \/ UNCHANGED docker_vars
  <2>1. UNCHANGED <<container, docker_log, passed, cut, docker_termination>>
    BY <1>5 DEF D!StopEnds, D!Killed, D!Cancel, D!TerminationStep, docker_vars
  <2> QED BY <1>1, <2>1 DEF ContainerIsOver
<1>6. CASE D!NextLine
  <2>1. /\ UNCHANGED <<container, docker_log, docker_termination>> /\ docker_termination = "none"
        /\ cut' = cut \/ cut' = TRUE
    BY <1>6
    DEF D!NextLine, D!PassLine, D!FollowEnds, D!FollowDrops, DockerInv, StagesOfContainers
  <2>2. ASSUME NEW n \in D!NextLines, passed' = Append(passed, n)
        PROVE  D!Stream!Passes
    <3>1. n \in D!Stream!Following
      BY <2>2 DEF D!NextLines, D!Stream!Following, D!Range, D!Stream!Range
    <3> QED BY <2>1, <2>2, <3>1 DEF D!Stream!Passes
  <2>3. CASE UNCHANGED <<passed, cut>>
    BY <1>1, <2>1, <2>3 DEF ContainerIsOver
  <2>4. CASE passed' = passed /\ cut' = TRUE
    <3>1. D!Stream!Cuts
      BY <2>1, <2>4 DEF D!Stream!Cuts
    <3> QED BY <3>1 DEF D!Stream!Next
  <2> QED BY <1>6, <2>2, <2>3, <2>4
      DEF D!NextLine, D!PassLine, D!FollowEnds, D!FollowDrops, D!Stream!Next
<1>7. CASE D!Terminate
  <2>1. /\ UNCHANGED <<docker_log, passed, cut>>
        /\ docker_termination = "none" /\ docker_termination' = code /\ code # "none"
        /\ ContainerIsOver' = ContainerIsOver \/ ContainerIsOver' = TRUE
    BY <1>7 DEF D!Terminate, D!RemoveContainer, DockerInv, StagesOfContainers, ContainerIsOver
  <2>2. code = "exited" => ContainerIsOver /\ (cut \/ DOMAIN docker_log \subseteq D!Range(passed))
    BY <1>7
    DEF D!Terminate, DockerInv, StagesOfContainers, ContainersAreRead, D!Collecting, ContainerIsOver
  <2>3. code \in {"exited", "killed"}
    BY <2>1, DockerTypesInParts DEF DockerInv, DockerPlaces
  <2>4. D!Stream!Terminates
    BY <2>1, <2>2, <2>3 DEF D!Stream!Terminates, D!Range, D!Stream!Range, ContainerIsOver
  <2> QED BY <2>4 DEF D!Stream!Next
<1> QED BY <1>2, <1>3, <1>4, <1>5, <1>6, <1>7 DEF D!Next

-----------------------------------------------------------------------------
(* Local rounds.  Whose the round's pid can be depends on who its child    *)
(* is; and the halves handed on, with those kept, are those before `at`.   *)

MachineTypes == pid \in L!Holders /\ frames \in 0 .. 2 * MaxLines

TailTypes ==
  at \in 0 .. frames /\ partial \in Seq(1 .. frames) /\ local_handed \in Seq(Seq(1 .. frames))

LocalPlaces ==
  /\ local_pc \in L!Reading \cup L!Over \cup {"launching", "ended", "down"}
  /\ ours \in {"none", "child", "reaped"}
  /\ local_termination \in {"none", "exited", "killed"} /\ signalled \subseteq L!Holders

LocalCounts ==
  /\ writer_alive \in BOOLEAN /\ unread \in BOOLEAN
  /\ cancels \in 0 .. 2 /\ local_restarts \in 0 .. MaxRestarts

LEMMA LocalTypesInParts ==
  /\ L!TypeOK <=> MachineTypes /\ TailTypes /\ LocalPlaces /\ LocalCounts
  /\ L!TypeOK' <=> MachineTypes' /\ TailTypes' /\ LocalPlaces' /\ LocalCounts'
BY Zenon DEF L!TypeOK, MachineTypes, TailTypes, LocalPlaces, LocalCounts

StagesOfPids ==
  /\ local_pc \in {"launching", "launchFailed"} => pid = "none"
  /\ pid = "none" => local_pc \in {"launching", "launchFailed", "over"}
  /\ ours = "child" => pid \in {"round", "exited"}
  /\ ours = "reaped" => L!RoundIsOver
  /\ local_pc \in {"launching", "down"} => ours = "none"
  /\ pid = "exited" => ours = "child"
  /\ local_pc = "reading" /\ ~ writer_alive => L!RoundIsOver
  /\ local_pc = "ended" => L!RoundIsOver /\ (unread \/ (at = frames /\ partial = <<>>))
  /\ local_termination # "none" => local_pc = "over"

\* No more of the file will be written.
FileIsRead == unread \/ (at = frames /\ L!RoundIsOver)

InALine == at = 2 * (at \div 2) + 1

\* A half line is kept, or the file was taken to end with it.
PartIsOfALine ==
  /\ partial # <<>> => partial = <<at>> /\ InALine
  /\ InALine /\ partial = <<>> => FileIsRead

\* What LocalRound's LineOf is of, and what is handed on of line n.
LineIn(halves, length, is_cut) ==
  LET n == (halves[1] + 1) \div 2
  IN  IF \/ halves = <<2 * n - 1, 2 * n>>
         \/ halves = <<2 * n - 1>> /\ (length = 2 * n - 1 \/ is_cut)
      THEN n ELSE 0

HandedOf(n, halves, length, is_cut, is_over) ==
  \/ halves = <<2 * n - 1, 2 * n>>
  \/ halves = <<2 * n>> /\ is_cut
  \/ halves = <<2 * n - 1>> /\ (is_cut \/ (length = 2 * n - 1 /\ is_over))

HandedAreLines ==
  \A i \in DOMAIN local_handed : \E n \in Nat \ {0} :
    HandedOf(n, local_handed[i], frames, unread, L!RoundIsOver)

PassedLines == [i \in DOMAIN local_handed |-> LineIn(local_handed[i], frames, unread)]

\* The lines that are passed on, with one that is kept not among them.
LinesBegun == IF partial = <<>> THEN (at + 1) \div 2 ELSE at \div 2

FirstLinesArePassed ==
  {PassedLines[i] : i \in DOMAIN local_handed} \ {0} = 1 .. LinesBegun

LocalInv ==
  L!TypeOK /\ StagesOfPids /\ PartIsOfALine /\ HandedAreLines /\ FirstLinesArePassed

-----------------------------------------------------------------------------

LEMMA Halving ==
  ASSUME NEW a \in Nat
  PROVE  /\ a \div 2 \in Nat
         /\ a = 2 * (a \div 2) \/ a = 2 * (a \div 2) + 1
         /\ a = 2 * (a \div 2) => (a + 1) \div 2 = a \div 2
         /\ a = 2 * (a \div 2) + 1 => (a + 1) \div 2 = a \div 2 + 1
OBVIOUS

LEMMA Halves ==
  ASSUME NEW n \in Nat
  PROVE  (2 * n) \div 2 = n /\ (2 * n + 1) \div 2 = n
OBVIOUS

LEMMA LinesOfHalves ==
  ASSUME NEW n \in Nat \ {0}, NEW halves, NEW length, NEW is_cut
  PROVE  /\ halves = <<2 * n - 1, 2 * n>> => LineIn(halves, length, is_cut) = n
         /\ halves = <<2 * n>> => LineIn(halves, length, is_cut) = 0
         /\ halves = <<2 * n - 1>> /\ (length = 2 * n - 1 \/ is_cut) =>
              LineIn(halves, length, is_cut) = n
<1>1. /\ (2 * n - 1 + 1) \div 2 = n /\ (2 * n + 1) \div 2 = n
      /\ 2 * n # 2 * n - 1 /\ <<2 * n - 1, 2 * n>>[1] = 2 * n - 1
      /\ <<2 * n>>[1] = 2 * n /\ <<2 * n - 1>>[1] = 2 * n - 1
      /\ <<2 * n>> # <<2 * n - 1>> /\ <<2 * n>> # <<2 * n - 1, 2 * n>>
  OBVIOUS
<1> QED BY <1>1, Zenon DEF LineIn

\* A line stays what it is as the file grows, and as a read fails.
LEMMA LineStays ==
  ASSUME NEW n \in Nat \ {0}, NEW halves, NEW length, NEW length2, NEW is_cut, NEW is_cut2,
         NEW is_over, NEW is_over2,
         HandedOf(n, halves, length, is_cut, is_over),
         is_cut => is_cut2, is_over => is_over2 /\ length2 = length
  PROVE  /\ HandedOf(n, halves, length2, is_cut2, is_over2)
         /\ LineIn(halves, length2, is_cut2) = LineIn(halves, length, is_cut)
<1>1. HandedOf(n, halves, length2, is_cut2, is_over2)
  BY Zenon DEF HandedOf
<1>2. \/ halves = <<2 * n - 1, 2 * n>> \/ halves = <<2 * n>>
      \/ halves = <<2 * n - 1>> /\ (length = 2 * n - 1 \/ is_cut)
                              /\ (length2 = 2 * n - 1 \/ is_cut2)
  BY Zenon DEF HandedOf
<1>3. CASE halves = <<2 * n - 1, 2 * n>>
  <2>1. LineIn(halves, length, is_cut) = n
    BY <1>3, LinesOfHalves
  <2>2. LineIn(halves, length2, is_cut2) = n
    BY <1>3, LinesOfHalves
  <2> QED BY <1>1, <2>1, <2>2
<1>4. CASE halves = <<2 * n>>
  <2>1. LineIn(halves, length, is_cut) = 0
    BY <1>4, LinesOfHalves
  <2>2. LineIn(halves, length2, is_cut2) = 0
    BY <1>4, LinesOfHalves
  <2> QED BY <1>1, <2>1, <2>2
<1>5. CASE halves = <<2 * n - 1>> /\ (length = 2 * n - 1 \/ is_cut)
                                 /\ (length2 = 2 * n - 1 \/ is_cut2)
  <2>1. LineIn(halves, length, is_cut) = n
    BY <1>5, LinesOfHalves
  <2>2. LineIn(halves, length2, is_cut2) = n
    BY <1>5, LinesOfHalves
  <2> QED BY <1>1, <2>1, <2>2
<1> QED BY <1>2, <1>3, <1>4, <1>5

LEMMA LinesStay ==
  ASSUME LocalInv, NEW size \in Nat, size <= Len(local_handed),
         \A i \in 1 .. size : local_handed'[i] = local_handed[i],
         unread => unread', L!RoundIsOver => L!RoundIsOver' /\ UNCHANGED frames
  PROVE  \A i \in 1 .. size :
           /\ \E n \in Nat \ {0} :
                HandedOf(n, local_handed'[i], frames', unread', L!RoundIsOver')
           /\ LineIn(local_handed'[i], frames', unread') = LineIn(local_handed[i], frames, unread)
<1> TAKE i \in 1 .. size
<1>1. i \in DOMAIN local_handed
  BY LocalTypesInParts DEF LocalInv, TailTypes
<1>2. PICK n \in Nat \ {0} : HandedOf(n, local_handed[i], frames, unread, L!RoundIsOver)
  BY <1>1 DEF LocalInv, HandedAreLines
<1>3. /\ HandedOf(n, local_handed[i], frames', unread', L!RoundIsOver')
      /\ LineIn(local_handed[i], frames', unread') = LineIn(local_handed[i], frames, unread)
  BY <1>2, LineStays
<1> QED BY <1>3

LEMMA NothingHanded ==
  ASSUME LocalInv, UNCHANGED local_handed,
         unread => unread', L!RoundIsOver => L!RoundIsOver' /\ UNCHANGED frames
  PROVE  HandedAreLines' /\ PassedLines' = PassedLines
<1>1. Len(local_handed) \in Nat /\ DOMAIN local_handed = 1 .. Len(local_handed)
  BY LocalTypesInParts DEF LocalInv, TailTypes
<1>2. \A i \in DOMAIN local_handed :
        /\ \E n \in Nat \ {0} :
             HandedOf(n, local_handed'[i], frames', unread', L!RoundIsOver')
        /\ LineIn(local_handed'[i], frames', unread') = LineIn(local_handed[i], frames, unread)
  BY <1>1, LinesStay
<1> QED BY <1>2, Zenon DEF HandedAreLines, PassedLines

\* A line that is handed on is passed on, or 0 for the rest of one that was.
LEMMA LineHanded ==
  ASSUME LocalInv, NEW halves, local_handed' = Append(local_handed, halves),
         unread => unread', UNCHANGED <<frames, pid>>,
         NEW n \in Nat \ {0}, HandedOf(n, halves, frames, unread', L!RoundIsOver),
         NEW line, line = IF halves = <<2 * n>> THEN 0 ELSE n
  PROVE  /\ HandedAreLines'
         /\ PassedLines' = Append(PassedLines, line)
         /\ {PassedLines'[i] : i \in DOMAIN local_handed'} =
              {PassedLines[i] : i \in DOMAIN local_handed} \cup {line}
<1> DEFINE size == Len(local_handed)
<1>1. /\ size \in Nat /\ DOMAIN local_handed = 1 .. size
      /\ DOMAIN local_handed' = 1 .. size + 1
      /\ \A i \in 1 .. size : local_handed'[i] = local_handed[i]
      /\ local_handed'[size + 1] = halves
      /\ 1 .. size + 1 = 1 .. size \cup {size + 1}
  BY LocalTypesInParts DEF LocalInv, TailTypes
<1>2. \A i \in 1 .. size :
        /\ \E k \in Nat \ {0} :
             HandedOf(k, local_handed'[i], frames', unread', L!RoundIsOver')
        /\ LineIn(local_handed'[i], frames', unread') = LineIn(local_handed[i], frames, unread)
  <2>1. L!RoundIsOver => L!RoundIsOver' /\ UNCHANGED frames
    BY DEF L!RoundIsOver
  <2> QED BY <1>1, <2>1, LinesStay
<1> HIDE DEF size
<1>3. LineIn(halves, frames', unread') = line
  <2>1. <<2 * n>> # <<2 * n - 1>> /\ <<2 * n>> # <<2 * n - 1, 2 * n>>
    OBVIOUS
  <2>2. CASE halves = <<2 * n - 1, 2 * n>>
    BY <2>1, <2>2, LinesOfHalves
  <2>3. CASE halves = <<2 * n>>
    BY <2>3, LinesOfHalves
  <2>4. CASE halves = <<2 * n - 1>> /\ (frames' = 2 * n - 1 \/ unread')
    BY <2>1, <2>4, LinesOfHalves
  <2> QED BY <2>2, <2>3, <2>4 DEF HandedOf
<1>4. HandedAreLines'
  <2>1. HandedOf(n, halves, frames', unread', L!RoundIsOver')
    BY DEF HandedOf, L!RoundIsOver
  <2> QED BY <1>1, <1>2, <2>1, Zenon DEF HandedAreLines
<1>5. /\ PassedLines = [i \in 1 .. size |-> PassedLines[i]]
      /\ PassedLines' = [i \in 1 .. size + 1 |-> PassedLines'[i]]
      /\ \A i \in 1 .. size : PassedLines'[i] = PassedLines[i]
      /\ PassedLines'[size + 1] = line
  BY <1>1, <1>2, <1>3 DEF PassedLines
<1>6. PassedLines' = Append(PassedLines, line)
  BY <1>1, <1>5
<1>7. {PassedLines'[i] : i \in 1 .. size + 1} = {PassedLines[i] : i \in 1 .. size} \cup {line}
  BY <1>1, <1>5
<1> QED BY <1>1, <1>4, <1>6, <1>7

-----------------------------------------------------------------------------

LEMMA LocalInit ==
  ASSUME NEW place \in {"launching", "over"}, L!InitAt(place)
  PROVE  LocalInv
<1> USE DEF L!InitAt
<1>1. MachineTypes /\ TailTypes /\ LocalPlaces
  BY DEF MachineTypes, TailTypes, LocalPlaces, L!Holders, L!Over
<1>2. LocalCounts
  <2>1. writer_alive \in BOOLEAN /\ unread \in BOOLEAN
    BY Zenon
  <2> QED BY <2>1 DEF LocalCounts
<1>3. StagesOfPids
  BY DEF StagesOfPids
<1>4. PartIsOfALine
  BY Halving DEF PartIsOfALine, InALine
<1>5. HandedAreLines /\ FirstLinesArePassed
  <2>1. DOMAIN local_handed = {} /\ LinesBegun = 0
    BY Halving DEF LinesBegun
  <2> QED BY <2>1 DEF HandedAreLines, FirstLinesArePassed
<1> QED BY <1>1, <1>2, <1>3, <1>4, <1>5, LocalTypesInParts DEF LocalInv

\* The halves of the line read, as what is made of them.
LEMMA TwoHalves ==
  ASSUME NEW a \in Nat, NEW b \in Nat
  PROVE  <<a>> \o <<b>> = <<a, b>>
<1>1. <<a>> \in Seq(Nat) /\ <<b>> \in Seq(Nat) /\ <<a, b>> \in Seq(Nat)
  OBVIOUS
<1>2. <<a>> \o <<b>> \in Seq(Nat) /\ Len(<<a>> \o <<b>>) = 2
  BY <1>1
<1>3. (<<a>> \o <<b>>)[1] = a /\ (<<a>> \o <<b>>)[2] = b
  BY <1>1
<1>4. \A i \in 1 .. 2 : (<<a>> \o <<b>>)[i] = <<a, b>>[i]
  BY <1>3
<1> QED BY <1>1, <1>2, <1>4, SeqEqual

LEMMA HalvesRead ==
  ASSUME NEW k \in Nat, NEW last, last = 2 * k + 2
  PROVE  /\ at = 2 * k =>
              <<>> \o [i \in 1 .. last - at |-> at + i] = <<2 * (k + 1) - 1, 2 * (k + 1)>>
         /\ at = 2 * k + 1 =>
              <<>> \o [i \in 1 .. last - at |-> at + i] = <<2 * (k + 1)>>
         /\ at = 2 * k + 1 =>
              <<at>> \o [i \in 1 .. last - at |-> at + i] = <<2 * (k + 1) - 1, 2 * (k + 1)>>
<1>1. CASE at = 2 * k
  <2>1. [i \in 1 .. last - at |-> at + i] = <<2 * (k + 1) - 1, 2 * (k + 1)>>
    BY <1>1
  <2> QED BY <1>1, <2>1
<1>2. CASE at = 2 * k + 1
  <2>1. [i \in 1 .. last - at |-> at + i] = <<2 * (k + 1)>>
    BY <1>2
  <2>2. at = 2 * (k + 1) - 1 /\ at # 2 * k
    BY <1>2
  <2>3. <<>> \o <<2 * (k + 1)>> = <<2 * (k + 1)>>
    OBVIOUS
  <2>4. <<2 * (k + 1) - 1>> \o <<2 * (k + 1)>> = <<2 * (k + 1) - 1, 2 * (k + 1)>>
    BY TwoHalves
  <2> QED BY <2>1, <2>2, <2>3, <2>4, Zenon
<1> QED BY <1>1, <1>2

\* A step that reads or hands on nothing.
LEMMA NothingIsRead ==
  ASSUME LocalInv, UNCHANGED <<at, partial, local_handed>>,
         unread => unread', L!RoundIsOver => L!RoundIsOver' /\ UNCHANGED frames
  PROVE  PartIsOfALine' /\ HandedAreLines' /\ FirstLinesArePassed'
<1>1. HandedAreLines' /\ PassedLines' = PassedLines
  BY NothingHanded
<1>2. PartIsOfALine'
  BY DEF LocalInv, PartIsOfALine, InALine, FileIsRead
<1>3. LinesBegun' = LinesBegun
  BY DEF LinesBegun
<1>4. FirstLinesArePassed'
  BY <1>1, <1>3, Zenon DEF LocalInv, FirstLinesArePassed
<1> QED BY <1>1, <1>2, <1>4

\* A line read whole, or the rest of one.
LEMMA ReadLineKeeps ==
  ASSUME LocalInv, L!ReadLine, UNCHANGED <<frames, pid>>
  PROVE  /\ PartIsOfALine' /\ HandedAreLines' /\ FirstLinesArePassed' /\ TailTypes'
         /\ \E line \in (1 .. (frames + 1) \div 2) \cup (IF unread THEN {0} ELSE {}) :
              /\ PassedLines' = Append(PassedLines, line)
              /\ line # 0 => line = LinesBegun + 1
<1>1. at \in Nat /\ frames \in Nat
  BY LocalTypesInParts DEF LocalInv, MachineTypes, TailTypes
<1>2. PICK k \in Nat :
        /\ k = at \div 2
        /\ at = 2 * k \/ at = 2 * k + 1
        /\ at = 2 * k => (at + 1) \div 2 = k
        /\ at = 2 * k + 1 => (at + 1) \div 2 = k + 1
  BY <1>1, Halving
<1>3. PICK halves : halves = partial \o [i \in 1 .. L!LineEnd - at |-> at + i]
  OBVIOUS
<1>4. L!LineEnd = 2 * k + 2
  BY <1>2 DEF L!LineEnd
<1>5. /\ at' = 2 * (k + 1) /\ partial' = <<>> /\ 2 * (k + 1) <= frames
      /\ local_handed' = Append(local_handed, halves) /\ unread' = unread
  <2>1. at' = 2 * (k + 1) /\ partial' = <<>> /\ 2 * (k + 1) <= frames /\ unread' = unread
    BY <1>4 DEF L!ReadLine
  <2>2. local_handed' = Append(local_handed, halves)
    BY <1>3, Zenon DEF L!ReadLine
  <2> QED BY <2>1, <2>2
<1>6. at = 2 * k => partial = <<>>
  BY <1>2 DEF LocalInv, PartIsOfALine, InALine
<1>7. at = 2 * k + 1 => partial = <<at>> \/ (partial = <<>> /\ unread)
  <2>1. at # frames
    BY <1>2, <1>5
  <2> QED BY <2>1, <1>2, Zenon DEF LocalInv, PartIsOfALine, InALine, FileIsRead
<1>8. \/ halves = <<2 * (k + 1) - 1, 2 * (k + 1)>> /\ LinesBegun = k
      \/ halves = <<2 * (k + 1)>> /\ unread /\ LinesBegun = k + 1
  <2>1. CASE at = 2 * k
    <3>1. LinesBegun = k
      BY <2>1, <1>2 DEF LinesBegun
    <3>2. halves = <<2 * (k + 1) - 1, 2 * (k + 1)>>
      BY <2>1, <1>3, <1>4, <1>6, HalvesRead, Zenon
    <3> QED BY <3>1, <3>2
  <2>2. CASE at = 2 * k + 1 /\ partial = <<at>>
    <3>1. partial # <<>>
      BY <2>2
    <3>2. LinesBegun = k
      BY <2>2, <3>1, <1>2 DEF LinesBegun
    <3>3. halves = <<2 * (k + 1) - 1, 2 * (k + 1)>>
      BY <2>2, <1>3, <1>4, HalvesRead, Zenon
    <3> QED BY <3>2, <3>3
  <2>3. CASE at = 2 * k + 1 /\ partial = <<>> /\ unread
    <3>1. LinesBegun = k + 1
      BY <2>3, <1>2 DEF LinesBegun
    <3>2. halves = <<2 * (k + 1)>>
      BY <2>3, <1>3, <1>4, HalvesRead, Zenon
    <3> QED BY <2>3, <3>1, <3>2
  <2> QED BY <1>2, <1>7, <2>1, <2>2, <2>3, Zenon DEF LocalInv
<1>9. k + 1 \in Nat \ {0}
  OBVIOUS
<1>10. PICK line : line = IF halves = <<2 * (k + 1)>> THEN 0 ELSE k + 1
  OBVIOUS
<1>11. /\ HandedAreLines' /\ PassedLines' = Append(PassedLines, line)
      /\ {PassedLines'[i] : i \in DOMAIN local_handed'} =
           {PassedLines[i] : i \in DOMAIN local_handed} \cup {line}
  <2>1. HandedOf(k + 1, halves, frames, unread', L!RoundIsOver)
    <3>1. halves = <<2 * (k + 1) - 1, 2 * (k + 1)>> \/ (halves = <<2 * (k + 1)>> /\ unread')
      BY <1>5, <1>8
    <3> QED BY <3>1, Zenon DEF HandedOf
  <2>2. unread => unread'
    BY <1>5
  <2> QED BY <2>1, <2>2, <1>5, <1>9, <1>10, LineHanded
<1>12. (line = k + 1 /\ LinesBegun = k) \/ (line = 0 /\ LinesBegun = k + 1 /\ unread)
  <2>1. <<2 * (k + 1) - 1, 2 * (k + 1)>> # <<2 * (k + 1)>>
    OBVIOUS
  <2> QED BY <1>8, <1>10, <2>1, Zenon
<1>13. LinesBegun' = k + 1 /\ PartIsOfALine'
  <2>1. /\ 2 * (k + 1) # 2 * ((2 * (k + 1)) \div 2) + 1
        /\ (2 * (k + 1) + 1) \div 2 = k + 1
    OBVIOUS
  <2> QED BY <1>5, <2>1, Zenon DEF LinesBegun, PartIsOfALine, InALine
<1>14. FirstLinesArePassed'
  <2>1. {PassedLines[i] : i \in DOMAIN local_handed} \ {0} = 1 .. LinesBegun
    BY DEF LocalInv, FirstLinesArePassed
  <2> DEFINE had == {PassedLines[i] : i \in DOMAIN local_handed}
  <2>2. (had \cup {line}) \ {0} = 1 .. k + 1
    <3> HIDE DEF had
    <3>1. had \ {0} = 1 .. LinesBegun
      BY <2>1 DEF had
    <3> QED BY <3>1, <1>12
  <2> QED BY <2>2, <1>11, <1>13 DEF FirstLinesArePassed
<1>15. TailTypes'
  <2>1. halves \in Seq(1 .. frames)
    <3>1. /\ <<2 * (k + 1) - 1, 2 * (k + 1)>> \in Seq(1 .. frames)
          /\ <<2 * (k + 1)>> \in Seq(1 .. frames)
      BY <1>1, <1>5
    <3> QED BY <1>8, <3>1, Zenon
  <2>2. local_handed \in Seq(Seq(1 .. frames))
    BY LocalTypesInParts DEF LocalInv, TailTypes
  <2>3. local_handed' \in Seq(Seq(1 .. frames))
    <3> HIDE DEF L!ReadLine
    <3> QED BY <1>5, <2>1, <2>2, AppendProperties, Zenon
  <2>4. at' \in 0 .. frames /\ partial' \in Seq(1 .. frames)
    BY <1>1, <1>5
  <2> QED BY <2>3, <2>4 DEF TailTypes
<1>16. k + 1 <= (frames + 1) \div 2 /\ (frames + 1) \div 2 \in Nat
  BY <1>1, <1>5
<1> QED BY <1>9, <1>11, <1>12, <1>13, <1>14, <1>15, <1>16

\* The first half of a line, which is kept.
LEMMA ReadPartKeeps ==
  ASSUME LocalInv, L!ReadPart, UNCHANGED <<frames, pid>>
  PROVE  /\ PartIsOfALine' /\ HandedAreLines' /\ FirstLinesArePassed' /\ TailTypes'
         /\ PassedLines' = PassedLines
<1>1. at \in Nat /\ frames \in Nat /\ at < frames /\ frames < L!LineEnd
  BY LocalTypesInParts DEF LocalInv, MachineTypes, TailTypes, L!ReadPart
<1>2. PICK k \in Nat :
        /\ at = 2 * k \/ at = 2 * k + 1
        /\ k = at \div 2
        /\ at = 2 * k => (at + 1) \div 2 = k
  BY <1>1, Halving
<1>3. at = 2 * k /\ frames = 2 * k + 1
  BY <1>1, <1>2 DEF L!LineEnd
<1>4. /\ partial = <<>> /\ UNCHANGED <<local_handed, unread>>
      /\ partial' = <<frames>> /\ at' = frames
  <2>1. partial = <<>>
    BY <1>2, <1>3 DEF LocalInv, PartIsOfALine, InALine
  <2> QED BY <2>1 DEF L!ReadPart
<1>5. frames \div 2 = k /\ partial' # <<>>
  BY <1>3, <1>4
<1>6. LinesBegun = k /\ LinesBegun' = k
  <2>1. LinesBegun = k
    BY <1>2, <1>3, <1>4, Zenon DEF LinesBegun
  <2>2. LinesBegun' = k
    BY <1>4, <1>5, Zenon DEF LinesBegun
  <2> QED BY <2>1, <2>2
<1>7. PartIsOfALine'
  <2>1. InALine'
    BY <1>3, <1>4, <1>5 DEF InALine
  <2> QED BY <2>1, <1>4, <1>5 DEF PartIsOfALine
<1>8. HandedAreLines' /\ PassedLines' = PassedLines
  <2>1. L!RoundIsOver => L!RoundIsOver' /\ UNCHANGED frames
    BY DEF L!RoundIsOver
  <2> QED BY <2>1, <1>4, NothingHanded
<1>9. FirstLinesArePassed'
  <2>1. UNCHANGED local_handed
    BY <1>4
  <2> QED BY <2>1, <1>6, <1>8, Zenon DEF LocalInv, FirstLinesArePassed
<1>10. TailTypes'
  <2>1. at' \in 0 .. frames /\ partial' \in Seq(1 .. frames)
    BY <1>1, <1>4
  <2>2. local_handed' \in Seq(Seq(1 .. frames'))
    BY <1>4, LocalTypesInParts DEF LocalInv, TailTypes
  <2> QED BY <2>1, <2>2 DEF TailTypes
<1> QED BY <1>7, <1>8, <1>9, <1>10

\* The half that is kept, if the file ends with it or cannot be read on.
LEMMA PartHandedKeeps ==
  ASSUME LocalInv, partial # <<>>, local_handed' = Append(local_handed, partial), partial' = <<>>,
         UNCHANGED <<frames, pid, at>>, unread => unread', FileIsRead'
  PROVE  /\ PartIsOfALine' /\ HandedAreLines' /\ FirstLinesArePassed' /\ TailTypes'
         /\ \E line \in 1 .. (frames + 1) \div 2 :
              PassedLines' = Append(PassedLines, line) /\ line = LinesBegun + 1
<1>1. at \in Nat /\ frames \in Nat /\ at <= frames
  BY LocalTypesInParts DEF LocalInv, MachineTypes, TailTypes
<1>2. partial = <<at>> /\ InALine
  BY DEF LocalInv, PartIsOfALine
<1>3. PICK k \in Nat : k = at \div 2 /\ at = 2 * k + 1 /\ (at + 1) \div 2 = k + 1
  BY <1>1, <1>2, Halving DEF InALine
<1>4. k + 1 \in Nat \ {0} /\ at = 2 * (k + 1) - 1 /\ 2 * (k + 1) - 1 # 2 * (k + 1)
      /\ partial # <<2 * (k + 1)>>
  BY <1>2, <1>3
<1>5. HandedOf(k + 1, partial, frames, unread', L!RoundIsOver)
  <2>1. unread' \/ (frames = 2 * (k + 1) - 1 /\ L!RoundIsOver)
    BY <1>4 DEF FileIsRead, L!RoundIsOver
  <2> QED BY <2>1, <1>2, <1>4, Zenon DEF HandedOf
<1>6. PICK line : line = IF partial = <<2 * (k + 1)>> THEN 0 ELSE k + 1
  OBVIOUS
<1>7. /\ HandedAreLines' /\ PassedLines' = Append(PassedLines, line)
      /\ {PassedLines'[i] : i \in DOMAIN local_handed'} =
           {PassedLines[i] : i \in DOMAIN local_handed} \cup {line}
  <2>1. UNCHANGED <<frames, pid>>
    OBVIOUS
  <2> QED BY <2>1, <1>4, <1>5, <1>6, LineHanded
<1>8. line = k + 1 /\ LinesBegun = k /\ LinesBegun' = k + 1
  BY <1>3, <1>4, <1>6 DEF LinesBegun
<1>9. PartIsOfALine'
  BY DEF PartIsOfALine
<1>10. FirstLinesArePassed'
  <2> DEFINE had == {PassedLines[i] : i \in DOMAIN local_handed}
  <2>1. (had \cup {line}) \ {0} = 1 .. k + 1
    <3> HIDE DEF had
    <3>1. had \ {0} = 1 .. k
      BY <1>8 DEF LocalInv, FirstLinesArePassed, had
    <3> QED BY <3>1, <1>8
  <2> QED BY <2>1, <1>7, <1>8 DEF FirstLinesArePassed
<1>11. TailTypes'
  <2>1. local_handed \in Seq(Seq(1 .. frames)) /\ partial \in Seq(1 .. frames)
    BY LocalTypesInParts DEF LocalInv, TailTypes
  <2>2. local_handed' \in Seq(Seq(1 .. frames))
    BY <2>1, AppendProperties, Zenon
  <2>3. at' \in 0 .. frames /\ partial' \in Seq(1 .. frames)
    BY <1>1
  <2> QED BY <2>2, <2>3 DEF TailTypes
<1>12. k + 1 <= (frames + 1) \div 2 /\ (frames + 1) \div 2 \in Nat
  BY <1>1, <1>3
<1> QED BY <1>7, <1>8, <1>9, <1>10, <1>11, <1>12

\* read_until's outcomes, and what next_line makes of them.
EndIsSeen ==
  /\ UNCHANGED <<at, partial, local_handed>> /\ partial = <<>>
  /\ local_pc' = "ended" /\ L!RoundIsOver /\ FileIsRead'

PartIsHanded ==
  /\ partial # <<>> /\ local_handed' = Append(local_handed, partial) /\ partial' = <<>>
  /\ UNCHANGED at /\ local_pc' = "asking" /\ FileIsRead'

LEMMA ReadOutcomes ==
  ASSUME LocalInv, L!Read
  PROVE  /\ UNCHANGED <<pid, frames, ours, writer_alive, cancels, local_termination,
                        signalled, local_restarts>>
         /\ unread => unread'
         /\ unread' \in BOOLEAN
         /\ local_pc = "reading"
         /\ \/ L!ReadLine /\ local_pc' = "asking"
            \/ L!ReadPart /\ local_pc' = "asking"
            \/ UNCHANGED <<at, partial, local_handed, unread>> /\ local_pc' = "asking"
            \/ PartIsHanded \/ EndIsSeen
<1>1. /\ UNCHANGED <<pid, frames, ours, writer_alive, cancels, local_termination,
                     signalled, local_restarts>>
      /\ local_pc = "reading"
  BY DEF L!Read, L!machine, L!ends
<1>2. unread \in BOOLEAN
  BY LocalTypesInParts DEF LocalInv, LocalCounts
<1>3. CASE L!ReadLine \/ L!ReadPart \/ L!WaitForMore
  BY <1>1, <1>2, <1>3, Zenon DEF L!ReadLine, L!ReadPart, L!WaitForMore
<1>4. CASE L!Drained /\ ((at = frames /\ UNCHANGED unread) \/ unread' = TRUE)
  <2>1. L!RoundIsOver
    BY <1>1, <1>4 DEF L!Drained, LocalInv, StagesOfPids
  <2>2. FileIsRead' /\ unread' \in BOOLEAN /\ (unread => unread')
    <3>1. UNCHANGED at
      BY <1>4 DEF L!Drained
    <3>2. L!RoundIsOver'
      BY <1>1, <2>1 DEF L!RoundIsOver
    <3>3. CASE at = frames /\ UNCHANGED unread
      BY <1>1, <1>2, <3>1, <3>2, <3>3 DEF FileIsRead
    <3>4. CASE unread' = TRUE
      BY <3>4 DEF FileIsRead
    <3> QED BY <1>4, <3>3, <3>4
  <2> QED BY <1>1, <1>4, <2>1, <2>2, Zenon DEF L!Drained, PartIsHanded, EndIsSeen
<1> QED BY <1>1, <1>3, <1>4, Zenon DEF L!Read, L!ReadNothing, L!ReadFails

LEMMA RoundStaysOver ==
  ASSUME LocalInv, L!Next
  PROVE  L!RoundIsOver => L!RoundIsOver' /\ UNCHANGED frames
<1>1. CASE L!MachineStep
  BY <1>1
  DEF L!MachineStep, L!Writes, L!Exits, L!PidReused, L!StrangerExits, L!RoundIsOver
<1>2. CASE L!Launch
  BY <1>2 DEF L!Launch, L!RoundIsOver, LocalInv, StagesOfPids
<1>3. CASE L!AskIfWriting \/ L!Killed
  BY <1>3 DEF L!AskIfWriting, L!Killed, L!RoundIsOver
<1>4. CASE L!Reattach \/ L!Read \/ L!Terminate \/ L!Cancel
  BY <1>4 DEF L!Reattach, L!Read, L!Terminate, L!Cancel, L!machine, L!RoundIsOver
<1> QED BY <1>1, <1>2, <1>3, <1>4 DEF L!Next, L!DaemonStep

\* The steps of others than the tail.
TailRests ==
  \/ L!MachineStep \/ L!AskIfWriting \/ L!Terminate \/ L!Cancel \/ L!Killed
  \/ (L!Launch \/ L!Reattach) /\ UNCHANGED L!tail

LEMMA TailRestsKeeps ==
  ASSUME LocalInv, L!Next, TailRests
  PROVE  /\ PartIsOfALine' /\ HandedAreLines' /\ FirstLinesArePassed' /\ TailTypes'
         /\ UNCHANGED unread /\ PassedLines' = PassedLines
<1>1. UNCHANGED <<at, partial, local_handed, unread>>
  BY DEF TailRests, L!MachineStep, L!AskIfWriting, L!Terminate, L!Cancel, L!TailKeeps,
         L!Killed, L!Launch, L!Reattach, L!tail
<1>2. PartIsOfALine' /\ HandedAreLines' /\ FirstLinesArePassed' /\ PassedLines' = PassedLines
  BY <1>1, RoundStaysOver, NothingIsRead, NothingHanded
<1>3. frames' = frames \/ frames' = frames + 1
  BY DEF TailRests, L!MachineStep, L!Writes, L!Exits, L!PidReused, L!StrangerExits,
         L!AskIfWriting, L!Terminate, L!Cancel, L!Killed, L!Launch, L!Reattach, L!machine
<1>4. TailTypes'
  <2>1. /\ at \in 0 .. frames /\ partial \in Seq(1 .. frames)
        /\ local_handed \in Seq(Seq(1 .. frames)) /\ frames \in Nat
    BY LocalTypesInParts DEF LocalInv, TailTypes, MachineTypes
  <2>2. 1 .. frames \subseteq 1 .. frames' /\ at \in 0 .. frames'
    BY <1>3, <2>1
  <2>3. \A S, T : S \subseteq T => Seq(S) \subseteq Seq(T)
    OBVIOUS
  <2>4. partial \in Seq(1 .. frames') /\ local_handed \in Seq(Seq(1 .. frames'))
    BY <2>1, <2>2, <2>3, Zenon
  <2> QED BY <1>1, <2>2, <2>4, Zenon DEF TailTypes
<1> QED BY <1>1, <1>2, <1>4

\* A stream from the start.
LEMMA OpenTailKeeps ==
  ASSUME LocalInv, L!OpenTail, UNCHANGED frames
  PROVE  /\ PartIsOfALine' /\ HandedAreLines' /\ FirstLinesArePassed' /\ TailTypes'
         /\ PassedLines' = <<>>
<1>1. frames \in Nat
  BY LocalTypesInParts DEF LocalInv, MachineTypes
<1>2. at' = 0 /\ partial' = <<>> /\ local_handed' = <<>>
  BY DEF L!OpenTail
<1>3. DOMAIN local_handed' = {} /\ LinesBegun' = 0 /\ PassedLines' = <<>>
  BY <1>2 DEF LinesBegun, PassedLines
<1>4. PartIsOfALine'
  BY <1>2 DEF PartIsOfALine, InALine
<1>5. TailTypes'
  BY <1>1, <1>2 DEF TailTypes
<1> QED BY <1>3, <1>4, <1>5 DEF HandedAreLines, FirstLinesArePassed

LEMMA TailInvKeeps ==
  ASSUME LocalInv, L!Next
  PROVE  PartIsOfALine' /\ HandedAreLines' /\ FirstLinesArePassed' /\ TailTypes'
<1>1. CASE TailRests
  BY <1>1, TailRestsKeeps
<1>2. CASE L!OpenTail /\ UNCHANGED frames
  BY <1>2, OpenTailKeeps
<1>3. CASE L!Read
  <2>1. /\ UNCHANGED <<frames, pid>> /\ (unread => unread')
        /\ L!RoundIsOver => L!RoundIsOver' /\ UNCHANGED frames
    BY <1>3, ReadOutcomes DEF L!RoundIsOver
  <2>2. CASE L!ReadLine
    BY <2>1, <2>2, ReadLineKeeps
  <2>3. CASE L!ReadPart
    BY <2>1, <2>3, ReadPartKeeps
  <2>4. CASE PartIsHanded
    BY <2>1, <2>4, PartHandedKeeps DEF PartIsHanded
  <2>5. CASE UNCHANGED <<at, partial, local_handed>>
    <3>1. PartIsOfALine' /\ HandedAreLines' /\ FirstLinesArePassed'
      BY <2>1, <2>5, NothingIsRead
    <3>2. TailTypes'
      BY <2>1, <2>5, LocalTypesInParts, Zenon DEF LocalInv, TailTypes
    <3> QED BY <3>1, <3>2
  <2> QED BY <1>3, <2>2, <2>3, <2>4, <2>5, ReadOutcomes DEF EndIsSeen
<1> QED BY <1>1, <1>2, <1>3
    DEF L!Next, L!DaemonStep, TailRests, L!Launch, L!Reattach, L!machine

LEMMA LocalTypesKeep ==
  ASSUME LocalInv, L!Next
  PROVE  L!TypeOK'
<1>1. MachineTypes /\ LocalPlaces /\ LocalCounts
  BY LocalTypesInParts DEF LocalInv
<1>2. MachineTypes'
  <2>1. pid' \in L!Holders
    BY <1>1
    DEF MachineTypes, L!Holders, L!Next, L!DaemonStep, L!MachineStep, L!Writes, L!Exits,
        L!PidReused, L!StrangerExits, L!Launch, L!Reattach, L!AskIfWriting, L!Read,
        L!Terminate, L!Cancel, L!Killed, L!machine
  <2>2. UNCHANGED frames \/ (frames < 2 * MaxLines /\ frames' = frames + 1)
    BY DEF L!Next, L!DaemonStep, L!MachineStep, L!Writes, L!Exits, L!PidReused,
           L!StrangerExits, L!Launch, L!Reattach, L!AskIfWriting, L!Read, L!Terminate,
           L!Cancel, L!Killed, L!machine
  <2> QED BY <1>1, <2>1, <2>2 DEF MachineTypes
<1>3. LocalPlaces'
  <2>1. CASE L!MachineStep \/ L!AskIfWriting \/ L!Killed \/ L!Terminate
    BY <1>1, <2>1
    DEF LocalPlaces, L!MachineStep, L!AskIfWriting, L!Killed, L!Terminate, L!Reading, L!Over,
        L!ends
  <2>2. CASE L!Launch \/ L!Reattach
    BY <1>1, <2>2 DEF LocalPlaces, L!Launch, L!Reattach, L!OpenTail, L!Reading, L!Over, L!ends
  <2>3. CASE L!Cancel
    BY <1>1, <2>3 DEF LocalPlaces, MachineTypes, L!Cancel, L!TailKeeps, L!Reading
  <2>4. CASE L!Read
    <3>1. UNCHANGED <<ours, local_termination, signalled>> /\ local_pc' \in {"asking", "ended"}
      BY <2>4, ReadOutcomes DEF PartIsHanded, EndIsSeen
    <3> QED BY <1>1, <3>1 DEF LocalPlaces, L!Reading
  <2> QED BY <2>1, <2>2, <2>3, <2>4 DEF L!Next, L!DaemonStep
<1>4. LocalCounts'
  <2>1. unread' \in BOOLEAN /\ writer_alive' \in BOOLEAN
    <3>1. CASE TailRests
      <4>1. UNCHANGED unread
        BY <3>1, TailRestsKeeps
      <4>2. UNCHANGED writer_alive \/ writer_alive' = L!StillRunning
        BY <3>1
        DEF TailRests, L!MachineStep, L!AskIfWriting, L!Terminate, L!Cancel, L!TailKeeps,
            L!Killed, L!Launch, L!Reattach, L!tail
      <4>3. L!StillRunning \in BOOLEAN
        <5>1. CASE ours = "none"
          <6>1. L!StillRunning = L!LeadsItsOwnSession
            BY <5>1, Zenon DEF L!StillRunning
          <6>2. L!LeadsItsOwnSession \in BOOLEAN
            BY DEF L!LeadsItsOwnSession
          <6> QED BY <6>1, <6>2, Zenon
        <5>2. CASE ours # "none"
          BY <5>2, Zenon DEF L!StillRunning
        <5> QED BY <5>1, <5>2
      <4> QED BY <1>1, <4>1, <4>2, <4>3, Zenon DEF LocalCounts
    <3>2. CASE L!OpenTail
      BY <1>1, <3>2, Zenon DEF LocalCounts, L!OpenTail
    <3>3. CASE L!Read
      BY <1>1, <3>3, ReadOutcomes, Zenon DEF LocalCounts
    <3> QED BY <3>1, <3>2, <3>3
        DEF L!Next, L!DaemonStep, TailRests, L!Launch, L!Reattach, L!machine
  <2>2. cancels' \in {cancels, 0} \/ (cancels < 2 /\ cancels' = cancels + 1)
    BY ReadOutcomes
    DEF L!Next, L!DaemonStep, L!MachineStep, L!Launch, L!Reattach, L!AskIfWriting,
        L!Terminate, L!Cancel, L!Killed, L!ends
  <2>3. \/ UNCHANGED local_restarts
        \/ local_restarts < MaxRestarts /\ local_restarts' = local_restarts + 1
    BY ReadOutcomes
    DEF L!Next, L!DaemonStep, L!MachineStep, L!Launch, L!Reattach, L!AskIfWriting,
        L!Terminate, L!Cancel, L!Killed, L!ends
  <2>4. cancels' \in 0 .. 2 /\ local_restarts' \in 0 .. MaxRestarts
    BY <1>1, <2>2, <2>3 DEF LocalCounts
  <2> QED BY <2>1, <2>4 DEF LocalCounts
<1> QED BY <1>2, <1>3, <1>4, TailInvKeeps, LocalTypesInParts

LEMMA StagesOfPidsKeep ==
  ASSUME LocalInv, L!Next
  PROVE  StagesOfPids'
<1> USE DEF LocalInv, StagesOfPids, L!RoundIsOver
<1>1. MachineTypes /\ LocalPlaces
  BY LocalTypesInParts
<1>2. CASE L!MachineStep
  BY <1>2
  DEF L!MachineStep, L!Writes, L!Exits, L!PidReused, L!StrangerExits, L!tail, L!ends
<1>3. CASE L!Launch \/ L!Reattach
  <2>1. CASE L!Launch
    BY <2>1 DEF L!Launch, L!OpenTail, L!tail, L!ends
  <2>2. CASE L!Reattach
    BY <2>2 DEF L!Reattach, L!OpenTail, L!tail, L!ends, L!machine
  <2> QED BY <1>3, <2>1, <2>2
<1>4. CASE L!AskIfWriting
  BY <1>1, <1>4
  DEF L!AskIfWriting, L!StillRunning, L!LeadsItsOwnSession, L!ends, LocalPlaces
<1>5. CASE L!Killed
  BY <1>1, <1>5 DEF L!Killed, L!tail, L!Reading, LocalPlaces
<1>6. CASE L!Read
  <2>1. /\ UNCHANGED <<pid, ours, local_termination>> /\ local_pc = "reading"
        /\ \/ local_pc' = "asking"
           \/ local_pc' = "ended" /\ (unread' \/ (at' = frames' /\ partial' = <<>>))
              /\ L!RoundIsOver
    BY <1>6, ReadOutcomes DEF PartIsHanded, EndIsSeen, FileIsRead
  <2> QED BY <2>1
<1>7. CASE L!Cancel \/ L!Terminate
  BY <1>7 DEF L!Cancel, L!Terminate, L!TailKeeps, L!tail, L!machine, L!Reading
<1> QED BY <1>2, <1>3, <1>4, <1>5, <1>6, <1>7 DEF L!Next, L!DaemonStep

LEMMA LocalInvKeeps ==
  LocalInv /\ [L!Next]_local_vars => LocalInv'
<1> SUFFICES ASSUME LocalInv, [L!Next]_local_vars PROVE LocalInv'
  OBVIOUS
<1>1. CASE L!Next
  BY <1>1, LocalTypesKeep, StagesOfPidsKeep, TailInvKeeps DEF LocalInv
<1>2. CASE UNCHANGED local_vars
  <2>1. UNCHANGED <<pid, frames, local_pc, ours, writer_alive, at, partial, local_handed,
                    cancels, local_termination, unread, signalled, local_restarts>>
    BY <1>2 DEF local_vars
  <2>2. L!TypeOK'
    BY <2>1, Zenon DEF LocalInv, L!TypeOK
  <2>3. PartIsOfALine' /\ HandedAreLines' /\ FirstLinesArePassed'
    <3>1. UNCHANGED <<at, partial, local_handed>> /\ (unread => unread')
          /\ (L!RoundIsOver => L!RoundIsOver' /\ UNCHANGED frames)
      BY <2>1 DEF L!RoundIsOver
    <3> QED BY <3>1, NothingIsRead
  <2> QED BY <2>1, <2>2, <2>3 DEF LocalInv, StagesOfPids, L!RoundIsOver
<1> QED BY <1>1, <1>2

LEMMA SignalStep ==
  LocalInv /\ [L!Next]_local_vars =>
    \A holder \in signalled' \ signalled :
      holder \in {"round", "exited"} \/ (holder = "leader" /\ ours = "none")
<1>1. ASSUME LocalInv, L!Cancel, NEW holder \in signalled' \ signalled
      PROVE  holder \in {"round", "exited"} \/ (holder = "leader" /\ ours = "none")
  BY <1>1 DEF LocalInv, StagesOfPids, L!Cancel, L!StillOurs, L!LeadsItsOwnSession
<1>2. ASSUME LocalInv, L!Next, ~ L!Cancel PROVE UNCHANGED signalled
  BY <1>2, ReadOutcomes
  DEF L!Next, L!DaemonStep, L!MachineStep, L!Launch, L!Reattach, L!AskIfWriting, L!Terminate,
      L!Killed, L!ends
<1> QED BY <1>1, <1>2 DEF local_vars

-----------------------------------------------------------------------------

\* The lines of the file, and those passed on, as the stream has them.
PrintedLines == [i \in 1 .. (frames + 1) \div 2 |-> "out"]

LEMMA LocalStreamIs ==
  /\ [i \in DOMAIN local_handed |-> L!LineOf(local_handed[i])] = PassedLines
  /\ [i \in DOMAIN local_handed |-> L!LineOf(local_handed[i])]' = PassedLines'
BY Zenon DEF PassedLines, L!LineOf, LineIn

LEMMA LocalStreamStutters ==
  ASSUME PassedLines' = PassedLines, PrintedLines' = PrintedLines,
         L!RoundIsOver' = L!RoundIsOver, UNCHANGED <<unread, local_termination>>
  PROVE  UNCHANGED L!Stream!vars
BY LocalStreamIs, Zenon DEF L!Stream!vars, PrintedLines

LEMMA LocalStreamStep ==
  LocalInv /\ [L!Next]_local_vars => [L!Stream!Next]_(L!Stream!vars)
<1> SUFFICES ASSUME LocalInv, [L!Next]_local_vars PROVE [L!Stream!Next]_(L!Stream!vars)
  OBVIOUS
<1>1. CASE L!MachineStep
  <2>1. UNCHANGED <<unread, local_termination>> /\ PassedLines' = PassedLines
    BY <1>1, TailRestsKeeps DEF TailRests, L!MachineStep, L!ends, L!Next
  <2>2. CASE L!Writes
    <3>1. frames \in Nat /\ frames' = frames + 1 /\ UNCHANGED pid /\ pid = "round"
      BY <2>2, LocalTypesInParts DEF LocalInv, MachineTypes, L!Writes
    <3>2. PICK k \in Nat :
            /\ k = frames \div 2
            /\ frames = 2 * k \/ frames = 2 * k + 1
            /\ frames = 2 * k => (frames + 1) \div 2 = k
            /\ frames = 2 * k + 1 => (frames + 1) \div 2 = k + 1
      BY <3>1, Halving
    <3>3. (frames' + 1) \div 2 = k + 1
      BY <3>1, <3>2
    <3>4. CASE frames = 2 * k
      <4>1. PrintedLines = [i \in 1 .. k |-> "out"] /\ PrintedLines' = [i \in 1 .. k + 1 |-> "out"]
        BY <3>2, <3>3, <3>4, Zenon DEF PrintedLines
      <4>2. PrintedLines' = Append(PrintedLines, "out")
        BY <4>1
      <4>3. L!Stream!RoundPrints
        BY <2>1, <3>1, <4>2, LocalStreamIs DEF L!Stream!RoundPrints, PrintedLines, L!RoundIsOver
      <4> QED BY <4>3 DEF L!Stream!Next
    <3>5. CASE frames = 2 * k + 1
      <4>1. PrintedLines' = PrintedLines
        BY <3>2, <3>3, <3>5, Zenon DEF PrintedLines
      <4> QED BY <2>1, <3>1, <4>1, LocalStreamStutters DEF L!RoundIsOver
    <3> QED BY <3>2, <3>4, <3>5
  <2>3. CASE L!Exits \/ L!PidReused \/ L!StrangerExits
    <3>1. PrintedLines' = PrintedLines /\ L!RoundIsOver'
      BY <2>3 DEF L!Exits, L!PidReused, L!StrangerExits, PrintedLines, L!RoundIsOver
    <3>2. CASE L!RoundIsOver
      BY <2>1, <3>1, <3>2, LocalStreamStutters
    <3>3. CASE ~ L!RoundIsOver
      <4>1. L!Stream!RoundEnds
        BY <2>1, <3>1, <3>3, LocalStreamIs DEF L!Stream!RoundEnds, PrintedLines
      <4> QED BY <4>1 DEF L!Stream!Next
    <3> QED BY <3>2, <3>3
  <2> QED BY <1>1, <2>2, <2>3 DEF L!MachineStep
<1>2. CASE \/ L!AskIfWriting \/ L!Cancel \/ L!Killed \/ UNCHANGED local_vars
           \/ (L!Launch \/ L!Reattach) /\ UNCHANGED L!tail
  <2>1. UNCHANGED <<frames, local_handed, unread, local_termination>>
    BY <1>2
    DEF L!AskIfWriting, L!Cancel, L!Killed, L!Launch, L!Reattach, L!TailKeeps, L!tail, L!ends,
        L!machine, local_vars
  <2>2. L!RoundIsOver' = L!RoundIsOver
    BY <1>2
    DEF L!AskIfWriting, L!Cancel, L!Killed, L!Launch, L!Reattach, L!machine, L!tail, L!OpenTail,
        L!RoundIsOver, LocalInv, StagesOfPids, local_vars
  <2> QED BY <2>1, <2>2, LocalStreamStutters, Zenon DEF PassedLines, PrintedLines
<1>3. CASE (L!Launch \/ L!Reattach) /\ L!OpenTail
  <2>1. /\ PrintedLines' = PrintedLines /\ L!RoundIsOver' = L!RoundIsOver
        /\ UNCHANGED local_termination /\ local_termination = "none" /\ unread' = FALSE
        /\ UNCHANGED frames
    BY <1>3
    DEF L!Launch, L!Reattach, L!OpenTail, L!ends, L!machine, PrintedLines, L!RoundIsOver, LocalInv,
        StagesOfPids, L!tail
  <2>2. PassedLines' = <<>>
    BY <1>3, <2>1, OpenTailKeeps
  <2>3. L!Stream!Reattaches
    BY <2>1, <2>2, LocalStreamIs DEF L!Stream!Reattaches, PrintedLines
  <2> QED BY <2>3 DEF L!Stream!Next
<1>4. CASE L!Read
  <2>1. /\ PrintedLines' = PrintedLines /\ L!RoundIsOver' = L!RoundIsOver
        /\ UNCHANGED local_termination /\ local_termination = "none"
        /\ UNCHANGED <<frames, pid>> /\ (unread => unread')
        /\ unread' = unread \/ unread' = TRUE
    BY <1>4, ReadOutcomes, LocalTypesInParts
    DEF PrintedLines, L!RoundIsOver, LocalInv, StagesOfPids, LocalCounts
  <2>2. ASSUME NEW line \in (1 .. (frames + 1) \div 2) \cup (IF unread THEN {0} ELSE {}),
               PassedLines' = Append(PassedLines, line), line # 0 => line = LinesBegun + 1
        PROVE  L!Stream!Passes
    <3> DEFINE had == {PassedLines[i] : i \in DOMAIN local_handed}
    <3>1. had \ {0} = 1 .. LinesBegun
      BY DEF LocalInv, FirstLinesArePassed
    <3>2. line # 0 => line \in L!Stream!Following
      <4>1. ASSUME line # 0
            PROVE  /\ line \in DOMAIN PrintedLines /\ line \notin had
                   /\ \A m \in 1 .. line - 1 : m \in had
        <5> HIDE DEF had
        <5>1. frames \in Nat /\ LinesBegun \in Nat
          <6>1. frames \in Nat /\ at \in Nat
            BY LocalTypesInParts DEF LocalInv, MachineTypes, TailTypes
          <6> QED BY <6>1 DEF LinesBegun
        <5> QED BY <2>2, <3>1, <4>1, <5>1 DEF PrintedLines
      <4>2. had = L!Stream!Range(PassedLines)
        BY DEF L!Stream!Range, PassedLines
      <4> QED BY <4>1, <4>2, LocalStreamIs DEF L!Stream!Following, PrintedLines
    <3>3. line = 0 => unread
      BY <2>2, LocalTypesInParts DEF LocalInv, MachineTypes
    <3> QED BY <2>1, <2>2, <3>2, <3>3, LocalStreamIs DEF L!Stream!Passes, PrintedLines
  <2>3. CASE L!ReadLine
    BY <2>1, <2>2, <2>3, ReadLineKeeps DEF L!Stream!Next
  <2>4. CASE PartIsHanded
    BY <2>1, <2>2, <2>4, PartHandedKeeps DEF PartIsHanded, L!Stream!Next
  <2>5. CASE L!ReadPart
    <3>1. PassedLines' = PassedLines /\ UNCHANGED unread
      BY <2>1, <2>5, ReadPartKeeps DEF L!ReadPart
    <3> QED BY <2>1, <3>1, LocalStreamStutters
  <2>6. CASE UNCHANGED local_handed
    <3>1. PassedLines' = PassedLines
      BY <2>1, <2>6, NothingHanded
    <3>2. CASE UNCHANGED unread
      BY <2>1, <3>1, <3>2, LocalStreamStutters
    <3>3. CASE unread' = TRUE
      <4>1. L!Stream!Cuts
        BY <2>1, <3>1, <3>3, LocalStreamIs DEF L!Stream!Cuts, PrintedLines
      <4> QED BY <4>1 DEF L!Stream!Next
    <3> QED BY <2>1, <3>2, <3>3
  <2> QED BY <1>4, <2>3, <2>4, <2>5, <2>6, ReadOutcomes DEF EndIsSeen
<1>5. CASE L!Terminate
  <2>1. /\ PassedLines' = PassedLines /\ PrintedLines' = PrintedLines
        /\ L!RoundIsOver' = L!RoundIsOver /\ UNCHANGED unread
        /\ local_termination = "none" /\ local_termination' \in {"exited", "killed"}
    <3>1. PassedLines' = PassedLines /\ UNCHANGED unread
      BY <1>5, TailRestsKeeps DEF TailRests, L!Next, L!DaemonStep
    <3> QED BY <1>5, <3>1
        DEF L!Terminate, L!machine, PrintedLines, L!RoundIsOver, LocalInv, StagesOfPids
  <2>2. L!RoundIsOver /\ (unread \/ DOMAIN PrintedLines \subseteq L!Stream!Range(PassedLines))
    <3>1. L!RoundIsOver /\ (unread \/ (at = frames /\ partial = <<>>))
      BY <1>5 DEF L!Terminate, LocalInv, StagesOfPids
    <3>2. CASE at = frames /\ partial = <<>>
      <4>1. LinesBegun = (frames + 1) \div 2
        BY <3>2, Zenon DEF LinesBegun
      <4>2. 1 .. LinesBegun \subseteq {PassedLines[i] : i \in DOMAIN local_handed}
        BY DEF LocalInv, FirstLinesArePassed
      <4>3. L!Stream!Range(PassedLines) = {PassedLines[i] : i \in DOMAIN local_handed}
        BY DEF L!Stream!Range, PassedLines
      <4> QED BY <3>1, <4>1, <4>2, <4>3, Zenon DEF PrintedLines
    <3> QED BY <3>1, <3>2
  <2>3. L!Stream!Terminates
    BY <2>1, <2>2, LocalStreamIs DEF L!Stream!Terminates, PrintedLines
  <2> QED BY <2>3 DEF L!Stream!Next
<1> QED BY <1>1, <1>2, <1>3, <1>4, <1>5 DEF L!Next, L!DaemonStep, L!Launch, L!Reattach

-----------------------------------------------------------------------------
(* All of them together.                                                   *)

RunnersInv == FollowInv /\ LocalInv /\ DockerInv /\ CommandInv

runners_vars == <<vars, local_vars, docker_vars, command_vars>>

\* A step of one of them is a step or a stutter of each.
LEMMA StepsOfEach ==
  [RunnersNext]_runners_vars =>
    [Next]_vars /\ [L!Next]_local_vars /\ [D!Next]_docker_vars /\ [C!Next]_command_vars
BY Zenon DEF RunnersNext, runners_vars

LEMMA RunnersInitially ==
  RunnersInit => RunnersInv /\ L!Stream!Init /\ D!Stream!Init /\ Stream!Init
<1> SUFFICES ASSUME NEW runner \in {"local", "docker", "k8s", "none"}, InitOn(runner)
             PROVE  RunnersInv /\ L!Stream!Init /\ D!Stream!Init /\ Stream!Init
  BY DEF RunnersInit
<1>1. PICK follow \in {"creatingJob", "over"}, local \in {"launching", "over"},
           docker \in {"creating", "over"}, command \in {"spawning", "over"} :
        InitAt(follow) /\ L!InitAt(local) /\ D!InitAt(docker) /\ C!InitAt(command)
  BY DEF InitOn
<1>2. RunnersInv
  BY <1>1, FollowInit, LocalInit, DockerInit, CommandInit DEF RunnersInv
<1>3. Stream!Init
  BY <1>1, StreamInit
<1>4. D!Stream!Init
  BY <1>1 DEF D!InitAt, D!Stream!Init
<1>5. L!Stream!Init
  <2>1. /\ frames = 0 /\ local_handed = <<>> /\ ~ L!RoundIsOver
        /\ unread = FALSE /\ local_termination = "none"
    BY <1>1 DEF L!InitAt, L!RoundIsOver
  <2>2. (frames + 1) \div 2 = 0
    BY <2>1
  <2>3. [i \in 1 .. (frames + 1) \div 2 |-> "out"] = <<>> /\ PassedLines = <<>>
    BY <2>1, <2>2 DEF PassedLines
  <2> QED BY <2>1, <2>3, LocalStreamIs DEF L!Stream!Init
<1> QED BY <1>2, <1>3, <1>4, <1>5

LEMMA RunnersInvKeeps ==
  RunnersInv /\ [RunnersNext]_runners_vars => RunnersInv'
BY StepsOfEach, FollowInvKeeps, LocalInvKeeps, DockerInvKeeps, CommandInvKeeps DEF RunnersInv

LEMMA RunnersAlwaysInv ==
  RunnersSpec => []RunnersInv
BY RunnersInitially, RunnersInvKeeps, PTL DEF RunnersSpec, runners_vars

\* Every variable of a round, on each runner, and of a command has its type.
THEOREM RunnersTypes == RunnersSpec => []RunnersTypeOK
<1>1. RunnersInv => RunnersTypeOK
  BY DEF RunnersInv, RunnersTypeOK, FollowInv, LocalInv, DockerInv, CommandInv
<1> QED BY <1>1, RunnersAlwaysInv, PTL

\* No line of a pod's log is read twice, however often its follow reconnects,
\* also beside the other runners.
THEOREM RunnersReadOnce == RunnersSpec => []LinesAreReadOnce
<1>1. FollowInv => LinesAreReadOnce
  BY DEF FollowInv, ReadSoFar, LinesAreReadOnce
<1> QED BY <1>1, RunnersAlwaysInv, PTL DEF RunnersInv

\* Nothing of a command is left running in its group once it is drained, and
\* what it printed is framed before the round's next event, each line once and
\* in the order of its pipe, for any number of lines (supervise, exec.rs).
THEOREM RunnersSuperviseCommands == RunnersSpec => []CommandsAreSupervised
<1>1. CommandInv => C!NothingIsLeftRunning
  BY DEF CommandInv, StagesOfProcesses, C!NothingIsLeftRunning
<1>2. CommandInv => C!OutputPrecedesTheEvent
  BY Zenon DEF CommandInv, FramesAreInOrder, EventIsLast, C!OutputPrecedesTheEvent
<1> QED BY <1>1, <1>2, RunnersAlwaysInv, PTL DEF RunnersInv, CommandsAreSupervised

\* No runner ends a round that runs but for a cause: SIGTERM goes to the round
\* and nobody else; a container that runs is removed only as its launch failed
\* or its wait did; a pod that runs is not given up for being quiet, its Job
\* deleted only as its launch failed, on a cancel, or once its stream is
\* abandoned -- the reconnects used up, the status unreadable, no `kubectl`
\* (local.rs, docker.rs, kubernetes.rs).
THEOREM RunnersEndForCause == RunnersSpec => RoundsAreEndedForCause
<1>1. RunnersInv /\ [RunnersNext]_runners_vars =>
        [\A holder \in signalled' \ signalled :
           holder \in {"round", "exited"} \/ (holder = "leader" /\ ours = "none")]_(L!vars)
  BY StepsOfEach, SignalStep DEF RunnersInv
<1>2. RunnersInv /\ [RunnersNext]_runners_vars =>
        [container = "running" /\ container' = "removed" =>
           docker_pc = "cleaning" \/ unwaited]_(D!vars)
  BY StepsOfEach, RemovingStep DEF RunnersInv
<1> QED
  BY <1>1, <1>2, StepsOfEach, RunnersAlwaysInv, QuietStep, LiveStep, PTL
  DEF RunnersSpec, RunnersInv, runners_vars, RoundsAreEndedForCause, QuietPodsAreFollowed,
      LivePodsAreNotDeleted, D!RunningContainersAreNotRemoved, L!SignalsReachOnlyTheRound

\* Each runner is a RunningRound: what it passes on of a round is the stream
\* RoundStream promises, for any number of lines and restarts.
THEOREM RunnersAreStreams == RunnersSpec => StreamsAreTheRounds
<1>1. RunnersInv /\ [RunnersNext]_runners_vars => [Stream!Next]_(Stream!vars)
  BY StepsOfEach, StreamStep DEF RunnersInv
<1>2. RunnersInv /\ [RunnersNext]_runners_vars => [L!Stream!Next]_(L!Stream!vars)
  BY StepsOfEach, LocalStreamStep DEF RunnersInv
<1>3. RunnersInv /\ [RunnersNext]_runners_vars => [D!Stream!Next]_(D!Stream!vars)
  BY StepsOfEach, DockerStreamStep DEF RunnersInv
<1> QED
  BY <1>1, <1>2, <1>3, RunnersInitially, RunnersAlwaysInv, PTL
  DEF RunnersSpec, runners_vars, StreamsAreTheRounds, Stream!Spec, L!Stream!Spec, D!Stream!Spec
=============================================================================
