----------------------------- MODULE RoundStream -----------------------------
(***************************************************************************)
(* What a runner promises of a launched round, whichever runner it is: the *)
(* RunningRound trait.  Its lines are passed on, each once; what it prints *)
(* on one pipe in the order it does; again from the start to whoever       *)
(* reattaches; and it is said to have exited when it has, and has been     *)
(* read, unless a connection to it was cut.                                *)
(***************************************************************************)
EXTENDS Naturals, Sequences, Functions

VARIABLES
  printed, \* the pipe, "out" or "err", of each line the round has printed
  ended,   \* whether it is over
  passed,  \* the lines next_line has given, each by its number
  cut,     \* whether something of the stream was cut off, for this reader
  told     \* what termination has said: "none" yet, "exited" or "killed"

vars == <<printed, ended, passed, cut, told>>

Init ==
  printed = <<>> /\ ended = FALSE /\ passed = <<>> /\ cut = FALSE /\ told = "none"

RoundPrints ==
  /\ ~ ended
  /\ \E pipe \in {"out", "err"} : printed' = Append(printed, pipe)
  /\ UNCHANGED <<ended, passed, cut, told>>

RoundEnds ==
  /\ ~ ended
  /\ ended' = TRUE
  /\ UNCHANGED <<printed, passed, cut, told>>

\* The lines that come next, one of each pipe.
Following ==
  {n \in DOMAIN printed \ Range(passed) :
     \A m \in 1 .. n - 1 : printed[m] = printed[n] => m \in Range(passed)}

\* next_line; of a line that is cut, what there is, and 0 for what came of it
\* later.
Passes ==
  /\ told = "none"
  /\ \E n \in Following \cup (IF cut THEN {0} ELSE {}) : passed' = Append(passed, n)
  /\ cut' \in {cut, TRUE}
  /\ UNCHANGED <<printed, ended, told>>

Cuts ==
  /\ told = "none"
  /\ cut' = TRUE
  /\ UNCHANGED <<printed, ended, passed, told>>

Reattaches ==
  /\ told = "none"
  /\ passed' = <<>> /\ cut' = FALSE
  /\ UNCHANGED <<printed, ended, told>>

\* What is left of a round is removed with its last word.
Terminates ==
  /\ told = "none"
  /\ \/ ended /\ (cut \/ DOMAIN printed \subseteq Range(passed)) /\ told' = "exited"
     \/ told' = "killed"
  /\ ended' \in {ended, TRUE}
  /\ UNCHANGED <<printed, passed, cut>>

Next == RoundPrints \/ RoundEnds \/ Passes \/ Cuts \/ Reattaches \/ Terminates

Spec == Init /\ [][Next]_vars
=============================================================================
