----------------------------- MODULE Processor -----------------------------
(***************************************************************************)
(* What the processor window promises about the interpreted program,       *)
(* whatever timers, milestones and buttons it is made of: a program that   *)
(* is stopped does not move; a step executes one statement at most; only   *)
(* "play" makes it move further.                                           *)
(***************************************************************************)
EXTENDS BlockProgram

VARIABLES
  mode,   \* "stopped", "stepping" until a requested step is over, or "running"
  prog,   \* the program loaded, or Nil
  at      \* its position, or Nil

pvars == <<mode, prog, at>>

Loaded == prog # Nil

PInit == mode = "stopped" /\ prog = Nil /\ at = Nil

\* Reset loads a program, and counts as a step that executes nothing.
Load ==
  /\ \E p \in Programs : prog' = p
  /\ at' = Start
  /\ mode' = "stepping"

Unload == prog' = Nil /\ at' = Nil /\ UNCHANGED mode

RequestStep == mode = "stopped" /\ mode' = "stepping" /\ UNCHANGED <<prog, at>>

RequestRun == mode = "stopped" /\ mode' = "running" /\ UNCHANGED <<prog, at>>

\* Pause, reset without a program to load, end of a program or of a step.
Stop == mode' = "stopped" /\ UNCHANGED <<prog, at>>

\* One statement is executed: a step is over when the next one is reached.
Execute ==
  /\ Loaded /\ mode # "stopped"
  /\ at' \in Successors(prog, at) \ {Done}
  /\ mode' = IF mode = "stepping" THEN "stopped" ELSE mode
  /\ UNCHANGED prog

Finish ==
  /\ Loaded /\ mode # "stopped"
  /\ Done \in Successors(prog, at) /\ at' = Done
  /\ UNCHANGED <<mode, prog>>

\* A statement throws; the step that executed it, if any, is over.
Trap ==
  /\ Loaded /\ mode # "stopped" /\ at \in Blocks
  /\ at' = Trapped
  /\ mode' = IF mode = "stepping" THEN "stopped" ELSE mode
  /\ UNCHANGED prog

PNext ==
  \/ Load \/ Unload \/ RequestStep \/ RequestRun \/ Stop
  \/ Execute \/ Finish \/ Trap

PSpec == PInit /\ [][PNext]_pvars
=============================================================================
