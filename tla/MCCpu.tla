------------------------------- MODULE MCCpu -------------------------------
(***************************************************************************)
(* A small instance of Cpu: four blocks, a program with a loop, two pauses,*)
(* an assignment and an empty loop, one without blocks and one that does   *)
(* not compile, two variables of which one has a name that is not an       *)
(* identifier, and two speeds.                                             *)
(***************************************************************************)
EXTENDS Cpu, FiniteSets

CONSTANTS b1, b2, b3, b4, x, odd

MCBlocks == {b1, b2, b3, b4}

\* The variable typed "odd" is generated under another name.
MCVars == {x, odd, "odd_"}
MCNameOf == [v \in MCVars |-> IF v = odd THEN "odd_" ELSE v]

MCSpeeds == [s \in 0 .. 1 |-> 2000 * s]

MCTimerIds == 1 .. 3

\* A program of the given kinds and successors.  Block b3 is about the variable
\* odd, the others about x; b1 asks for a long pause and b2 for one that is less
\* than a millisecond.
MakeProgram(status, kinds, successors) ==
  [ status |-> status,
    first  |-> b1,
    kind   |-> kinds,
    var    |-> [b \in MCBlocks |-> IF b = b3 THEN odd ELSE x],
    pause  |-> [b \in MCBlocks |-> IF b = b1 THEN [n |-> 3, unit |-> "ms"]
                                   ELSE [n |-> 500, unit |-> "us"]],
    next   |-> successors ]

Plain == [b \in MCBlocks |-> "plain"]
NoBlock == [b \in MCBlocks |-> {}]

EmptyProgram == MakeProgram("empty", Plain, NoBlock)
BrokenProgram == MakeProgram("broken", Plain, NoBlock)

\* while (..) { pause 3 ms; pause 500 us; if (..) { odd := ..; if (..) { while (true) {} } } }
Loop ==
  MakeProgram("good",
    [b \in MCBlocks |-> IF b = b3 THEN "set" ELSE IF b = b4 THEN "spin" ELSE "pause"],
    [b \in MCBlocks |-> IF b = b1 THEN {b2} ELSE IF b = b2 THEN {b1, b3, Done}
                        ELSE IF b = b3 THEN {b1, b4, Done} ELSE {b4}])

MCPrograms == {EmptyProgram, BrokenProgram, Loop}
=============================================================================
