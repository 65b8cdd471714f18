---------------------------- MODULE BlockProgram ----------------------------
(***************************************************************************)
(* A program as the processor window can tell it: the code that the block  *)
(* generators (blocks/*.js) emit, reduced to what each statement does to   *)
(* the driver of the interpreter and to which statements may follow it.    *)
(* With STATEMENT_PREFIX set, Blockly emits __block__(id) before each      *)
(* statement, so that the blocks are the statements announced; a loop      *)
(* announces the statements of its body, not the test of its condition.    *)
(***************************************************************************)
EXTENDS Naturals

CONSTANTS
  Blocks,      \* identifiers of statement blocks
  Programs,    \* the programs the workspace may hold
  Vars,        \* names of variables, as the user types them
  Nil,         \* JavaScript's null
  Start,       \* position of an interpreter that announced no block yet
  Trapped,     \* position after an exception in the interpreted program
  Done         \* position of a program that has ended

\* What a block does to the driver: nothing, assign a variable, ask for a pause,
\* read an input, or loop for ever without a statement (an empty while block).
Kinds == {"plain", "set", "pause", "read", "spin"}
Units == {"s", "ms", "us", "cy"}

\* Code is empty without a block; it does not compile with, for instance, a
\* break block outside of a loop.
Program == [ status : {"empty", "broken", "good"},
             first  : Blocks,
             kind   : [Blocks -> Kinds],
             var    : [Blocks -> Vars],
             pause  : [Blocks -> [n : Nat, unit : Units]],
             next   : [Blocks -> SUBSET (Blocks \cup {Done})] ]

Position == Blocks \cup {Start, Trapped, Done}

ASSUME ProgramsAssumption == Programs \subseteq Program

ASSUME PositionsAssumption ==
  /\ {0, Nil, Start, Trapped, Done} \cap Blocks = {}
  /\ Nil # 0 /\ Nil \notin Programs
  /\ Start # Trapped /\ Start # Done /\ Trapped # Done

BlocksOf(p) == {b \in Blocks : p.next[b] # {}}

\* Blocks of p that may be announced after position "at", or Done.  Where the
\* interpreter library resumes after an exception is not known here.
Successors(p, at) ==
  CASE at = Start   -> {p.first}
    [] at = Trapped -> BlocksOf(p) \cup {Done}
    [] at = Done    -> {}
    [] OTHER        -> p.next[at]

\* Variables that p assigns.
VarsOf(p) == {p.var[b] : b \in {c \in Blocks : p.kind[c] = "set"}}
=============================================================================
