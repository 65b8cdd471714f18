-------------------------------- MODULE Cpu --------------------------------
(***************************************************************************)
(* The interpreter driver of the IDE (cpu/cpu.js) with what feeds it: the  *)
(* debounced regeneration of the source (App.onChange and App.codeChanged  *)
(* of app.js), the loading of a document that cannot be read, and the      *)
(* memory window (memory/memory.js).                                       *)
(*                                                                         *)
(* JavaScript runs one handler at a time.  Every user event, and every     *)
(* timer, is an action enabled only while no handler runs (~busy); the     *)
(* loop of cpu.run is the only handler long enough to be cut into steps,   *)
(* the Run... actions, which are enabled only while it runs (busy).        *)
(*                                                                         *)
(* The acorn interpreter, Blockly and the hardware window are external     *)
(* here; a program is what the driver can tell of it (BlockProgram).       *)
(***************************************************************************)
EXTENDS BlockProgram

CONSTANTS
  NameOf,      \* variableDB_.getName: the identifier generated for a name
  Speeds,      \* cpu.speeds, in microseconds, a function on 0..n
  TimerIds     \* identifiers that window.setTimeout may return

\* A cpu.interpreter: its program, where it is, and whether __monitor__ was
\* defined when it was built.
Interpreter == [prog : Programs, at : Position, monitored : BOOLEAN]

\* A generated source: of which program, and with or without the __block__ calls.
Source == [prog : Programs, prefixed : BOOLEAN]

\* The code of a workspace without blocks.
NoCode == [prog |-> Nil, prefixed |-> FALSE]

Timer == [id : TimerIds, delay : Nat]

ASSUME NamesAssumption == NameOf \in [Vars -> Vars]

ASSUME SpeedsAssumption ==
  /\ DOMAIN Speeds \subseteq Nat
  /\ 0 \in DOMAIN Speeds
  /\ \A s \in DOMAIN Speeds : Speeds[s] \in Nat

ASSUME TimersAssumption ==
  /\ TimerIds \subseteq Nat \ {0}
  /\ \E i, j \in TimerIds : i # j

ASSUME NilAssumption == Nil \notin TimerIds \cup Interpreter \cup Source \cup {NoCode}

VARIABLES
  workspace,   \* the program the blocks of the workspace stand for
  queued,      \* Blockly has events of changes to hand to App.onChange
  moveTimer,   \* the timer of App.onChange is armed
  generated,   \* App.generatedCode, Nil until it is defined
  raw,         \* the source window shows a document instead of App.generatedCode
  prefixed,    \* Blockly.JavaScript.STATEMENT_PREFIX is set
  named,       \* Blockly.JavaScript.variableDB_ exists
  keys,        \* names that index memory.keys
  memOpen,     \* the memory window shows its content
  cpuOpen,     \* the processor window shows its content
  interp,      \* cpu.interpreter
  milestone,   \* cpu.milestone_id: a block, 0 or null
  xrun,        \* cpu.x_run
  busy,        \* cpu.run is on JavaScript's stack
  pending,     \* timers armed by cpu.run and not fired nor cleared
  timeoutId,   \* cpu.timeoutId
  speed,       \* cpu.speed
  wrapped,     \* cpu.wrapped_pause, in microseconds
  buttons,     \* what the processor's buttons offer
  highlight    \* the block the driver last asked to highlight, or null

appVars == <<workspace, queued, moveTimer, generated, raw>>
codeVars == <<prefixed, named, keys>>
winVars == <<memOpen, cpuOpen>>
runVars == <<milestone, busy, wrapped, highlight>>
vars == <<appVars, codeVars, winVars, runVars, interp, xrun, pending, timeoutId, speed, buttons>>

-----------------------------------------------------------------------------
(* The buttons: the play button is hidden, enabled or disabled, the pause  *)
(* button is shown or not, the step button is enabled or not.              *)

Buttons == [play : {"hidden", "enabled", "disabled"}, pause : BOOLEAN, step : BOOLEAN]
InitialButtons == [play |-> "enabled",  pause |-> TRUE,  step |-> TRUE]
ReadyButtons   == [play |-> "enabled",  pause |-> FALSE, step |-> TRUE]
PlayingButtons == [play |-> "hidden",   pause |-> TRUE,  step |-> FALSE]
EndedButtons   == [play |-> "disabled", pause |-> FALSE, step |-> FALSE]

-----------------------------------------------------------------------------
(* Generated code and the memory window.                                   *)

\* workspaceToCode: no code for an empty workspace, else code with or
\* without a __block__ call before each statement.
SourceOf(p, prefix) ==
  IF p.status = "empty" THEN NoCode ELSE [prog |-> p, prefixed |-> prefix]

\* memory.reset adds an entry per variable under its generated name, once
\* variableDB_ exists, and never removes one from memory.keys.
MonitoredKeys(hasNames) ==
  IF hasNames THEN keys \cup {NameOf[v] : v \in VarsOf(workspace)}
              ELSE keys

\* cpu.initWrappers defines __monitor__ only if the memory window is open.
NewInterpreter(p) == [prog |-> p, at |-> Start, monitored |-> memOpen]

\* cpu.wrapper_pause: the pause asked for by __pause__(n,u), in microseconds,
\* or the one asked before if n is less than a millisecond.
InMicroseconds(n, u) ==
  CASE u = "s"  -> n * 1000000
    [] u = "ms" -> n * 1000
    [] OTHER    -> n

WrapperPause(n, u) ==
  IF InMicroseconds(n, u) >= 1000 THEN InMicroseconds(n, u) ELSE wrapped

-----------------------------------------------------------------------------
(* The interpreter, as the driver sees it.                                 *)

Executes(kind) ==
  interp # Nil /\ interp.at \in Blocks /\ interp.prog.kind[interp.at] = kind

\* Every assignment is followed by a call of __monitor__ with the name typed
\* by the user, which fails without the wrapper or without such an entry.
MonitorFails ==
  /\ Executes("set")
  /\ ~(interp.monitored /\ interp.prog.var[interp.at] \in keys)

\* cpu.wrapped_pause once the current block is executed.
PauseAfter ==
  IF Executes("pause")
  THEN LET p == interp.prog.pause[interp.at] IN WrapperPause(p.n, p.unit)
  ELSE wrapped

-----------------------------------------------------------------------------
(* Timers of cpu.run.                                                      *)

\* Mutant: the call of clearTimeout is forgotten.
KeepTimer == pending

ClearTimer == {t \in pending : t.id # timeoutId}

FreshId == CHOOSE i \in TimerIds : \A t \in pending : i # t.id /\ i # timeoutId

\* Mutant: setTimeout is not called.
ArmNothing(delay) == UNCHANGED <<timeoutId, pending>>

Arm(delay) ==
  /\ timeoutId' = FreshId
  /\ pending' = pending \cup {[id |-> FreshId, delay |-> delay]}

\* Mutants: the speed, or the pause of the program, is ignored.
DelayIgnoresSpeed(wp) == wp
DelayIgnoresPause(wp) == Speeds[speed]

\* Time to wait at a milestone, with wp the pause asked for.
Delay(wp) == IF wp > Speeds[speed] THEN wp ELSE Speeds[speed]

-----------------------------------------------------------------------------
(* Initial state: the page is loaded, no session is restored, no window is *)
(* open.                                                                   *)

Init ==
  /\ workspace \in {p \in Programs : p.status = "empty"}
  /\ queued = FALSE /\ moveTimer = FALSE
  /\ generated = Nil /\ raw = FALSE
  /\ prefixed = FALSE /\ named = FALSE /\ keys = {}
  /\ memOpen = FALSE /\ cpuOpen = FALSE
  /\ interp = Nil /\ milestone = Nil
  /\ xrun = FALSE /\ busy = FALSE
  /\ pending = {} /\ timeoutId = Nil
  /\ speed \in DOMAIN Speeds /\ wrapped = 0
  /\ buttons = InitialButtons /\ highlight = Nil

-----------------------------------------------------------------------------
(* The loop of cpu.run.                                                    *)

\* Mutant: the end of the program does not leave run mode.
CompletedInRunMode ==
  highlight' = Nil /\ buttons' = EndedButtons /\ busy' = FALSE /\ UNCHANGED xrun

\* Mutant: the last block stays highlighted.
CompletedHighlighted ==
  buttons' = EndedButtons /\ xrun' = FALSE /\ busy' = FALSE /\ UNCHANGED highlight

\* "Execution completed": the program ended, or there is no interpreter, so
\* that the first call of step() throws and the finally clause leaves the loop.
Completed ==
  /\ highlight' = Nil
  /\ buttons' = EndedButtons
  /\ xrun' = FALSE
  /\ busy' = FALSE

\* Mutant: x_run is tested only when there is a delay to wait for.
SettleAfterDelay(m, wp) ==
  /\ UNCHANGED <<xrun, buttons>>
  /\ wrapped' = 0 /\ milestone' = 0
  /\ \/ /\ Delay(wp) # 0
        /\ highlight' = m /\ busy' = FALSE
        /\ IF xrun THEN Arm(Delay(wp)) ELSE UNCHANGED <<pending, timeoutId>>
     \/ /\ Delay(wp) = 0
        /\ UNCHANGED <<highlight, busy, pending, timeoutId>>

\* What the loop does once block m is announced, with wp the pause asked for.
Settle(m, wp) ==
  /\ UNCHANGED <<xrun, buttons>>
  /\ \/ /\ ~xrun
        /\ highlight' = m /\ milestone' = 0 /\ wrapped' = wp
        /\ busy' = FALSE
        /\ UNCHANGED <<pending, timeoutId>>
     \/ /\ xrun /\ Delay(wp) # 0
        /\ IF speed # 0 THEN highlight' = m /\ milestone' = 0
                        ELSE highlight' = highlight /\ milestone' = m
        /\ wrapped' = 0
        /\ Arm(Delay(wp))
        /\ busy' = FALSE
     \/ /\ xrun /\ Delay(wp) = 0
        /\ milestone' = 0 /\ wrapped' = 0
        /\ UNCHANGED <<highlight, busy, pending, timeoutId>>

Continues == busy /\ interp # Nil /\ interp.at # Done

\* step() returns false, or throws for want of an interpreter.
RunEnded ==
  /\ busy
  /\ interp # Nil => interp.at = Done
  /\ Completed
  /\ UNCHANGED <<appVars, codeVars, winVars, interp, milestone, pending, timeoutId, speed, wrapped>>

\* First step() of a call whose milestone was left non-zero: by cpu.reset
\* (null) or at speed 0.  It reaches no other block.
RunQuietStep ==
  /\ Continues /\ milestone # 0
  /\ Settle(milestone, wrapped)
  /\ UNCHANGED <<appVars, codeVars, winVars, interp, speed>>

\* The current block is executed, and the next one is announced.
RunToMilestone ==
  /\ Continues /\ milestone = 0 /\ ~MonitorFails /\ ~Executes("spin")
  /\ \E b \in Successors(interp.prog, interp.at) \ {Done} :
       /\ interp' = [interp EXCEPT !.at = b]
       /\ Settle(b, PauseAfter)
  /\ UNCHANGED <<appVars, codeVars, winVars, speed>>

\* The current block is executed, and it was the last one.
RunToEnd ==
  /\ Continues /\ milestone = 0 /\ ~MonitorFails /\ ~Executes("spin")
  /\ Done \in Successors(interp.prog, interp.at)
  /\ interp' = [interp EXCEPT !.at = Done]
  /\ wrapped' = PauseAfter
  /\ UNCHANGED <<appVars, codeVars, winVars, milestone, busy, highlight, xrun, pending, timeoutId, speed, buttons>>

\* The current block throws.  It is not in the first step() of the call, so
\* "ok" is still true, and the exception leaves cpu.run from the finally clause.
RunThrows ==
  /\ Continues /\ milestone = 0
  /\ MonitorFails \/ Executes("read")
  /\ interp' = [interp EXCEPT !.at = Trapped]
  /\ busy' = FALSE
  /\ UNCHANGED <<appVars, codeVars, winVars, milestone, highlight, wrapped, xrun, pending, timeoutId, speed, buttons>>

\* The current block is a loop without a statement: no milestone is reached.
RunSpins ==
  /\ Continues /\ milestone = 0 /\ Executes("spin")
  /\ UNCHANGED vars

Run == RunEnded \/ RunQuietStep \/ RunToMilestone \/ RunToEnd \/ RunThrows \/ RunSpins

-----------------------------------------------------------------------------
(* The handlers.                                                           *)

\* cpu.reset.  The call of cpu.run at its end is left to the Run actions.
\* new Interpreter throws if the code does not compile.
Reset(hasNames) ==
  /\ milestone' = Nil
  /\ pending' = ClearTimer
  /\ xrun' = FALSE
  /\ buttons' = ReadyButtons
  /\ keys' = MonitoredKeys(hasNames)
  /\ prefixed' = TRUE /\ named' = TRUE
  /\ IF workspace.status = "good"
     THEN interp' = NewInterpreter(workspace) /\ busy' = TRUE
     ELSE UNCHANGED <<interp, busy>>
  /\ UNCHANGED <<wrapped, highlight, timeoutId, speed, workspace, memOpen>>

\* The blocks are moved, changed, created or deleted, one by one or from a
\* document.  Blockly hands the events to App.onChange later.
Edit ==
  /\ ~busy
  /\ workspace' \in Programs
  /\ queued' = TRUE
  /\ UNCHANGED <<moveTimer, generated, raw, codeVars, winVars, runVars, interp, xrun, pending, timeoutId, speed, buttons>>

\* App.textToWorkspace, with a document that is not read: its text goes to the
\* source window and the blocks are removed.  An empty workspace may have had
\* some of the blocks of the document in between.
LoadUnreadable ==
  /\ ~busy
  /\ raw' = TRUE
  /\ workspace' \in {p \in Programs : p.status = "empty"}
  /\ queued' \in IF workspace.status = "empty" THEN {queued, TRUE} ELSE {TRUE}
  /\ UNCHANGED <<moveTimer, generated, codeVars, winVars, runVars, interp, xrun, pending, timeoutId, speed, buttons>>

\* Mutant: the timer is cleared and no other is armed.
OnChangeUnarmed ==
  /\ ~busy /\ queued
  /\ queued' = FALSE /\ moveTimer' = FALSE
  /\ UNCHANGED <<workspace, generated, raw, codeVars, winVars, runVars, interp, xrun, pending, timeoutId, speed, buttons>>

\* App.onChange clears the timer, and arms another.
OnChange ==
  /\ ~busy /\ queued
  /\ queued' = FALSE /\ moveTimer' = TRUE
  /\ UNCHANGED <<workspace, generated, raw, codeVars, winVars, runVars, interp, xrun, pending, timeoutId, speed, buttons>>

\* App.codeChanged, once no block has moved for 250 ms.
CodeChanged ==
  /\ ~busy /\ moveTimer
  /\ moveTimer' = FALSE
  /\ generated' = SourceOf(workspace, prefixed)
  /\ UNCHANGED <<queued, cpuOpen>>
  /\ IF generated' # generated
     THEN raw' = FALSE /\ Reset(TRUE)
     ELSE /\ named' = TRUE
          /\ UNCHANGED <<workspace, raw, prefixed, keys, memOpen, runVars, interp, xrun, pending, timeoutId, speed, buttons>>

\* The reset button, cpu.reset.
ResetClick ==
  /\ ~busy /\ cpuOpen
  /\ Reset(named)
  /\ UNCHANGED <<queued, moveTimer, generated, raw, cpuOpen>>

\* cpu.play.
Play ==
  /\ ~busy /\ cpuOpen /\ buttons.play = "enabled"
  /\ buttons' = PlayingButtons
  /\ highlight' = Nil
  /\ xrun' = TRUE /\ busy' = TRUE
  /\ UNCHANGED <<appVars, codeVars, winVars, milestone, wrapped, interp, pending, timeoutId, speed>>

\* cpu.pause.
Pause ==
  /\ ~busy /\ cpuOpen /\ buttons.pause
  /\ pending' = ClearTimer /\ timeoutId' = 0
  /\ xrun' = FALSE
  /\ buttons' = ReadyButtons
  /\ UNCHANGED <<appVars, codeVars, winVars, runVars, interp, speed>>

\* The step button, cpu.run.
Step ==
  /\ ~busy /\ cpuOpen /\ buttons.step
  /\ busy' = TRUE
  /\ UNCHANGED <<appVars, codeVars, winVars, milestone, wrapped, highlight, interp, xrun, pending, timeoutId, speed, buttons>>

\* A timer armed by cpu.run calls cpu.run.
TimerFires ==
  /\ ~busy
  /\ \E t \in pending : pending' = pending \ {t}
  /\ busy' = TRUE
  /\ UNCHANGED <<appVars, codeVars, winVars, milestone, wrapped, highlight, interp, xrun, timeoutId, speed, buttons>>

\* cpu.oninput and cpu.onwheel.
ChangeSpeed ==
  /\ ~busy /\ cpuOpen
  /\ speed' \in DOMAIN Speeds
  /\ UNCHANGED <<appVars, codeVars, winVars, runVars, interp, xrun, pending, timeoutId, buttons>>

\* cpu.onDisplay, called when the content of the window is shown...
ShowCpu ==
  /\ ~busy /\ ~cpuOpen
  /\ cpuOpen' = TRUE
  /\ Reset(named)
  /\ UNCHANGED <<queued, moveTimer, generated, raw>>

\* ... or hidden.
HideCpu ==
  /\ ~busy /\ cpuOpen
  /\ cpuOpen' = FALSE
  /\ interp' = Nil
  /\ UNCHANGED <<appVars, codeVars, memOpen, runVars, xrun, pending, timeoutId, speed, buttons>>

ToggleMemory ==
  /\ ~busy
  /\ memOpen' = ~memOpen
  /\ UNCHANGED <<appVars, codeVars, cpuOpen, runVars, interp, xrun, pending, timeoutId, speed, buttons>>

User ==
  \/ Edit \/ LoadUnreadable
  \/ ResetClick \/ Play \/ Pause \/ Step \/ ChangeSpeed \/ ShowCpu \/ HideCpu \/ ToggleMemory

Next == User \/ OnChange \/ CodeChanged \/ TimerFires \/ Run

\* A handler that started runs to its end, and a timer of cpu.run that is not
\* cleared fires.
Fairness == WF_vars(Run) /\ WF_vars(TimerFires)

Spec == Init /\ [][Next]_vars

FairSpec == Spec /\ Fairness

-----------------------------------------------------------------------------
(* Correctness.                                                            *)

\* Every variable has its type.
TypeOK ==
  /\ workspace \in Programs
  /\ generated \in Source \cup {NoCode, Nil}
  /\ queued \in BOOLEAN /\ moveTimer \in BOOLEAN /\ raw \in BOOLEAN
  /\ prefixed \in BOOLEAN /\ named \in BOOLEAN
  /\ keys \subseteq Vars
  /\ memOpen \in BOOLEAN /\ cpuOpen \in BOOLEAN
  /\ interp \in Interpreter \cup {Nil}
  /\ milestone \in Blocks \cup {0, Nil}
  /\ xrun \in BOOLEAN /\ busy \in BOOLEAN
  /\ pending \subseteq Timer
  /\ timeoutId \in TimerIds \cup {0, Nil}
  /\ speed \in DOMAIN Speeds /\ wrapped \in Nat
  /\ buttons \in Buttons
  /\ highlight \in Blocks \cup {Nil}

\* There is one chain of executions: no timer is left armed while cpu.run
\* runs or while the processor is stopped, and the only timer that may be
\* armed is the one that cpu.pause and cpu.reset would clear.
SingleTimer ==
  /\ busy \/ ~xrun => pending = {}
  /\ \A s, t \in pending : s = t
  /\ \A t \in pending : t.id = timeoutId

\* In an open window, the pause button is there, and the play and step
\* buttons are not, exactly while the processor is in run mode.
ButtonsMatchMode ==
  cpuOpen => /\ buttons.pause = xrun
             /\ (buttons.play = "hidden") = xrun
             /\ buttons.step => ~xrun

\* Once the driver rests with its milestone consumed, a highlighted block is the
\* block that the next step executes.
HighlightIsNext ==
  ~busy /\ milestone = 0 /\ interp # Nil /\ interp.at # Trapped
    => highlight \in {Nil, interp.at}

\* Once no event is queued and App.codeChanged is not due, the code generated last
\* is that of the workspace, however edits, events, timers and resets (which change
\* what is generated) came.  The source window shows it, unless a document that
\* could not be read came after.
SourceIsCurrent ==
  ~queued /\ ~moveTimer =>
    IF workspace.status = "empty" THEN generated \in {NoCode, Nil}
    ELSE generated # Nil /\ generated.prog = workspace

\* The pause to wait for once the current block is executed: the one that it
\* asks for, if it lasts a millisecond, else the one that was left to wait for.
PauseDue ==
  IF Executes("pause")
  THEN LET p == interp.prog.pause[interp.at]
           asked == InMicroseconds(p.n, p.unit)
       IN IF asked >= 1000 THEN asked ELSE wrapped
  ELSE wrapped

\* The last pause that the program asked for is left to wait for, until a timer is
\* armed that lasts at least as long; by SingleTimer no block is executed
\* before that timer fires, unless the user stops the program.  It holds of a pause
\* that is executed in run mode, whose timer is armed by the same call of cpu.run,
\* and of one executed by the step button, which is waited for in run mode.
PauseIsWaited ==
  [][LET due == IF RunToMilestone \/ RunToEnd THEN PauseDue ELSE wrapped
     IN \/ wrapped' = due
        \/ \E t \in pending' \ pending : t.delay >= due]_vars

\* The abstract processor, with its mode read off x_run and the stack.
Proc == INSTANCE Processor WITH
  mode <- IF xrun THEN "running" ELSE IF busy THEN "stepping" ELSE "stopped",
  prog <- IF interp = Nil THEN Nil ELSE interp.prog,
  at   <- IF interp = Nil THEN Nil ELSE interp.at

\* The driver keeps the promise of Processor: a stopped program does not move,
\* and a step executes one statement at most.
ImplementsProcessor == Proc!PSpec

\* A call of cpu.run returns to the browser, except at speed 0 in run mode.
Responsive == busy /\ ~(xrun /\ speed = 0) /\ ~Executes("spin") ~> ~busy

\* The interpreted program has thrown.
Threw == interp # Nil /\ interp.at = Trapped

\* In run mode, with an interpreter, an execution is in progress or scheduled,
\* whatever was clicked, edited or thrown before, unless the program of this very
\* interpreter has thrown: its exception leaves cpu.run without leaving run mode.
PlayingIsAlive == ~busy /\ xrun /\ interp # Nil => pending # {} \/ Threw

\* A processor left in run mode goes on executing the program, if no block
\* throws and no block spins.
KeepsRunning ==
  <>[](xrun /\ interp # Nil /\ ~Threw /\ ~Executes("spin")) => []<><<RunToMilestone>>_vars

-----------------------------------------------------------------------------
(* The inductive invariant that implies the safety properties.             *)

\* Before the first reset the page shows every button, in a hidden window.
ButtonsInv ==
  \/ buttons = InitialButtons /\ ~cpuOpen /\ ~xrun
  \/ /\ buttons.pause = xrun
     /\ (buttons.play = "hidden") = xrun
     /\ buttons.step => ~xrun

\* A milestone that is not consumed is where the interpreter stands.
MilestoneInv == milestone \in Blocks /\ interp # Nil => milestone = interp.at

\* All of it: the types, the timers and the buttons, which depend on one another,
\* then where the driver stands in the program, then the source window.
CpuInv ==
  TypeOK /\ SingleTimer /\ ButtonsInv /\ MilestoneInv /\ HighlightIsNext /\ SourceIsCurrent

=============================================================================
