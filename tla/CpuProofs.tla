----------------------------- MODULE CpuProofs -----------------------------
(***************************************************************************)
(* What the driver of the interpreter keeps true for every set of programs *)
(* and of speeds.                                                          *)
(*                                                                         *)
(* CpuInv is inductive.  Its part about timers and buttons, CoreInv, comes *)
(* first: one lemma for the steps of cpu.run, one for the handlers.  Where *)
(* the driver stands in the program (MilestoneInv and HighlightIsNext) and *)
(* the source window (SourceIsCurrent) follow.  The last part is the proof *)
(* that the driver implements Processor.                                   *)
(***************************************************************************)
EXTENDS Cpu, TLAPS

\* The positions that follow a position are positions.
LEMMA SuccessorsType ==
  ASSUME NEW p \in Programs, NEW at \in Position
  PROVE  Successors(p, at) \subseteq Blocks \cup {Done}
BY ProgramsAssumption, PositionsAssumption DEF Successors, BlocksOf, Program, Position

\* The pause that a block leaves to wait for is a natural number.
LEMMA PauseType ==
  ASSUME TypeOK
  PROVE  PauseAfter \in Nat
<1>1. CASE ~Executes("pause")
  BY <1>1 DEF PauseAfter, TypeOK
<1>2. CASE Executes("pause")
  <2> DEFINE p == interp.prog.pause[interp.at]
  <2>1. interp.prog \in Program /\ interp.at \in Blocks
    BY <1>2, ProgramsAssumption DEF Executes, TypeOK, Interpreter
  <2>2. p \in [n : Nat, unit : Units]
    BY <2>1 DEF Program
  <2>3. p.n \in Nat
    BY <2>2
  <2>4. InMicroseconds(p.n, p.unit) \in Nat
    BY <2>3 DEF InMicroseconds
  <2>5. WrapperPause(p.n, p.unit) \in Nat
    BY <2>4 DEF WrapperPause, TypeOK
  <2> QED
    BY <1>2, <2>5 DEF PauseAfter
<1> QED
  BY <1>1, <1>2

\* A delay is a natural number.
LEMMA DelayType ==
  ASSUME TypeOK, NEW wp \in Nat
  PROVE  Delay(wp) \in Nat
BY SpeedsAssumption DEF TypeOK, Delay

\* When no timer is armed, a fresh identifier is one that setTimeout returns.
LEMMA FreshIdType ==
  ASSUME pending = {}
  PROVE  FreshId \in TimerIds
<1>1. \E i \in TimerIds : \A t \in pending : i # t.id /\ i # timeoutId
  BY TimersAssumption
<1> QED
  BY <1>1 DEF FreshId

\* Settle keeps the types and the invariants of the timers and of the buttons.
LEMMA SettleTypes ==
  ASSUME TypeOK, pending = {}, busy,
         NEW m \in Blocks \cup {Nil}, NEW wp \in Nat, Settle(m, wp)
  PROVE  /\ milestone' \in Blocks \cup {0, Nil}
         /\ busy' \in BOOLEAN /\ xrun' = xrun /\ buttons' = buttons
         /\ pending' \subseteq Timer
         /\ timeoutId' \in TimerIds \cup {0, Nil}
         /\ wrapped' \in Nat
         /\ highlight' \in Blocks \cup {Nil}
         /\ busy' \/ ~xrun => pending' = {}
         /\ \A s, t \in pending' : s = t
         /\ \A t \in pending' : t.id = timeoutId'
<1>1. CASE ~xrun
  BY <1>1 DEF Settle, TypeOK
<1>2. CASE xrun /\ Delay(wp) # 0
  <2>1. timeoutId' = FreshId /\ pending' = {[id |-> FreshId, delay |-> Delay(wp)]} /\ busy' = FALSE
    BY <1>2 DEF Settle, Arm
  <2>2. FreshId \in TimerIds /\ Delay(wp) \in Nat
    BY FreshIdType, DelayType
  <2>3. pending' \subseteq Timer
    BY <2>1, <2>2 DEF Timer
  <2>4. \A s, t \in pending' : s = t /\ t.id = timeoutId'
    BY <2>1
  <2>5. /\ milestone' \in {0, m} /\ highlight' \in {m, highlight} /\ wrapped' = 0
        /\ xrun' = xrun /\ buttons' = buttons
    BY <1>2 DEF Settle
  <2> QED
    BY <1>2, <2>1, <2>2, <2>3, <2>4, <2>5 DEF TypeOK
<1>3. CASE xrun /\ Delay(wp) = 0
  BY <1>3 DEF Settle, TypeOK
<1> QED
  BY <1>1, <1>2, <1>3 DEF TypeOK

\* What cpu.reset leaves behind.
ResetDone ==
  /\ milestone' = Nil /\ pending' = {} /\ xrun' = FALSE /\ busy' \in BOOLEAN
  /\ buttons' = ReadyButtons
  /\ keys' \subseteq Vars /\ prefixed' = TRUE /\ named' = TRUE
  /\ interp' \in Interpreter \cup {Nil}
  /\ UNCHANGED <<wrapped, highlight, timeoutId, speed, workspace, memOpen>>

\* cpu.reset clears the only timer, leaves run mode and keeps the types.
LEMMA ResetEffect ==
  ASSUME TypeOK, SingleTimer, NEW n \in BOOLEAN, Reset(n)
  PROVE  ResetDone
<1>1. pending' = {}
  BY DEF Reset, ClearTimer, SingleTimer
<1>2. keys' \subseteq Vars
  <2>1. workspace \in Program
    BY ProgramsAssumption DEF TypeOK
  <2>2. VarsOf(workspace) \subseteq Vars
    BY <2>1 DEF VarsOf, Program
  <2> QED
    BY <2>2, NamesAssumption DEF Reset, MonitoredKeys, TypeOK
<1>3. interp' \in Interpreter \cup {Nil}
  BY DEF Reset, NewInterpreter, TypeOK, Interpreter, Position
<1> QED
  BY <1>1, <1>2, <1>3 DEF Reset, TypeOK, ResetDone

\* After a reset there is no timer, and the buttons are those of a stopped processor.
LEMMA ResetKeepsTimersAndButtons ==
  ASSUME ResetDone
  PROVE  SingleTimer' /\ ButtonsInv'
BY DEF ResetDone, SingleTimer, ButtonsInv, ReadyButtons

\* The states of the buttons that the handlers set are states of the buttons.
LEMMA ButtonsType ==
  {InitialButtons, ReadyButtons, PlayingButtons, EndedButtons} \subseteq Buttons
BY DEF Buttons, InitialButtons, ReadyButtons, PlayingButtons, EndedButtons

\* The types, the timers and the buttons, which depend on one another.
CoreInv == TypeOK /\ SingleTimer /\ ButtonsInv

\* The page is loaded with no timer and with the initial buttons.
LEMMA CoreInit == Init => CoreInv
<1> SUFFICES ASSUME Init PROVE CoreInv
  OBVIOUS
<1>1. TypeOK
  BY ButtonsType, SpeedsAssumption DEF Init, TypeOK
<1>2. SingleTimer /\ ButtonsInv
  BY DEF Init, SingleTimer, ButtonsInv
<1> QED
  BY <1>1, <1>2 DEF CoreInv

\* No step of cpu.run leaves a timer armed beside another, or behind a stop.
LEMMA RunKeepsCore ==
  ASSUME CoreInv, Run
  PROVE  CoreInv'
<1> USE DEF CoreInv, appVars, codeVars, winVars, runVars
<1>1. busy /\ pending = {}
  BY DEF SingleTimer, Run, RunEnded, RunQuietStep, RunToMilestone, RunToEnd, RunThrows, RunSpins, Continues, TypeOK
<1>2. CASE RunEnded
  <2>1. buttons' \in Buttons /\ highlight' \in Blocks \cup {Nil} /\ xrun' \in BOOLEAN /\ busy' \in BOOLEAN
    BY <1>2, ButtonsType DEF RunEnded, Completed
  <2>2. TypeOK'
    <3>1. /\ workspace' = workspace /\ generated' = generated /\ moveTimer' = moveTimer
          /\ queued' = queued /\ raw' = raw
          /\ prefixed' = prefixed /\ named' = named /\ keys' = keys
          /\ memOpen' = memOpen /\ cpuOpen' = cpuOpen /\ interp' = interp
          /\ milestone' = milestone /\ pending' = pending /\ timeoutId' = timeoutId
          /\ speed' = speed /\ wrapped' = wrapped
      BY <1>2 DEF RunEnded
    <3> QED
      BY <2>1, <3>1 DEF TypeOK
  <2>3. SingleTimer' /\ ButtonsInv'
    BY <1>1, <1>2 DEF RunEnded, Completed, SingleTimer, ButtonsInv, EndedButtons
  <2> QED
    BY <2>2, <2>3
<1>3. CASE RunQuietStep
  <2>1. milestone \in Blocks \cup {Nil} /\ wrapped \in Nat /\ Settle(milestone, wrapped)
    BY <1>3 DEF RunQuietStep, TypeOK
  <2>2. TypeOK'
    BY <1>1, <1>3, <2>1, SettleTypes DEF RunQuietStep, TypeOK
  <2>3. SingleTimer' /\ ButtonsInv'
    BY <1>1, <1>3, <2>1, SettleTypes DEF RunQuietStep, SingleTimer, ButtonsInv
  <2> QED
    BY <2>2, <2>3
<1>4. CASE RunToMilestone
  <2>1. interp \in Interpreter /\ interp.prog \in Programs /\ interp.at \in Position
    BY <1>4 DEF RunToMilestone, Continues, TypeOK, Interpreter
  <2>2. PICK b \in Successors(interp.prog, interp.at) \ {Done} :
          interp' = [interp EXCEPT !.at = b] /\ Settle(b, PauseAfter)
    BY <1>4 DEF RunToMilestone
  <2>3. b \in Blocks /\ PauseAfter \in Nat
    BY <2>1, <2>2, SuccessorsType, PauseType
  <2>4. interp' \in Interpreter
    BY <2>1, <2>2, <2>3 DEF Interpreter, Position
  <2>5. TypeOK'
    BY <1>1, <1>4, <2>2, <2>3, <2>4, SettleTypes DEF RunToMilestone, TypeOK
  <2>6. SingleTimer' /\ ButtonsInv'
    BY <1>1, <1>4, <2>2, <2>3, SettleTypes DEF RunToMilestone, SingleTimer, ButtonsInv
  <2> QED
    BY <2>5, <2>6
<1>5. CASE RunToEnd
  <2>1. interp' \in Interpreter
    BY <1>5 DEF RunToEnd, Continues, TypeOK, Interpreter, Position
  <2>2. wrapped' \in Nat
    BY <1>5, PauseType DEF RunToEnd
  <2>3. TypeOK'
    BY <1>5, <2>1, <2>2 DEF RunToEnd, TypeOK
  <2>4. SingleTimer' /\ ButtonsInv'
    BY <1>5 DEF RunToEnd, SingleTimer, ButtonsInv
  <2> QED
    BY <2>3, <2>4
<1>6. CASE RunThrows
  <2>1. interp' \in Interpreter
    BY <1>6 DEF RunThrows, Continues, TypeOK, Interpreter, Position
  <2>2. TypeOK'
    <3>1. /\ workspace' = workspace /\ generated' = generated /\ moveTimer' = moveTimer
          /\ queued' = queued /\ raw' = raw
          /\ prefixed' = prefixed /\ named' = named /\ keys' = keys
          /\ memOpen' = memOpen /\ cpuOpen' = cpuOpen /\ highlight' = highlight
          /\ milestone' = milestone /\ pending' = pending /\ timeoutId' = timeoutId
          /\ speed' = speed /\ wrapped' = wrapped /\ buttons' = buttons
      BY <1>6 DEF RunThrows
    <3>2. xrun' \in BOOLEAN /\ busy' \in BOOLEAN
      BY <1>6 DEF RunThrows, TypeOK
    <3> QED
      BY <2>1, <3>1, <3>2 DEF TypeOK
  <2>3. SingleTimer' /\ ButtonsInv'
    BY <1>1, <1>6 DEF RunThrows, SingleTimer, ButtonsInv
  <2> QED
    BY <2>2, <2>3
<1>7. CASE RunSpins
  BY <1>7 DEF RunSpins, vars, TypeOK, SingleTimer, ButtonsInv
<1> QED
  BY <1>2, <1>3, <1>4, <1>5, <1>6, <1>7 DEF Run

\* No handler does either.
LEMMA HandlersKeepCore ==
  ASSUME CoreInv, User \/ OnChange \/ CodeChanged \/ TimerFires
  PROVE  CoreInv'
<1> USE DEF CoreInv, appVars, codeVars, winVars, runVars
<1>1. CASE Edit \/ LoadUnreadable \/ OnChange
  <2>1. TypeOK'
    <3>1. /\ workspace' \in Programs /\ queued' \in BOOLEAN /\ moveTimer' \in BOOLEAN /\ raw' \in BOOLEAN
      <4>1. workspace \in Programs /\ queued \in BOOLEAN /\ moveTimer \in BOOLEAN /\ raw \in BOOLEAN
        BY DEF TypeOK
      <4>2. CASE Edit
        BY <4>1, <4>2 DEF Edit
      <4>3. CASE LoadUnreadable
        BY <4>1, <4>3 DEF LoadUnreadable
      <4>4. CASE OnChange
        BY <4>1, <4>4 DEF OnChange
      <4> QED
        BY <1>1, <4>2, <4>3, <4>4
    <3>2. /\ UNCHANGED <<generated, prefixed, named, keys, memOpen, cpuOpen, interp, milestone>>
          /\ UNCHANGED <<xrun, busy, pending, timeoutId, speed, wrapped, buttons, highlight>>
      BY <1>1 DEF Edit, LoadUnreadable, OnChange
    <3> QED
      BY <3>1, <3>2 DEF TypeOK
  <2>2. SingleTimer' /\ ButtonsInv'
    <3>1. UNCHANGED <<cpuOpen, xrun, busy, pending, timeoutId, buttons>>
      BY <1>1 DEF Edit, LoadUnreadable, OnChange
    <3> QED
      BY <3>1 DEF SingleTimer, ButtonsInv
  <2> QED
    BY <2>1, <2>2
<1>2. CASE CodeChanged
  <2>1. generated' \in Source \cup {NoCode, Nil}
    BY <1>2 DEF CodeChanged, SourceOf, Source, TypeOK
  <2>2. CASE generated' # generated
    <3>1. ~busy /\ Reset(TRUE) /\ moveTimer' = FALSE /\ raw' = FALSE /\ UNCHANGED <<queued, cpuOpen>>
      BY <1>2, <2>2 DEF CodeChanged
    <3>2. ResetDone
      BY <3>1, ResetEffect
    <3>3. TypeOK'
      BY <2>1, <3>1, <3>2, ButtonsType DEF TypeOK, ResetDone
    <3> QED
      BY <3>2, <3>3, ResetKeepsTimersAndButtons
  <2>3. CASE generated' = generated
    <3>1. TypeOK'
      BY <1>2, <2>1, <2>3 DEF CodeChanged, TypeOK
    <3>2. SingleTimer' /\ ButtonsInv'
      BY <1>2, <2>3 DEF CodeChanged, SingleTimer, ButtonsInv
    <3> QED
      BY <3>1, <3>2
  <2> QED
    BY <2>2, <2>3
<1>3. CASE ResetClick
  <2>1. ~busy /\ Reset(named) /\ named \in BOOLEAN
        /\ UNCHANGED <<queued, moveTimer, generated, raw, cpuOpen>>
    BY <1>3 DEF ResetClick, TypeOK
  <2>2. ResetDone
    BY <2>1, ResetEffect
  <2>3. TypeOK'
    BY <2>1, <2>2, ButtonsType DEF TypeOK, ResetDone
  <2> QED
    BY <2>2, <2>3, ResetKeepsTimersAndButtons
<1>4. CASE Play
  <2>1. TypeOK'
    BY <1>4, ButtonsType DEF Play, TypeOK
  <2>2. pending = {}
    BY <1>4 DEF Play, SingleTimer, ButtonsInv
  <2> QED
    BY <1>4, <2>1, <2>2 DEF Play, SingleTimer, ButtonsInv, PlayingButtons
<1>5. CASE Pause
  <2>1. pending' = {}
    BY <1>5 DEF Pause, ClearTimer, SingleTimer
  <2>2. TypeOK'
    BY <1>5, <2>1, ButtonsType DEF Pause, TypeOK
  <2> QED
    BY <1>5, <2>1, <2>2 DEF Pause, SingleTimer, ButtonsInv, ReadyButtons
<1>6. CASE Step
  <2>1. pending = {}
    BY <1>6 DEF Step, SingleTimer, ButtonsInv
  <2>2. TypeOK'
    BY <1>6 DEF Step, TypeOK
  <2>3. SingleTimer' /\ ButtonsInv'
    BY <1>6, <2>1 DEF Step, SingleTimer, ButtonsInv
  <2> QED
    BY <2>2, <2>3
<1>7. CASE ChangeSpeed
  <2>1. TypeOK'
    BY <1>7 DEF ChangeSpeed, TypeOK
  <2>2. SingleTimer' /\ ButtonsInv'
    BY <1>7 DEF ChangeSpeed, SingleTimer, ButtonsInv
  <2> QED
    BY <2>1, <2>2
<1>8. CASE ShowCpu
  <2>1. ~busy /\ Reset(named) /\ named \in BOOLEAN /\ cpuOpen' = TRUE
        /\ UNCHANGED <<queued, moveTimer, generated, raw>>
    BY <1>8 DEF ShowCpu, TypeOK
  <2>2. ResetDone
    BY <2>1, ResetEffect
  <2>3. TypeOK'
    BY <2>1, <2>2, ButtonsType DEF TypeOK, ResetDone
  <2> QED
    BY <2>2, <2>3, ResetKeepsTimersAndButtons
<1>9. CASE HideCpu
  <2>1. interp' \in Interpreter \cup {Nil} /\ cpuOpen' \in BOOLEAN /\ ~cpuOpen'
    BY <1>9 DEF HideCpu
  <2>2. /\ workspace' = workspace /\ generated' = generated /\ moveTimer' = moveTimer
        /\ queued' = queued /\ raw' = raw
        /\ prefixed' = prefixed /\ named' = named /\ keys' = keys /\ memOpen' = memOpen
        /\ milestone' = milestone /\ busy' = busy /\ wrapped' = wrapped /\ highlight' = highlight
        /\ xrun' = xrun /\ pending' = pending /\ timeoutId' = timeoutId
        /\ speed' = speed /\ buttons' = buttons
    BY <1>9 DEF HideCpu
  <2>3. TypeOK'
    BY <2>1, <2>2 DEF TypeOK
  <2>4. SingleTimer' /\ ButtonsInv'
    BY <2>1, <2>2 DEF SingleTimer, ButtonsInv
  <2> QED
    BY <2>3, <2>4
<1>10. CASE ToggleMemory
  <2>1. TypeOK'
    BY <1>10 DEF ToggleMemory, TypeOK
  <2>2. SingleTimer' /\ ButtonsInv'
    BY <1>10 DEF ToggleMemory, SingleTimer, ButtonsInv
  <2> QED
    BY <2>1, <2>2
<1>11. CASE TimerFires
  <2>1. pending' = {} /\ xrun
    BY <1>11 DEF TimerFires, SingleTimer
  <2>2. /\ busy' = TRUE
        /\ UNCHANGED <<appVars, codeVars, winVars, milestone, wrapped, highlight, interp, xrun, timeoutId, speed, buttons>>
    BY <1>11 DEF TimerFires
  <2>3. TypeOK'
    BY <2>1, <2>2 DEF TypeOK
  <2>4. SingleTimer'
    BY <2>1, <2>2 DEF SingleTimer
  <2>5. ButtonsInv'
    BY <2>2 DEF ButtonsInv
  <2> QED
    BY <2>3, <2>4, <2>5
<1> QED
  BY <1>1, <1>2, <1>3, <1>4, <1>5, <1>6, <1>7, <1>8, <1>9, <1>10, <1>11 DEF User

\* The types, the timers and the buttons are kept by every handler of app.js and
\* cpu.js, and by every step of the loop of cpu.run.
THEOREM CpuCore == Spec => []CoreInv
<1>1. CoreInv /\ [Next]_vars => CoreInv'
  <2> SUFFICES ASSUME CoreInv, [Next]_vars PROVE CoreInv'
    OBVIOUS
  <2>1. CASE UNCHANGED vars
    BY <2>1 DEF vars, appVars, codeVars, winVars, runVars, CoreInv, TypeOK, SingleTimer, ButtonsInv
  <2> QED
    BY <2>1, RunKeepsCore, HandlersKeepCore DEF Next
<1> QED
  BY CoreInit, <1>1, PTL DEF Spec

\* Every variable of the driver keeps its type.
THEOREM CpuTypes == Spec => []TypeOK
<1>1. CoreInv => TypeOK
  BY DEF CoreInv
<1> QED
  BY CpuCore, <1>1, PTL

\* cpu.run never leaves more than one timer armed, and none while it runs or
\* while the processor is stopped: cpu.timeoutId is the one that is armed.
THEOREM CpuSingleTimer == Spec => []SingleTimer
<1>1. CoreInv => SingleTimer
  BY DEF CoreInv
<1> QED
  BY CpuCore, <1>1, PTL

\* In an open processor window, the buttons offered are those of the mode.
THEOREM CpuButtons == Spec => []ButtonsMatchMode
<1>1. CoreInv => ButtonsMatchMode
  BY DEF CoreInv, ButtonsInv, ButtonsMatchMode
<1> QED
  BY CpuCore, <1>1, PTL

\* Where the driver stands in the program.
PlaceInv == MilestoneInv /\ HighlightIsNext

\* Every step of cpu.run highlights, or keeps as its milestone, the block where
\* it leaves the interpreter.
LEMMA RunKeepsPlace ==
  ASSUME CoreInv, PlaceInv, Run
  PROVE  PlaceInv'
<1> USE PositionsAssumption DEF CoreInv, PlaceInv, MilestoneInv, HighlightIsNext
<1>1. CASE RunEnded
  BY <1>1 DEF RunEnded, Completed
<1>2. CASE RunQuietStep
  <2>1. UNCHANGED interp /\ interp # Nil /\ milestone \in Blocks \cup {Nil} /\ Settle(milestone, wrapped)
    BY <1>2 DEF RunQuietStep, Continues, TypeOK
  <2>2. milestone = Nil \/ milestone = interp.at
    BY <2>1
  <2> QED
    BY <1>2, <2>1, <2>2 DEF Settle, RunQuietStep, Continues, TypeOK
<1>3. CASE RunToMilestone
  <2>1. interp \in Interpreter /\ interp.prog \in Programs /\ interp.at \in Position /\ busy
    BY <1>3 DEF RunToMilestone, Continues, TypeOK, Interpreter
  <2>2. PICK b \in Successors(interp.prog, interp.at) \ {Done} :
          interp' = [interp EXCEPT !.at = b] /\ Settle(b, PauseAfter)
    BY <1>3 DEF RunToMilestone
  <2>3. interp'.at = b /\ b \in Blocks
    BY <2>1, <2>2, SuccessorsType DEF Interpreter
  <2>4. busy' \/ (milestone' = 0 /\ highlight' = b) \/ milestone' = b
    BY <2>1, <2>2 DEF Settle
  <2>5. milestone' \in {0, b}
    BY <2>2 DEF Settle
  <2> QED
    BY <2>3, <2>4, <2>5
<1>4. CASE RunToEnd
  BY <1>4 DEF RunToEnd, Continues, TypeOK
<1>5. CASE RunThrows
  <2>1. interp \in Interpreter /\ interp' = [interp EXCEPT !.at = Trapped] /\ milestone' = 0
    BY <1>5 DEF RunThrows, Continues, TypeOK
  <2>2. interp'.at = Trapped
    BY <2>1 DEF Interpreter
  <2> QED
    BY <2>1, <2>2
<1>6. CASE RunSpins
  BY <1>6 DEF RunSpins, vars, runVars
<1> QED
  BY <1>1, <1>2, <1>3, <1>4, <1>5, <1>6 DEF Run

\* A handler that moves the interpreter forgets the milestone.
LEMMA HandlersKeepPlace ==
  ASSUME PlaceInv, User \/ OnChange \/ CodeChanged \/ TimerFires
  PROVE  PlaceInv'
<1> USE PositionsAssumption DEF PlaceInv, MilestoneInv, HighlightIsNext, runVars
<1>1. milestone' = Nil => PlaceInv'
  OBVIOUS
<1>2. CASE CodeChanged
  <2>1. CASE generated' # generated
    <3>1. milestone' = Nil
      BY <1>2, <2>1 DEF CodeChanged, Reset
    <3> QED
      BY <1>1, <3>1
  <2>2. CASE generated' = generated
    BY <1>2, <2>2 DEF CodeChanged
  <2> QED
    BY <2>1, <2>2
<1>3. CASE ResetClick \/ ShowCpu
  <2>1. milestone' = Nil
    BY <1>3 DEF ResetClick, ShowCpu, Reset
  <2> QED
    BY <1>1, <2>1
<1>4. CASE Play \/ Step \/ TimerFires
  BY <1>4 DEF Play, Step, TimerFires
<1>5. CASE Edit \/ LoadUnreadable \/ OnChange \/ Pause \/ ChangeSpeed \/ HideCpu \/ ToggleMemory
  BY <1>5 DEF Edit, LoadUnreadable, OnChange, Pause, ChangeSpeed, HideCpu, ToggleMemory
<1> QED
  BY <1>2, <1>3, <1>4, <1>5 DEF User

\* A change of the blocks is an event for App.onChange, which arms the timer of
\* App.codeChanged, which generates the code of the blocks that it finds.
LEMMA NextKeepsSource ==
  ASSUME CoreInv, SourceIsCurrent, [Next]_vars
  PROVE  SourceIsCurrent'
<1> USE DEF SourceIsCurrent, appVars
<1>1. CASE Edit \/ OnChange
  BY <1>1 DEF Edit, OnChange
<1>7. CASE LoadUnreadable
  <2>1. CASE queued'
    BY <2>1
  <2>2. CASE ~queued'
    <3>1. ~queued /\ workspace.status = "empty" /\ workspace'.status = "empty"
      BY <1>7, <2>2 DEF LoadUnreadable
    <3> QED
      BY <1>7, <3>1 DEF LoadUnreadable
  <2> QED
    BY <2>1, <2>2
<1>2. CASE CodeChanged
  <2>1. workspace' = workspace
    BY <1>2 DEF CodeChanged, Reset
  <2>2. generated' = SourceOf(workspace, prefixed)
    BY <1>2 DEF CodeChanged
  <2>3. SourceOf(workspace, prefixed) \in Source \/ workspace.status = "empty"
    BY DEF SourceOf, Source, CoreInv, TypeOK
  <2>4. workspace.status # "empty" => generated' # Nil /\ generated'.prog = workspace
    BY <2>2, <2>3, NilAssumption DEF SourceOf
  <2> QED
    BY <2>1, <2>2, <2>4 DEF SourceOf
<1>3. CASE ResetClick \/ ShowCpu
  BY <1>3 DEF ResetClick, ShowCpu, Reset
<1>4. CASE Play \/ Pause \/ Step \/ ChangeSpeed \/ HideCpu \/ ToggleMemory \/ TimerFires
  BY <1>4 DEF Play, Pause, Step, ChangeSpeed, HideCpu, ToggleMemory, TimerFires
<1>5. CASE Run
  BY <1>5 DEF Run, RunEnded, RunQuietStep, RunToMilestone, RunToEnd, RunThrows, RunSpins, vars
<1>6. CASE UNCHANGED vars
  BY <1>6 DEF vars
<1> QED
  BY <1>1, <1>2, <1>3, <1>4, <1>5, <1>6, <1>7 DEF Next, User

\* The inductive invariant of the driver.
THEOREM CpuInvariant == Spec => []CpuInv
<1>1. Init => PlaceInv /\ SourceIsCurrent
  BY PositionsAssumption DEF Init, PlaceInv, MilestoneInv, HighlightIsNext, SourceIsCurrent
<1>2. CoreInv /\ PlaceInv /\ SourceIsCurrent /\ [Next]_vars => PlaceInv' /\ SourceIsCurrent'
  <2> SUFFICES ASSUME CoreInv, PlaceInv, SourceIsCurrent, [Next]_vars
               PROVE  PlaceInv' /\ SourceIsCurrent'
    OBVIOUS
  <2>1. CASE UNCHANGED vars
    BY <2>1 DEF vars, runVars, appVars, PlaceInv, MilestoneInv, HighlightIsNext, SourceIsCurrent
  <2>2. CASE Next
    BY <2>2, RunKeepsPlace, HandlersKeepPlace, NextKeepsSource DEF Next
  <2> QED
    BY <2>1, <2>2
<1>3. CoreInv /\ PlaceInv /\ SourceIsCurrent => CpuInv
  BY DEF CoreInv, PlaceInv, CpuInv
<1> QED
  BY CpuCore, <1>1, <1>2, <1>3, PTL DEF Spec

\* Once the driver rests with its milestone consumed, what it highlights is what
\* the step button executes.
THEOREM CpuHighlight == Spec => []HighlightIsNext
<1>1. CpuInv => HighlightIsNext
  BY DEF CpuInv
<1> QED
  BY CpuInvariant, <1>1, PTL

\* The code generated last is late only while events of changes are queued for
\* App.onChange, or while App.codeChanged is due.
THEOREM CpuSource == Spec => []SourceIsCurrent
<1>1. CpuInv => SourceIsCurrent
  BY DEF CpuInv
<1> QED
  BY CpuInvariant, <1>1, PTL

\* In run mode, each way out of cpu.run but the exception of the program arms the
\* timer of the next run or leaves run mode; no handler takes it away.
THEOREM CpuPlayingIsAlive == Spec => []PlayingIsAlive
<1>1. Init => PlayingIsAlive
  BY DEF Init, PlayingIsAlive
<1>2. CoreInv /\ PlayingIsAlive /\ [Next]_vars => PlayingIsAlive'
  <2> SUFFICES ASSUME CoreInv, PlayingIsAlive, [Next]_vars, ~busy', xrun', interp' # Nil
               PROVE  pending' # {} \/ Threw'
    BY DEF PlayingIsAlive
  <2>1. CASE RunEnded
    BY <2>1 DEF RunEnded, Completed
  <2>2. CASE RunQuietStep \/ RunToMilestone
    <3>1. \E m, wp : Settle(m, wp)
      BY <2>2 DEF RunQuietStep, RunToMilestone
    <3>2. PICK m, wp : Settle(m, wp)
      BY <3>1
    <3>3. busy
      BY <2>2 DEF RunQuietStep, RunToMilestone, Continues
    <3>4. Arm(Delay(wp))
      BY <3>2, <3>3 DEF Settle
    <3> QED
      BY <3>4 DEF Arm
  <2>3. CASE RunThrows
    <3>1. interp \in Interpreter /\ interp' = [interp EXCEPT !.at = Trapped]
      BY <2>3 DEF RunThrows, Continues, CoreInv, TypeOK
    <3> QED
      BY <3>1 DEF Threw, Interpreter
  <2>4. CASE RunToEnd \/ RunSpins \/ Play \/ Step \/ TimerFires
    <3>1. busy'
      <4>1. CASE RunToEnd \/ RunSpins
        <5>1. busy /\ busy' = busy
          BY <4>1 DEF RunToEnd, RunSpins, Continues, vars, runVars
        <5> QED
          BY <5>1
      <4>2. CASE Play \/ Step \/ TimerFires
        BY <4>2 DEF Play, Step, TimerFires
      <4> QED
        BY <2>4, <4>1, <4>2
    <3> QED
      BY <3>1
  <2>5. CASE \/ Edit \/ LoadUnreadable \/ OnChange \/ ChangeSpeed \/ ToggleMemory \/ HideCpu
             \/ UNCHANGED vars
    <3>1. /\ busy' = busy /\ xrun' = xrun /\ pending' = pending
          /\ interp' = interp \/ interp' = Nil
      BY <2>5 DEF Edit, LoadUnreadable, OnChange, ChangeSpeed, ToggleMemory, HideCpu, vars, runVars
    <3> QED
      BY <3>1 DEF PlayingIsAlive, Threw
  <2>6. CASE Pause \/ ResetClick \/ ShowCpu
    BY <2>6 DEF Pause, ResetClick, ShowCpu, Reset
  <2>7. CASE CodeChanged
    <3>1. CASE generated' # generated
      BY <2>7, <3>1 DEF CodeChanged, Reset
    <3>2. CASE generated' = generated
      BY <2>7, <3>2 DEF CodeChanged, PlayingIsAlive, Threw, runVars
    <3> QED
      BY <3>1, <3>2
  <2> QED
    BY <2>1, <2>2, <2>3, <2>4, <2>5, <2>6, <2>7 DEF Next, User, Run
<1> QED
  BY <1>1, <1>2, CpuCore, PTL DEF Spec

\* What a block leaves to wait for is the pause that it asks for if it is long enough.
LEMMA PauseAfterIsDue == PauseAfter = PauseDue
BY DEF PauseAfter, WrapperPause, PauseDue

\* A milestone reached with a pause to wait for keeps the pause, or arms a timer
\* that lasts as long, or there was no pause.
LEMMA SettleWaits ==
  ASSUME TypeOK, pending = {}, NEW m, NEW wp \in Nat, Settle(m, wp)
  PROVE  wrapped' = wp \/ \E t \in pending' \ pending : t.delay >= wp
<1>1. Speeds[speed] \in Nat
  BY SpeedsAssumption DEF TypeOK
<1>2. Delay(wp) >= wp
  BY <1>1 DEF Delay
<1>3. CASE ~xrun
  BY <1>3 DEF Settle
<1>4. CASE xrun /\ Delay(wp) # 0
  <2>1. pending' = {[id |-> FreshId, delay |-> Delay(wp)]}
    BY <1>4 DEF Settle, Arm
  <2> QED
    BY <1>2, <2>1
<1>5. CASE xrun /\ Delay(wp) = 0
  <2>1. wrapped' = 0
    BY <1>5 DEF Settle
  <2>2. wp = 0
    BY <1>2, <1>5
  <2> QED
    BY <2>1, <2>2
<1> QED
  BY <1>3, <1>4, <1>5

\* The last pause that the program asked for is left to wait for until a timer is
\* armed that lasts as long, whether the block was executed in run mode or by the
\* step button; no handler clears cpu.wrapped_pause.
THEOREM CpuPauses == Spec => PauseIsWaited
<1> DEFINE Executed == RunToMilestone \/ RunToEnd
           Due == IF Executed THEN PauseDue ELSE wrapped
           Waited == wrapped' = Due \/ \E t \in pending' \ pending : t.delay >= Due
<1>1. CoreInv /\ [Next]_vars => [Waited]_vars
  <2> SUFFICES ASSUME CoreInv, Next PROVE Waited
    OBVIOUS
  <2> USE DEF CoreInv
  <2>1. CASE Executed
    <3>1. Due = PauseAfter /\ PauseAfter \in Nat
      BY <2>1, PauseAfterIsDue, PauseType
    <3>2. CASE RunToEnd
      BY <3>1, <3>2 DEF RunToEnd
    <3>3. CASE RunToMilestone
      <4>1. pending = {}
        BY <3>3 DEF RunToMilestone, Continues, SingleTimer
      <4>2. PICK b : Settle(b, PauseAfter)
        BY <3>3 DEF RunToMilestone
      <4> QED
        BY <3>1, <4>1, <4>2, SettleWaits
    <3> QED
      BY <2>1, <3>2, <3>3
  <2>2. CASE ~Executed
    <3> SUFFICES wrapped' = wrapped \/ \E t \in pending' \ pending : t.delay >= wrapped
      BY <2>2
    <3>1. CASE RunQuietStep
      <4>1. pending = {} /\ wrapped \in Nat /\ Settle(milestone, wrapped)
        BY <3>1 DEF RunQuietStep, Continues, SingleTimer, TypeOK
      <4> QED
        BY <4>1, SettleWaits
    <3>2. CASE RunEnded \/ RunThrows \/ RunSpins
      BY <3>2 DEF RunEnded, RunThrows, RunSpins, vars, runVars
    <3>3. CASE CodeChanged \/ ResetClick \/ ShowCpu
      BY <3>3 DEF CodeChanged, ResetClick, ShowCpu, Reset, runVars
    <3>4. CASE \/ Edit \/ LoadUnreadable \/ OnChange \/ Play \/ Pause \/ Step \/ ChangeSpeed
               \/ HideCpu \/ ToggleMemory \/ TimerFires
      BY <3>4 DEF Edit, LoadUnreadable, OnChange, Play, Pause, Step, ChangeSpeed, HideCpu,
                  ToggleMemory, TimerFires, runVars
    <3> QED
      BY <2>2, <3>1, <3>2, <3>3, <3>4 DEF Next, User, Run
  <2> QED
    BY <2>1, <2>2
<1> QED
  BY <1>1, CpuCore, PTL DEF Spec, PauseIsWaited

\* The abstract processor has the same programs.
LEMMA SameSuccessors ==
  ASSUME NEW p, NEW at
  PROVE  Proc!Successors(p, at) = Successors(p, at)
BY DEF Proc!Successors, Successors, Proc!BlocksOf, BlocksOf

\* A reset loads a program or stops.
LEMMA ResetRefines ==
  ASSUME CoreInv, ~busy, NEW n \in BOOLEAN, Reset(n)
  PROVE  Proc!Load \/ Proc!Stop
<1>1. xrun' = FALSE /\ workspace \in Programs
  BY DEF Reset, CoreInv, TypeOK
<1>2. CASE workspace.status = "good"
  <2>1. busy' = TRUE /\ interp' = NewInterpreter(workspace)
    BY <1>2 DEF Reset
  <2>2. interp' \in Interpreter /\ interp' # Nil
    BY <1>1, <2>1, NilAssumption DEF NewInterpreter, Interpreter, Position, CoreInv, TypeOK
  <2>3. interp'.prog \in Programs /\ interp'.at = Start
    BY <1>1, <2>1 DEF NewInterpreter
  <2> QED
    BY <1>1, <2>1, <2>2, <2>3 DEF Proc!Load
<1>3. CASE workspace.status # "good"
  BY <1>1, <1>3 DEF Reset, Proc!Stop
<1> QED
  BY <1>2, <1>3

\* A step of cpu.run executes a statement, stops, or is not visible.
LEMMA RunRefines ==
  ASSUME CoreInv, Run
  PROVE  Proc!PNext \/ UNCHANGED Proc!pvars
<1>1. interp # Nil => interp \in Interpreter
  BY DEF CoreInv, TypeOK
<1>8. interp # Nil => Proc!Loaded
  BY <1>1, PositionsAssumption DEF Interpreter, Proc!Loaded
<1>2. CASE RunEnded
  BY <1>2 DEF RunEnded, Completed, Proc!Stop, Proc!PNext
<1>3. CASE RunQuietStep
  BY <1>3 DEF RunQuietStep, Settle, Continues, Proc!Stop, Proc!PNext, Proc!pvars
<1>4. CASE RunToMilestone
  <2>1. PICK b \in Successors(interp.prog, interp.at) \ {Done} :
          interp' = [interp EXCEPT !.at = b] /\ Settle(b, PauseAfter)
    BY <1>4 DEF RunToMilestone
  <2>2. interp # Nil /\ busy
    BY <1>4 DEF RunToMilestone, Continues
  <2>3. b \in Blocks
    BY <1>1, <2>1, <2>2, SuccessorsType DEF Interpreter
  <2>4. interp' \in Interpreter /\ interp' # Nil /\ interp'.prog = interp.prog /\ interp'.at = b
    BY <1>1, <2>1, <2>2, <2>3, NilAssumption DEF Interpreter, Position
  <2>5. xrun' = xrun /\ (~xrun => ~busy')
    BY <2>1 DEF Settle
  <2>6. Proc!Execute
    BY <1>8, <2>1, <2>2, <2>4, <2>5, SameSuccessors DEF Proc!Execute, CoreInv, TypeOK
  <2> QED
    BY <2>6 DEF Proc!PNext
<1>5. CASE RunToEnd
  <2>1. interp # Nil /\ busy /\ Done \in Successors(interp.prog, interp.at)
        /\ interp' = [interp EXCEPT !.at = Done] /\ UNCHANGED <<xrun, busy>>
    BY <1>5 DEF RunToEnd, Continues
  <2>2. interp' \in Interpreter /\ interp' # Nil /\ interp'.prog = interp.prog /\ interp'.at = Done
    BY <1>1, <2>1, NilAssumption DEF Interpreter, Position
  <2>3. Proc!Finish
    BY <1>8, <2>1, <2>2, SameSuccessors DEF Proc!Finish, CoreInv, TypeOK
  <2> QED
    BY <2>3 DEF Proc!PNext
<1>6. CASE RunThrows
  <2>1. interp # Nil /\ busy /\ interp.at \in Blocks
        /\ interp' = [interp EXCEPT !.at = Trapped] /\ UNCHANGED xrun /\ busy' = FALSE
    BY <1>6 DEF RunThrows, Continues, MonitorFails, Executes
  <2>2. interp' \in Interpreter /\ interp' # Nil /\ interp'.prog = interp.prog /\ interp'.at = Trapped
    BY <1>1, <2>1, NilAssumption DEF Interpreter, Position
  <2>3. Proc!Trap
    BY <1>8, <2>1, <2>2 DEF Proc!Trap, CoreInv, TypeOK
  <2> QED
    BY <2>3 DEF Proc!PNext
<1>7. CASE RunSpins
  BY <1>7 DEF RunSpins, vars, runVars, Proc!pvars
<1> QED
  BY <1>2, <1>3, <1>4, <1>5, <1>6, <1>7 DEF Run

\* A handler is a request, a load, a stop, or is not visible.
LEMMA HandlersRefine ==
  ASSUME CoreInv, User \/ OnChange \/ CodeChanged \/ TimerFires
  PROVE  Proc!PNext \/ UNCHANGED Proc!pvars
<1> USE DEF Proc!PNext, Proc!pvars, appVars, codeVars, winVars, runVars
<1>1. CASE Edit \/ LoadUnreadable \/ OnChange
  <2>1. UNCHANGED <<xrun, busy, interp>>
    BY <1>1 DEF Edit, LoadUnreadable, OnChange
  <2> QED
    BY <2>1
<1>2. CASE CodeChanged
  <2>1. CASE generated' # generated
    <3>1. ~busy /\ Reset(TRUE)
      BY <1>2, <2>1 DEF CodeChanged
    <3> QED
      BY <3>1, ResetRefines
  <2>2. CASE generated' = generated
    BY <1>2, <2>2 DEF CodeChanged
  <2> QED
    BY <2>1, <2>2
<1>3. CASE ResetClick
  <2>1. ~busy /\ Reset(named) /\ named \in BOOLEAN
    BY <1>3 DEF ResetClick, CoreInv, TypeOK
  <2> QED
    BY <2>1, ResetRefines
<1>4. CASE Play
  <2>1. ~xrun
    BY <1>4 DEF Play, CoreInv, ButtonsInv, TypeOK
  <2> QED
    BY <1>4, <2>1 DEF Play, Proc!RequestRun
<1>5. CASE Pause
  BY <1>5 DEF Pause, Proc!Stop
<1>6. CASE Step
  <2>1. ~xrun
    BY <1>6 DEF Step, CoreInv, ButtonsInv, TypeOK
  <2> QED
    BY <1>6, <2>1 DEF Step, Proc!RequestStep
<1>7. CASE ChangeSpeed
  BY <1>7 DEF ChangeSpeed
<1>8. CASE ShowCpu
  <2>1. ~busy /\ Reset(named) /\ named \in BOOLEAN
    BY <1>8 DEF ShowCpu, CoreInv, TypeOK
  <2> QED
    BY <2>1, ResetRefines
<1>9. CASE HideCpu
  BY <1>9 DEF HideCpu, Proc!Unload
<1>10. CASE ToggleMemory
  BY <1>10 DEF ToggleMemory
<1>11. CASE TimerFires
  <2>1. xrun /\ xrun' /\ interp' = interp
    BY <1>11 DEF TimerFires, CoreInv, SingleTimer
  <2> QED
    BY <2>1
<1> QED
  BY <1>1, <1>2, <1>3, <1>4, <1>5, <1>6, <1>7, <1>8, <1>9, <1>10, <1>11 DEF User

\* The driver implements the abstract processor: a stopped program does not
\* move, a step executes one statement at most, and only "play" makes it move
\* further, whatever timers are pending.
THEOREM CpuImplementsProcessor == Spec => ImplementsProcessor
<1>1. Init => Proc!PInit
  BY DEF Init, Proc!PInit
<1>2. CoreInv /\ [Next]_vars => [Proc!PNext]_(Proc!pvars)
  <2> SUFFICES ASSUME CoreInv, [Next]_vars PROVE Proc!PNext \/ UNCHANGED Proc!pvars
    OBVIOUS
  <2>1. CASE UNCHANGED vars
    BY <2>1 DEF vars, runVars, Proc!pvars
  <2> QED
    BY <2>1, RunRefines, HandlersRefine DEF Next
<1> QED
  BY <1>1, <1>2, CpuCore, PTL DEF Spec, ImplementsProcessor, Proc!PSpec
=============================================================================
