# uProg: models, checks and proofs

uProg is a web IDE in which a program for a microcontroller is assembled from
Blockly blocks, and executed step by step in the page by a JavaScript
interpreter. Beside the IDE, the repository holds a gateway from WebSocket to
serial ports, and the firmware and host scripts of a test module on a one-wire
bus. This directory holds TLA+ models of these parts, what TLC checks about them
and what TLAPS proves.

## 1. The system

### 1.1 Inventory

| Component | State it keeps | Operations | Interacts with | What makes it correct |
|---|---|---|---|---|
| Interpreter driver, `cpu/cpu.js` | `interpreter`, `milestone_id`, `x_run`, `timeoutId`, `speed`, `wrapped_pause`, its buttons | `reset`, `play`, `pause`, `run` (step button and timer), `oninput`, `onwheel`, `onDisplay`, the wrappers given to the interpreter | Blockly, the acorn interpreter, `memory`, `hw`, `App` | one chain of executions; a stopped program does not move; a step executes one statement; buttons, highlight and pauses match the execution |
| Regeneration, `app.js`, and memory window, `memory/memory.js` | `generatedCode`, `moveTimeoutId`, `memory.keys` | `onChange`, `codeChanged`, `memory.reset` | Blockly events, `cpu.reset` | the source window follows the blocks; what is monitored has an entry |
| Session and autosave, `app.js` | `sessionIsDirty`, the local storage | `timeout`, `saveSession`, `restoreSession`, `textToWorkspace` | every window | what is saved is restored; autosave goes on |
| Language and scripts, `app.js` | `App.script`, `App.language`, the workspace | `changeLanguage`, `loadScript`, `scriptLoaded`, `i18n`, `i18n2`, `i18n3`, `createWorkspace` | session, every window | the last language chosen wins; blocks survive a change of language |
| Windows, `window.js`, capture of the mouse in `app.js` | position, size, `captureTarget`, handlers of `onmousemove` | drag, resize, put on top | the mouse, the session | the bar stays visible; where a window ends up is saved |
| Hardware window, `hw/hw.js`, io field, `core/field_io.js` | `target`, classes of the pins, the panel | target selection, pin click, `write_io`, `read_io`, menu of the field | wrappers of the driver, session, language | the pins are those of the target, and keep their level |
| Drawing of a package, `hw/dil.js` | the rectangles drawn | `svgDilPackage` | hardware window | a click is that of one pin |
| WebSocket client, `ws/ws.js` | `App.ws`, one timer | open, close, timeout, message | gateway | one connection, retried when lost |
| Gateway, `ws/server/*.c` | one client, one frame buffer, one serial port and its receive buffer | handshake, frames, `SERIALS`, `SERIAL`, `CLOSE`, `>`, serial data | client, serial port | descriptors are not confused; nothing is left open; texts are in order |
| Extended counter, `hw/testmod/counter.sx` | hardware counter, `countx` | overflow interrupt, `get_count32`, `get_countx` | bus machine, main loop | no overflow is lost; readers never mix two counts |
| Module bus, `hw/testmod/bus_sm.c`, and its host, `main.py` | point of resumption, reply buffer; round, replies | one resumption per UART event; the enumeration | counter, UART | one speaker at a time; the modules are found |
| Main loop of the module, `hw/testmod/main.c` | flags, count of the blink, the LED | synchronization, blink | bus machine, counter | the LED comes on again |
| Serial link, `hw/testmod/js/link.js` | options of the lines, number of wires, receive queue, the fiber | reset, detection of the wires, `sync_5_1`, `tx`, `onData` | port, module | the module is out of reset; an echo is no answer; it ends |

The remaining parts hold no logic to model, or cannot be modelled: section 5.
`PROJECT.json` lists every part with its status.

### 1.2 How the parts interact

```
 browser page (one thread)                                  gateway (one thread)     module (AVR)
 user --blocks--> onChange --250 ms--> codeChanged --> cpu.reset -----+
 user --buttons, timer--> cpu.run: interpreter.step() --> __block__, __pause__,
                                                          __monitor__, io <--> hw pins <-- user's clicks
 every 1 s: App.timeout --> saveSession --> localStorage --> restoreSession (at the next opening)
 language --> loadScript --> i18n2 --> loadScript --> i18n3 --> new workspace
 ws.js callbacks <------------------ WebSocket ------------> main loop <-- serial port
                                        host script or link.js <---- one wire ----> bus_sm, main loop
                                                                      overflow interrupt --> countx
```

JavaScript runs one handler at a time. There is no parallelism in the page, but
every order of handlers is possible: a timer that expires while another handler
runs is served after it. The gateway is a loop that serves one client at a time,
between calls that wait. In a module, the interrupt preempts the loop anywhere.

### 1.3 What is hard

- `cpu.run` is at once the step button, the body of the timer and the end of
  `cpu.reset`; `x_run` alone tells them apart. `milestone_id` has three
  meanings. The pause of the program, the speed, the reset and the pause button
  compete for one timer.
- A backup writes six keys one after the other; the process may die, or the
  storage be full, between two of them. The session has to come back from
  whatever is left, without a marker of completeness.
- One variable holds the script being loaded and its callback, for a chain of
  two loads that the user can restart at any moment.
- A release of the mouse button outside the document is not seen; a backup may
  come in the middle of a drag.
- The server closes a socket when a send fails, and goes on with its number,
  which the system may give to something else.
- A TCP segment is not a frame.
- Modules find the limits of messages by a bit of the bytes they hear; a byte
  that is lost or misheard moves the limits.
- The overflow routine updates two bytes with interrupts enabled, under readers
  that do not mask them either.
- On one wire, everything that is sent comes back.

`PROJECT.json` lists the hazards at their lines, with the properties that would
catch them.

## 2. Modules

| Module | Content | Composes |
|---|---|---|
| `BlockProgram` | what a program is for the driver: blocks, kinds of statements, possible successors | |
| `Processor` | abstract specification: what the processor window promises about the program | `BlockProgram` |
| `Cpu`, `MCCpu`, `CpuProofs` | the driver, the regeneration, the memory window; instances; proofs | `BlockProgram`, `Processor` |
| `DocumentStore` | abstract specification: what the session promises about the document | |
| `Session`, `MCSession`, `SessionProofs` | page, storage, backups, languages; instances; proofs | `DocumentStore` |
| `Windows`, `MCWindows`, `WindowsProofs` | windows and the capture of the mouse; instance; proofs | |
| `PinBank` | abstract specification: what the hardware window promises to a program | |
| `Hardware`, `MCHardware`, `HardwareProofs` | target, drawing, pins, io field; instance; proofs | `PinBank` |
| `Dil` | the drawing of a package (proofs in `HardwareProofs`) | |
| `Gateway`, `GatewayProofs` | the server's loop and descriptors with the pages; proofs | |
| `Frame`, `Receive`, `Channel` | frames built; frames received; both as one connection (proofs in `SerialProofs`) | `Channel` extends the other two |
| `Counter`, `Blink`, `TestModuleProofs` | the extended counter; the main loop of a module; proofs of both | |
| `Bus`, `BusProofs` | the modules, the wire and the host; proofs | |
| `Link`, `SerialProofs` | the serial link with its port and module; proofs of it and of `Channel` | |

A module with a name in `MC` gives values to constants (and `MCHardware` joins the
drawing of the package to the window). An operator whose
comment begins with "Mutant" is a plausible mistake in the operator after it; no
specification uses it.

### 2.1 `Cpu` and `Processor`

| Variable | Code |
|---|---|
| `workspace` | the program that the blocks of `App.workspace` stand for |
| `queued`, `moveTimer` | Blockly has events to hand to `App.onChange`; `App.moveTimeoutId` is armed |
| `generated`, `raw` | `App.generatedCode` (`Nil` for `''`), with or without the `__block__` calls; the source window shows the text of a document that could not be read instead |
| `prefixed`, `named` | `Blockly.JavaScript.STATEMENT_PREFIX` is set; `variableDB_` exists |
| `keys` | the names that index `memory.keys` |
| `memOpen`, `cpuOpen` | the contents of the memory and processor windows are shown |
| `interp` | `cpu.interpreter`: program, position, whether `__monitor__` was installed |
| `milestone`, `xrun`, `timeoutId`, `speed`, `wrapped` | `cpu.milestone_id`, `x_run`, `timeoutId`, `speed`, `wrapped_pause` |
| `busy`, `pending` | `cpu.run` is on the stack; the timers of `cpu.run` that are armed (the browser's) |
| `buttons`, `highlight` | display, class and handler of the buttons; the last `highlightBlock` |

Every handler is an action that is enabled when no handler runs (`~busy`). The
ones that call `cpu.run` set `busy`; the loop is then cut into steps, one per
way an iteration may go: `RunQuietStep` (the milestone is not 0 already, and is
taken for one just announced), `RunToMilestone` (the statement is executed and
the next one announced), `RunToEnd`, `RunEnded`, `RunThrows` (the exception
leaves by the `finally` clause) and `RunSpins` (an empty loop). `Settle` is the
part after a milestone. `Reset` is `cpu.reset` with `memory.reset`; it is part
of `CodeChanged`, `ResetClick` and `ShowCpu`. A change of the blocks goes through
three actions, which anything may separate: `Edit` or `LoadUnreadable` changes
the workspace and queues Blockly's event, `OnChange` arms the timer,
`CodeChanged` generates. `LoadUnreadable` is the exception of
`App.textToWorkspace`: it writes the text in the source window and empties the
workspace.

A program is a finite control graph, whose conditions are not evaluated. Times
are microseconds, only compared: a pending timer may fire at any moment, and
the 250 ms of regeneration may be shorter or longer than any of them. Blockly's
generator, the acorn interpreter and `setTimeout` are external. An interpreter
that is stepped after an exception may resume at any block or end. The first
`step()` of a new interpreter, and the first one after a milestone kept at
speed 0, is taken to reach no call of `__block__`: the interpreter needs several
to enter the program and evaluate the call.

`Processor` has a mode (`stopped`, `stepping`, `running`), a program and a
position. A stopped program does not move; a step ends with the next statement;
`RequestRun` alone makes it go further. `Cpu` maps to it with the mode read off
`x_run` and the stack.

### 2.2 `Session` and `DocumentStore`

| Variable | Code |
|---|---|
| `document`, `entries` | the keys of `localStorage`: the document, and one per window |
| `up`, `workspace`, `view` | the page; the document in `App.workspace`; the windows as they show, with `cpu.speed` and `hw.target` |
| `queued` | Blockly has events to hand to `App.onChange` |
| `dragged` | the windows that the mouse has moved since their bar was last released |
| `dirty`, `armed`, `saving` | `App.sessionIsDirty`; the timer of `App.timeout`; what `saveSession` writes next |
| `language`, `scripts`, `script` | `App.language`; the script elements being loaded; the callback of `App.script` |
| `msgs`, `built`, `shown` | the translations in force; `App.language` and the translations when the workspace was made |

`Open` is `App.init`; `ScriptLoads` is `scriptLoaded` with the callback it runs
(`i18n2`, `i18n3` with `createWorkspace` and `RestoreSession`, or the exception
when there is none). `ChangeLanguage`, `Edit`, `Toggle` (the content of a window),
`Drag` and `Drop` (a motion of a window, which marks nothing, and the release
of its bar, which marks the session), `ChangeSpeed` and `SelectTarget` are the
user's; `OnChange` comes some time after an edit; `Timeout` starts a backup, `SaveDocument`,
`SaveWindow` and `Saved` are its writes. `RestoreSession` restores window by
window, up to one whose entry is missing and whose code does not accept it. The sizes of
windows are left to `Windows`: the code marks a resize when it begins only
(`window.js:209`), so that a clean session does not mean saved sizes.

Fault model, chosen by `Faults`: `kill` (the process dies in a backup), `quota`
(a write throws), `slow` (no workspace when the first backup comes), `hasty`
(another language while scripts load), `former` (a storage of another version:
an unreadable document, an unknown speed or target).

`DocumentStore` is a document at hand and a document kept: a page shows the one
kept last, changes it, keeps it, leaves.

### 2.3 `Windows`

`place`, `size` and `top` are the styles of the windows; `capture` is
`App.captureTarget`; `grip` is the `onmousemove` of each handle, with what its
closure remembers; `saved` is what the storage holds of places and sizes.
`Press`, `MouseMove` and `Release` dispatch the event as the page does: the
element under the pointer first, then the document, which calls the handler of
the captured element. `BarDown`, `ResizerDown` and `Up` are the handlers of
`window.js`. `ReleaseUnseen` is a release outside the document, `Layout` a
change of size of the page, `Save` a backup.

### 2.4 `Hardware` and `PinBank`

`target`, `index` and `classes` are `hw.target`, the selector's index and the
`on` and `off` classes of the pins drawn; `panel` and `drawing` the two styles of
display; `field`, `code`, `dead` and `read` the pin that a block names, the one
that the interpreted program names, whether it has thrown, and what it read.
`Restore`, `TargetSelected`, `ConfigBtn`, `PinClick`, `ChangeLanguage`,
`OpenMenu`, `WriteIo` and `ReadIo` are the handlers and the wrappers. `PinBank`
is a level per pin, set by anyone, all low after a change of target.

### 2.5 `Dil`

`svgDilPackage` adds pin after pin; `Area` and `Pad` are the rectangles of a pin,
from the same constants and rows as the code. `MCHardware` composes it with
`Hardware`: the handlers run on a drawing that is complete.

### 2.6 `Gateway`

`ws`, `state`, `timers` and `timerId` are the pages' (`App.ws`, its readyState,
the timers that the browser holds, `App.wsTimeoutId`); `syn`, `backlog`, `left`
and `inbox` the network's; `pc`, `table`, `clientId`, `sid` and `sbuflen` the
server's, where `table` is what the kernel makes of each descriptor, the least
free one being taken first. The page's callbacks are `WsConnect`, `OnWsClose`,
`OnWsOpen`, which sends `SERIALS`, and
`WsTimeout`; the server's steps run between two waits: `Accept`, `Header`,
`Receive` with `Process` (`onMessage`), `ClientLeaves`, `SelectFails`,
`SerialByte`, `SerialQuiet`. The reply to the header (`Answer`) travels to the
page as `answered`; the page may be closed, or the connection lost (`Lost`),
before it comes. A page takes any
connection that is not used (`Fresh`).

`WsConnect` begins a page's first connection when the page is loaded. This is an
assumption: `ws/ws.js` is not among the scripts of `index.html:197-246`, and
`App.init` does not call `App.wsConnect`, whose only caller is its own timer
(`ws.js:28`). The server serves one client until it leaves
(`wsserver.c:673`): a second page waits in the backlog for as long.

Fault model: any send may fail (`Reliable = FALSE`), the port is unplugged and
plugged (`Plug`), pages are loaded again in the middle of anything (`Reload`),
the server dies and starts (`Die`, `Start`).

### 2.7 `Frame`, `Receive`, `Channel`

`Frame` has the buffer with the two length fields and its cells, each holding
the rank of a character of the text: `VPrintf` prints, grows the header, moves
the payload and writes the length as the code does. `Receive` has the stream of
a client's frames, cut into segments by the network; `Outcomes` is what
`processBuffer` makes of a segment: ignored, refused, handled with the text sent
or with what the buffer held, or nothing (a header whose rest is missing is taken
for a text of length 0, or left). An end of the connection is in `Gateway`'s
`ClientLeaves`. `Channel` puts the two on one thread: a text
that is handled may be answered by a frame, and nothing is received while one is
built.

### 2.8 `Counter`

One action per instruction of `counter.sx` that accesses what the interrupt
routine and the reader share: `Load0` .. `Store1` and `Return` for the routine,
`ReadLow` .. `Ret` for the readers. A byte is a digit in base `B`. `tl`, `th`,
`served` and `seen` are auxiliary: the true count, the interrupts served during
an attempt, the count when the reader sampled it.

Timing assumptions, visible as guards: an overflow is served before the next one
(2048 cycles apart, for a routine of about 35), fewer than `B` interrupts occur
during one attempt (six instructions), and once the flag is set the reader
executes at most `Slack` = 1 instruction before the routine starts. With two,
the reader would return a count that is short of one overflow.

### 2.9 `Bus`

`pc`, `rx`, `tx` and `txc` are of each module: where `bus_sm` resumes, the byte
of the UART, the bytes of the reply that remain, the end of transmission.
`round`, `at`, `r` and `name` are the host's. A byte that is sent is heard by
all the others at once; each that is in `Faulty` may lose it or hear another,
`Faults` times in all. Bytes are real bytes, since the question is whether one
is taken for another. `misheard` is auxiliary: the host itself misheard.

### 2.10 `Blink` and `Link`

`Blink` has one action per part of the main loop (`BusEvent`, `Trigger`,
`Process`), which the overflow (`Tick`) may separate; `step` is where the loop
is; `done` counts iterations up to `Loops`, the least number between two
overflows; `off` is auxiliary: the overflows since the LED went off. `Link` has one
action per stretch of the fiber between two waits: `Main` .. `ResetSlept` for
`open` and `resetDevice`, `Drained`, `Flushed` and `Detected` for `drain`,
`flush` and `detectWires`, `EchoSlept` for the end of `tx`, `SyncSlept` for that
of an attempt of `sync_5_1`; `OnData` and `OnDisconnect` are the callbacks;
`Transmit` and `ModuleSends` are external: a port that hears what it sends or not,
a module that answers or not and may send `Noise` bytes of itself, bytes that take
any time to come. A flush (`port.flush`) clears the buffers of the operating
system only: `Unreached` is what it may leave, the bytes on their way to the
program and those still in the adapter. `late` is auxiliary: one that is no
answer was left. `port.set` is taken to succeed.

## 3. Runs

All runs are exhaustive.

| Run | Instance | States | Properties |
|---|---|---|---|
| `cpu` | programs: none, one that does not compile, and a loop with pauses of 3 ms and 500 us, an assignment that the monitor may refuse and an empty loop; speeds 0 and 2 ms; 3 timer identifiers | 710 172 | `SingleTimer`, `ButtonsMatchMode`, `HighlightIsNext`, `SourceIsCurrent`, `PlayingIsAlive`, `PauseIsWaited`, `ImplementsProcessor`, `Responsive`, `KeepsRunning` |
| `counter` | bytes of 3 values, slack 1 | 1 120 941 | `ReturnsSample`, `CountxIsExact`, `ReaderReturns` |
| `session_faults` | 2 documents, a window at 2 places, 1 speed, 1 target, 2 languages, 2 scripts at once, every fault | 2 196 530 | `CleanIsSaved`, `StoredInOrder`, `BuiltInLanguage` |
| `session` | 3 documents, a window at 2 places, 2 speeds, 2 targets, no fault | 230 887 | `ShownInLanguage`, `ImplementsStore`, `ChangesAreSaved` |
| `gateway` | 1 page, 3 connections, a backlog of 1, 3 descriptors, a receive buffer of 2 | 167 064 | `OneTimer`, `SidIsPort`, `NoConnectionLeak`, `LeavingFrees` |
| `gateway_pages` | 2 pages, 4 connections, a backlog of 1, 1 descriptor, no message but `SERIALS` | 124 108 | `AlwaysOpensAgain` |
| `bus` | 3 modules, 4 rounds, 3 bytes heard badly by anyone, 3 noises | 736 569 | `OneSpeaker`, `Enumerated`, `Ends` |
| `link` | both signals and a bad one, both wirings, a byte of noise | 662 496 | `ResetIsOver`, `OkIsAnswer`, `Ends` |
| `windows` | 1 window, 2 sizes of the page, a mouse at 2 places | 223 064 | `PlaceIsSaved`, `MovedIsVisible` |
| `hardware` | 3 keys for 2 targets, 2 pins, 2 languages; every even number of pins up to 40 drawn | 22 777 | `DrawingIsRight`, `ImplementsPins`, `PinsAreApart` |
| `channel` | 2 frames of 4 kinds, 3 kinds of network, a buffer of 40 with a header that grows at 8 and 10 bytes from the port | 86 092 | `TextInOrder`, `HandledInOrder`, `TextIsHandled` |
| `blink` | counts on 64 values, blinks of 5, 2 iterations per count | 56 371 | `OffIsShort`, `BlinkEnds` |

Why the bounds are enough:

- `cpu`: four blocks give one a predecessor and a successor that differ from
  it. Speed 0 is a case of its own; the other lies between the two pauses. Three
  identifiers leave a fresh one when two are known, one more than `SingleTimer`
  allows. One variable has a generated name that is not the typed one.
  The theorems are for any programs.
- `counter`: with three values a byte wraps in an attempt and after it; with two,
  the byte after next would be equal to the first copy.
- `session`: the six keys are all there, so every place to die is. A document
  that is kept, one at hand and the empty one differ with three; with faults, the
  empty one and another are enough to see which is stored. One window moves and
  changes what it shows; the others, which the actions treat like it, only have the
  speed and the target. Two scripts are the
  least number that overlap, and `BuiltInLanguage` is proved for any, as
  `CleanIsSaved` is for any speeds.
- `gateway`: three connections are the one served, the one waiting and the next
  one of a page that was reloaded; three descriptors let a port be reopened
  (each time a descriptor more, until there is none) beside a client. A second
  page, in `gateway_pages`, may be served in place of the first, wait behind it
  or be refused; four connections are one and the next one for each.
- `bus`: three modules, of which two may mishear the reply of the third. The
  noise includes the byte of the synchronization, a letter of a reply and a byte
  with its final bit. One byte heard badly costs a round at most, and there is
  one round more than faults.
- `link`: the number of attempts is the code's. `windows`: the windows share the
  mouse and the page only. The mouse leaves both pages on their far sides, and
  places are relative, so the others are reached by moves.
- `hardware`: two keys denote one target, as in `ATtinyX4.js`, whose package has 14
  pins; packages of other sizes are only drawn. The formulas are linear on both
  sides of the change of width at 28 pins, and proved for any number. `channel`: the
  sizes of the code (512, 126, 256) scaled so that a frame from the port gets the
  long header and may exceed the buffer; where it exceeds it, the behaviour of
  the C program is undefined and the model stops (`over`).
- `blink`: the counts wrap in every phase of a blink.

Deadlock is checked except in `bus`, `channel`, `blink` and `hardware`: the
enumeration ends, so do the frames that a client may send and the drawing of a
package that is no target's, and in `blink` the main loop waits for the
synchronization. Elsewhere the system can always take a step.

### 3.1 What the properties say

Driver. `SingleTimer`: never two chains of executions, none behind a pause or a
reset, and the armed timer is the one that can be cleared. `ButtonsMatchMode`:
whatever path led there. `HighlightIsNext`: at rest with the milestone consumed,
what is highlighted is what the next step executes. `SourceIsCurrent`: the
code generated last is that of the workspace, unless an event is queued or
regeneration is due. `PlayingIsAlive`: in run mode something
is scheduled, unless this very program threw. `PauseIsWaited`: the pause
that is due after a block, the one it asked for or the one left before, stays due
until a timer is armed that lasts as long, whether the block was run or stepped.
`Responsive`: `cpu.run` returns, except at speed 0 in run mode and in an empty
loop. `KeepsRunning`: a processor left in run mode goes on executing.

Session. `CleanIsSaved`: a session that is not marked dirty, and that no event is
about to mark, is in the storage: blocks, places but those of the windows being
moved, contents shown and speed. `StoredInOrder`: a storage that was cut never
has windows without a document, nor a window without those before it.
`BuiltInLanguage`: however loads overlap, the workspace that stays was built
after the last change of language. `ShownInLanguage`: without overlaps, one language.
`ImplementsStore`; `ChangesAreSaved`: a dirty session gets saved.

Windows and hardware. `PlaceIsSaved`: once no handle follows the mouse, a clean
session has the places where windows ended up, though a backup came in a drag.
`MovedIsVisible`: a move leaves a part of the bar in the page. `DrawingIsRight`:
the pins drawn are the target's, none is on and off, the drawing is hidden
exactly when the panel shows. `ImplementsPins`. `PinsAreApart`.

Gateway. `OneTimer`: a page never makes two connections. `SidIsPort`: the
descriptor of the port never denotes a client that took its number.
`NoConnectionLeak`: every path out of a client closes its connection.
`LeavingFrees`: a client that leaves is noticed though the port keeps sending.
`AlwaysOpensAgain`: a page is connected again after each loss, unless another page
stays connected for ever or comes back for ever. `TextInOrder`:
characters stay in their order when the header grows. `HandledInOrder`: what is
handled was sent, in order, once. `TextIsHandled`: a text that comes alone is
handled.

Test module. `ReturnsSample`: a reader returns a value that the counter had during
the call. `CountxIsExact`: no overflow is lost. `ReaderReturns`: retries end once
overflows do. `OneSpeaker`: no two modules, nor one and the host, speak at once.
`Enumerated`: unless the host misheard, what it stores is the module's name, and
with fewer faults than rounds the module is found. `Ends` (of the bus and of the
link): they end. `OffIsShort`: off for a blink at most, though counts wrap.
`BlinkEnds`: it comes on again. `ResetIsOver`: no attempt is made on a module in
reset. `OkIsAnswer`: without noise, `OK` is said of a module that answered, unless an
echo of an earlier byte escaped the flush of the attempt.

### 3.2 Fairness

- `Cpu`: weak on `Run` (a handler that has started goes on) and on `TimerFires`
  (a timer that is not cleared fires). None on the user nor on regeneration.
- `Session`: weak on the handlers that are due (`OnChange`, the loads, the
  timeout) and on the writes. A page is not bound to stay open.
- `Gateway`: weak on the server, on each page's `WsConnect`, `OnWsOpen` and
  `OnWsClose` and on refusals. Strong on the reply that each page gets when the
  server takes its connection, for each could otherwise fail for ever, which the
  server can do nothing about; it says nothing of a page whose connection is never
  taken because another one is served. Strong on a connection that finds room in
  the backlog, where the page asks again and again. `AlwaysOpensAgain` supposes
  that the server does not die for ever.
- `Channel`: weak on a frame being finished, strong on `Serve`: the loop looks at
  the client after each frame, but frames from the port keep disabling it.
- `Counter`: weak on the routine and on the reader; `Bus`: weak on the whole, whose
  parts wait for each other; `Link`: weak on the fiber and on the port; `Blink`:
  weak on the loop, which never waits, and on the counter.

### 3.3 What the code does not do

Premises of the properties, and comments of the definitions, name what one might
expect and the code does not do. A reader of the code should know:

| Where | What |
|---|---|
| `cpu.js:155` | a reset highlights nothing: null is taken for a milestone |
| `cpu.js:179` | a reset with no code, or code that does not compile, keeps the former interpreter |
| `cpu.js:223`, `:294` | an exception leaves run mode on with nothing scheduled, and the step after it may resume anywhere |
| `cpu.js:244` | a pause outlives a reset: the next program waits for it |
| `cpu.js:259` | at speed 0 the browser is held, the pause button with it; after a pause, the highlight is an older block |
| `app.js:125`-`130` | the first regeneration after the first reset sees a change, for only the prefix differs, and stops the program |
| `app.js:127` | an edit, a reset and the undo of the edit within 250 ms leave the interpreter of a program that is no longer in the workspace |
| `app.js:190` | the text of an unreadable document stays in the source window if the code generated next is that of before |
| `app.js:192` | a document that cannot be read is replaced by an empty one, which is then stored |
| `app.js:236` | a backup that throws (no workspace yet, storage full) is the last one |
| `app.js:304` | a page killed in its first backup leaves a storage that cannot be restored completely: the blocks come last, and are lost |
| `app.js:37` | two changes of language at once may leave messages of one and blocks of the other |
| `hw.js:207` | the first target of the selector removes the target; the choice of a target is not marked for saving; titles are in French until the next change of language; reading a pin that the target has not throws |
| `window.js:161` | a release on a bar while a resizer is captured leaves the resizer's handler; a window resized across a backup is not marked again, and its size is then saved with the next change of something else |
| `index.html:197`-`246` | `ws/ws.js` is not loaded: nothing calls `App.wsConnect` for the first time |
| `wsserver.c:673` | one client is served until it leaves: another page waits as long |
| `wsserver.c:132`-`137` | frames of 126 bytes or more announce a wrong length |
| `wsserver.c:114` | the test for room compares unsigned numbers: a frame may exceed its buffer |
| `wsserver.c:696` | a second frame in a segment is dropped, a frame cut in its text is handled with what the buffer held |
| `wsserver.c`, `onMessage` | `SERIAL <name>` with a space opens no port; reopening a port forgets the descriptor of the former one |
| `wsserver.c:112` | a text that leaves no room for its terminator loses its last character without an error; whether that can happen to a frame of the serial port depends on the sizes of the buffer alone (`SizeAssumption`), and 512 is not one where it does |
| `bus_sm.c:75` | a module of address 15 that did not get the byte 0 before it takes the byte 255 of the host's synchronization for a request to identify itself, and speaks over the host (`AddressAssumption`; the address of the code is 1) |
| `main.py:122` | a reply cut at its end is stored; the report of a mismatch raises |
| `main.c:96` | a blink that crosses the wrap of the counts ends early |
| `link.js:150` | `tx` empties the queue before it looks for its echo, and so reports a mismatch when the echo was fast; the report of a bad signal throws |
| `link.js:136` | a flush does not reach what the adapter still holds: a late echo may be taken for that of the attempt, and the attempt's own for an answer |
| `link.js:120` | an error of `port.set` is ignored |

## 4. Proofs

Proofs hold for all values of the constants that satisfy the named assumptions
of the modules. Invariants named in a run are seldom inductive: each proof
module states what has to be added. Type invariants are part of them, and are
proved rather than checked. Every invariant that a run checks is proved.

- `CpuProofs`, for every set of programs, every function of speeds that contains
  0 and every set of at least two timer identifiers. `CpuInv` adds what the
  buttons are while the window is closed (`ButtonsInv`) and that a milestone
  which is not consumed is the interpreter's position (`MilestoneInv`), because
  the quiet step highlights it. Timers and buttons (`CpuCore`) come first. The
  argument of the driver lies in `SingleTimer`: only a run consumes the timer,
  step and play are offered only without one, `ClearTimer` clears the only one.
  `CpuPlayingIsAlive` adds that `Settle` arms a timer unless the loop goes on.
  `CpuPauses`: what a block leaves due is stored, and a run that lowers it arms a
  timer, which is new and lasts as long; both may happen in one step.
  `CpuImplementsProcessor`: each step is one of `Processor`'s or a stutter.
- `TestModuleProofs`, of `Counter`, for every base of at least 2 and a slack of at
  most 1. `MemoryInv` says where the routine is in the count of an overflow, `LowInv`
  that `countx+0` was incremented less than `B` times since its first copy, so
  that an equal second copy means no increment, `SampleInv` that the sample was
  good or the second copy will differ. Of `Blink` (`BlinkIsShort`), for any width
  of the counts of more than two blinks and any number of iterations between two
  overflows, one at least: the program keeps only the count where the LED comes
  on again. `OffInv` recovers from it the one where it went off (`Start`), says
  that counts wrapped since only if the sum did, and that an iteration that ended
  since the last overflow has not found the sum passed; the bound is then that
  of the last iteration.
- `SessionProofs`, for any documents, shapes, speeds, targets and languages, any
  number of scripts at once and any set of faults. `SessionInv` adds that what a
  backup has written so far is what the page shows (`WrittenSoFar`), without
  which its last step could not clear the mark, and excepts the windows that are
  being moved, since no mark follows their moves; that a page without a workspace
  is dirty; that a closed page holds nothing; that a callback waits for a script
  and the last one builds in `App.language` (`CallbackWaits`). With
  `Faults = {}`, `FaultlessInv` adds that a storage is whole between backups and
  that the script being loaded is the one whose callback waits; from it follow
  `OneLanguage` and the refinement `SessionIsStore`, where the restoration of a
  whole storage is what shows the document kept.
- `GatewayProofs`, for any number of pages, connections and descriptors.
  `TableOK` says that the client's descriptor denotes its connection or, after a
  failed send, nothing, and that of the port the port: the least free
  descriptor is then neither, which is why no path confuses them.
- `WindowsProofs`, for any windows, sizes of the page and mouse. The arithmetic
  of the clamps is one lemma (`ClampShows`); the invariant is that a captured
  element has its handler. `PlacesAreSaved` needs `PlaceIsSaved` window by window
  (`BackupInv`): a release that is not seen leaves one window following the mouse
  while another is saved.
- `HardwareProofs`, for any targets and pins: `DrawingIsRight` with the types is
  inductive; `DrawingIsPinBank` maps the classes to levels. Of `Dil`, for any even
  number of pins: the rectangles do not meet (`PinsApart`), are in the view box (`PinsSeen`) and their numbers turn around
  the package (`PinsTurn`), by the arithmetic of rows and sides.
- `SerialProofs`, of `Channel`, for any number of frames and any sizes of the
  buffers that satisfy `SizeAssumption`. `ReceiveInv` numbers the cells of the
  stream (`StreamInv`): without cuts its length stays a multiple of three, so
  that a segment begins a frame and what was handled lies before it
  (`WholeInv`). `FrameInv` has two forms of a frame: with the short header its
  text is known cell by cell (`Flat`); with the long one (`Long`) nothing is left
  after the end it announces, the ranks are in order, and its length is known
  modulo 6. That last part is what keeps `vsnprintf` from losing a character
  at the end of the buffer, and needs `SizeAssumption`.
- `SerialProofs`, of `Link`, for any signals, either wiring and any number of bytes
  of noise. `StageInv` says which options are still to be cleared at each stage,
  `WiresInv` that the wires are told apart once and before the first attempt,
  `EchoInv` that, until the module answers and if nothing else escaped the flush of
  the attempt, the queue, the port and the wire hold at most the one byte sent
  since that flush.
- `BusProofs`, for any modules, rounds, counts and faults. `BusInv`: what the host
  still has to send is an end of its three bytes; a byte that a module has not
  read is no command to it, unless it is the one asked for and the host is
  silent; a module that speaks has the end of its identification, and between
  rounds all is quiet. No byte of a reply is a command, by the lemmas on the
  bytes (`Reversed`, `IdBytes`), which gives `NoCollision`. It supposes that 15 is
  not an address (`AddressAssumption`) and that noise is no command
  (`NoiseAssumption`). `EnumInv` adds, for a host that hears well, that what it
  has read is what the module has sent of its reply (`Follows`), and that a round
  either goes well so far (`OnTrack`) or has had a fault (`Costs`). With fewer
  faults than rounds, as the theorem supposes, the module is found
  (`AskedIsFound`).

Model-checked only: the liveness properties (`Responsive`, `KeepsRunning`,
`ReaderReturns`, `ChangesAreSaved`, `LeavingFrees`, `AlwaysOpensAgain`, `Ends`,
`TextIsHandled`, `BlinkEnds`), since fairness needs ENABLED, which the prover does
not handle.

## 5. Not modelled, and what could come next

| Part | Why |
|---|---|
| SHA-1 and base64 of the gateway, fields of the HTTP header | pure computation and parsing, without state that anything else depends on |
| Control of the serial lines (`X`, `R`, `S`), Windows version of the server | calls of the system, without effect on the state modelled |
| Upload and download of files in `app.js` | wording of names, and a dialog of the browser; `FileSaver.js` is vendored |
| `blocks/procedure.js`, expressions of the other generators | text of the generated code; its control flow is `BlockProgram`'s |
| `zdebugger.js` | replaced by `cpu/cpu.js`; `index.html` does not load it |
| Log, console, source window, top bar, texts of `msg/`, style of the drawings | display only |
| Polling of `main.py` after the enumeration | it follows `sys.exit` and never runs; `main-0.py` is an older version |
| Software UART | macros around a library that is not in the repository |
| `tests/`, `ws/servers/` | prototypes and older gateways |

Next in line: step properties of the gateway and of the windows (what a handler
may never change), with their proofs; overlapping reads of uploaded files.
