------------------------------- MODULE Link --------------------------------
(***************************************************************************)
(* The serial link of the test module in JavaScript (hw/testmod/js/        *)
(* link.js): one fiber that gives way at each operation of the port and at *)
(* each sleep, while onData queues what comes.  The wire, the latency of   *)
(* the port and the module at its end are external.                        *)
(***************************************************************************)
EXTENDS Integers, Sequences

CONSTANTS
  Signals,    \* values of the option --reset-signal
  OneWire,    \* the port may be wired so that it hears what it sends
  Noise       \* bytes that the module sends of itself, at most

Attempts == 4

ASSUME LinkAssumption ==
  /\ Signals \subseteq STRING /\ OneWire \subseteq BOOLEAN /\ Noise \in Nat

\* Where the fiber gives way, to be resumed by a callback of the port or a timer.
Awaits == { "listing", "choosing", "opening", "resetOn", "resetHeld", "resetOff", "txdLow",
            "breakOff", "detectDrain", "detectFlush", "detectSleep", "syncDrain", "syncFlush",
            "txDrain", "txSleep", "syncSleep" }
Ended == {"listed", "thrown", "exited"}

VARIABLES
  signal, keepLow, port,   \* options of the command line
  pc,                      \* where the fiber is
  options,                 \* link.options
  lines,                   \* the lines of the port
  wires,                   \* link.wires
  rxq,                     \* link.rxq
  attempt,                 \* i of sync_5_1
  mismatch,                \* the last tx reported an echo mismatch
  report,                  \* what sync_5_1 has logged
  looped,                  \* the port hears what it sends
  out, in,                 \* bytes being sent and received by the port
  answered,                \* the module answered since the last flush, or its answer was not flushed
  late,                    \* a byte that is no answer was not flushed
  noise                    \* bytes the module has sent of itself

arguments == <<signal, keepLow, port>>
wiring == <<looped, noise>>
history == <<answered, late>>
vars == <<arguments, pc, options, lines, wires, rxq, attempt, mismatch, report, out, in, history,
          wiring>>

Off == [brk |-> FALSE, dtr |-> FALSE, rts |-> FALSE]

Init ==
  /\ signal \in Signals /\ keepLow \in BOOLEAN /\ port \in {"list", "given", "none"}
  /\ pc = "start" /\ options = Off /\ lines = Off /\ wires = 0 /\ rxq = <<>> /\ attempt = 0
  /\ mismatch = FALSE /\ report = "none" /\ looped \in OneWire
  /\ out = <<>> /\ in = <<>> /\ answered = FALSE /\ late = FALSE /\ noise = 0

-----------------------------------------------------------------------------

\* main, until it gives way.  A bad signal is reported with link.args, which
\* is not set yet.
Main ==
  /\ pc = "start"
  /\ pc' = IF signal \notin {"DTR", "RTS"} THEN "thrown"
           ELSE CASE port = "list" -> "listing" [] port = "none" -> "choosing" [] OTHER -> "opening"
  /\ UNCHANGED <<arguments, options, lines, wires, rxq, attempt, mismatch, report, out, in,
                 history, wiring>>

\* The ports are listed: main ends, or open goes on with the last one.
Listed ==
  /\ pc \in {"listing", "choosing"}
  /\ pc' = IF pc = "listing" THEN "listed" ELSE "opening"
  /\ UNCHANGED <<arguments, options, lines, wires, rxq, attempt, mismatch, report, out, in,
                 history, wiring>>

\* The port is open; resetDevice asks for the signal.
Opened ==
  /\ pc = "opening" /\ pc' = "resetOn"
  /\ options' = [brk |-> keepLow, dtr |-> signal = "DTR", rts |-> signal # "DTR"]
  /\ UNCHANGED <<arguments, lines, wires, rxq, attempt, mismatch, report, out, in, history,
          wiring>>

\* The lines are set.
LinesSet ==
  /\ pc \in {"resetOn", "resetOff", "breakOff"}
  /\ lines' = options
  /\ pc' = CASE pc = "resetOn" -> "resetHeld"
             [] pc = "resetOff" /\ keepLow -> "txdLow"
             [] OTHER -> "detectDrain"
  /\ UNCHANGED <<arguments, options, wires, rxq, attempt, mismatch, report, out, in, history,
          wiring>>

\* Mutant: only DTR is released.
ResetSleptDtr ==
  /\ \/ pc = "resetHeld" /\ pc' = "resetOff" /\ options' = [options EXCEPT !.dtr = FALSE]
     \/ pc = "txdLow" /\ pc' = "breakOff" /\ options' = [options EXCEPT !.brk = FALSE]
  /\ UNCHANGED <<arguments, lines, wires, rxq, attempt, mismatch, report, out, in, history,
          wiring>>

\* The signal was held; then TXD was held low.
ResetSlept ==
  /\ \/ /\ pc = "resetHeld" /\ pc' = "resetOff"
        /\ options' = IF signal = "DTR" THEN [options EXCEPT !.dtr = FALSE]
                      ELSE [options EXCEPT !.rts = FALSE]
     \/ pc = "txdLow" /\ pc' = "breakOff" /\ options' = [options EXCEPT !.brk = FALSE]
  /\ UNCHANGED <<arguments, lines, wires, rxq, attempt, mismatch, report, out, in, history,
          wiring>>

-----------------------------------------------------------------------------

\* All is sent; what was received is forgotten.
Drained ==
  /\ pc \in {"detectDrain", "syncDrain", "txDrain"} /\ out = <<>>
  /\ rxq' = <<>>
  /\ pc' = CASE pc = "detectDrain" -> "detectFlush" [] pc = "syncDrain" -> "syncFlush"
             [] OTHER -> "txSleep"
  /\ UNCHANGED <<arguments, options, lines, wires, attempt, mismatch, report, out, in, history,
          wiring>>

\* What is left on the way to onData: the buffers of the operating system are
\* cleared, not what was read from them before, nor what the adapter still holds.
Unreached(s) ==
  UNION {{SubSeq(s, 1, i) \o SubSeq(s, j, Len(s)) : j \in (i + 1)..(Len(s) + 1)} : i \in 0..Len(s)}

Holds(s, B) == \E k \in DOMAIN s : s[k] \in B

\* The port is flushed; then a byte is sent.
Flushed ==
  /\ pc \in {"detectFlush", "syncFlush"}
  /\ rxq' = <<>> /\ in' \in Unreached(in)
  /\ answered' = Holds(in', {"m"}) /\ late' = Holds(in', {"?", "A", "n"})
  /\ IF pc = "detectFlush" /\ wires = 0
     THEN out' = <<"?">> /\ pc' = "detectSleep"
     ELSE out' = <<"A">> /\ pc' = IF wires = 1 THEN "txDrain" ELSE "syncSleep"
  /\ UNCHANGED <<arguments, options, lines, wires, attempt, mismatch, report, wiring>>

\* detectWires is done; sync_5_1 begins.
Detected ==
  /\ pc = "detectSleep" /\ pc' = "syncDrain"
  /\ wires' = IF rxq # <<>> /\ rxq[1] = "?" THEN 1 ELSE 2
  /\ attempt' = 1
  /\ UNCHANGED <<arguments, options, lines, rxq, mismatch, report, out, in, history, wiring>>

\* Mutant: the echo is left in the queue.
EchoSleptKeeps ==
  /\ pc = "txSleep" /\ pc' = "syncSleep"
  /\ mismatch' = ~(rxq # <<>> /\ rxq[1] = "A")
  /\ UNCHANGED <<arguments, options, lines, wires, rxq, attempt, report, out, in, history, wiring>>

\* tx looks for the echo of its byte and takes it out of the queue; sync_5_1
\* does not look at what tx returns.
EchoSlept ==
  /\ pc = "txSleep" /\ pc' = "syncSleep"
  /\ mismatch' = ~(rxq # <<>> /\ rxq[1] = "A")
  /\ rxq' = IF mismatch' THEN rxq ELSE Tail(rxq)
  /\ UNCHANGED <<arguments, options, lines, wires, attempt, report, out, in, history, wiring>>

\* Mutant: the number of attempts is not counted.
SyncSleptForEver ==
  /\ pc = "syncSleep"
  /\ \/ rxq # <<>> /\ report' = "OK" /\ pc' = "exited" /\ UNCHANGED attempt
     \/ rxq = <<>> /\ pc' = "syncDrain" /\ UNCHANGED <<attempt, report>>
  /\ UNCHANGED <<arguments, options, lines, wires, rxq, mismatch, out, in, history, wiring>>

\* An attempt is over.
SyncSlept ==
  /\ pc = "syncSleep"
  /\ \/ rxq # <<>> /\ report' = "OK" /\ pc' = "exited" /\ UNCHANGED attempt
     \/ /\ rxq = <<>> /\ attempt < Attempts
        /\ attempt' = attempt + 1 /\ pc' = "syncDrain" /\ UNCHANGED report
     \/ /\ rxq = <<>> /\ attempt = Attempts
        /\ report' = "failed" /\ pc' = "exited" /\ UNCHANGED attempt
  /\ UNCHANGED <<arguments, options, lines, wires, rxq, mismatch, out, in, history, wiring>>

-----------------------------------------------------------------------------

PortOpen == pc \in Awaits \ {"listing", "choosing", "opening"}

\* onData.
OnData ==
  /\ PortOpen /\ in # <<>>
  /\ in' = Tail(in) /\ rxq' = Append(rxq, Head(in))
  /\ UNCHANGED <<arguments, pc, options, lines, wires, attempt, mismatch, report, out, history, wiring>>

\* onDisconnect.
OnDisconnect ==
  /\ PortOpen /\ pc' = "exited"
  /\ UNCHANGED <<arguments, options, lines, wires, rxq, attempt, mismatch, report, out, in,
                 history, wiring>>

\* A byte leaves the port, which may hear it; the module may answer to an "A".
Transmit ==
  /\ PortOpen /\ out # <<>> /\ out' = Tail(out)
  /\ LET echo == IF looped THEN <<Head(out)>> ELSE <<>>
     IN \/ in' = in \o echo /\ UNCHANGED answered
        \/ Head(out) = "A" /\ lines = Off /\ in' = in \o echo \o <<"m">> /\ answered' = TRUE
  /\ UNCHANGED <<arguments, pc, options, lines, wires, rxq, attempt, mismatch, report, late, wiring>>

\* The module sends a byte of itself.
ModuleSends ==
  /\ PortOpen /\ noise < Noise /\ noise' = noise + 1 /\ in' = Append(in, "n")
  /\ UNCHANGED <<arguments, pc, options, lines, wires, rxq, attempt, mismatch, report, out,
                 history, looped>>

Fiber ==
  \/ Main \/ Listed \/ Opened \/ LinesSet \/ ResetSlept
  \/ Drained \/ Flushed \/ Detected \/ EchoSlept \/ SyncSlept

Finished == pc \in Ended /\ UNCHANGED vars

Next == Fiber \/ OnData \/ OnDisconnect \/ Transmit \/ ModuleSends \/ Finished

\* Callbacks and timers come, and the port sends.
FairSpec == Init /\ [][Next]_vars /\ WF_vars(Fiber) /\ WF_vars(Transmit)

-----------------------------------------------------------------------------

\* With the types of the variables: the module is not held in reset, nor TXD
\* low, when its answer is waited for, whatever signal resets it.
ResetIsOver ==
  /\ pc \in {"start"} \cup Awaits \cup Ended
  /\ options \in [{"brk", "dtr", "rts"} -> BOOLEAN] /\ lines \in [{"brk", "dtr", "rts"} -> BOOLEAN]
  /\ wires \in 0..2 /\ attempt \in 0..Attempts /\ mismatch \in BOOLEAN
  /\ report \in {"none", "OK", "failed"} /\ Len(out) <= 1 /\ noise \in 0..Noise
  /\ attempt > 0 => lines = Off /\ options = Off

\* The program ends, whatever the module does.
Ends == <>(pc \in Ended)

\* The echo of what an attempt sends is not taken for an answer: if the module
\* sends nothing of itself, the wires are told apart, and on the last attempt tx
\* reports no mismatch and no echo of an earlier byte has escaped the flush, "OK"
\* is said of a module that answered.  An echo that escapes is taken for that of
\* the attempt, and the attempt's own then for an answer.
OkIsAnswer ==
  report = "OK" /\ noise = 0 /\ (wires = 1) = looped /\ ~mismatch /\ ~late => answered
=============================================================================
