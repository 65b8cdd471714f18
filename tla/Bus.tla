-------------------------------- MODULE Bus --------------------------------
(***************************************************************************)
(* The bus of the test modules: the state machine of each module           *)
(* (hw/testmod/bus_sm.c, main.c) and the host that enumerates them         *)
(* (hw/testmod/main.py).  A byte that is transmitted is heard by all the   *)
(* others at once; each of them may lose it or hear another byte.          *)
(***************************************************************************)
EXTENDS Integers, Sequences, FiniteSets

CONSTANTS
  Modules,  \* addresses of the modules of the bus
  Asked,    \* address that the host asks for: range(1,2)
  Rounds,   \* rounds of the enumeration: range(4)
  Counts,   \* values of the counter
  Faulty,   \* who may hear badly: modules, or the host
  Faults,   \* bytes that are heard badly at most
  Noise     \* bytes that may be heard instead

\* The host as a listener; addresses have four bits.
Ear == 16

ASSUME BusAssumption ==
  /\ Modules \subseteq 0..15 /\ Asked \in 0..15 /\ Rounds \in Nat \ {0}
  /\ Counts \subseteq 0..255 /\ Faulty \subseteq Modules \cup {Ear}
  /\ Faults \in Nat /\ Noise \subseteq 0..255

VARIABLES
  pc,     \* of each module: "sync", "head", "skip" or "send"
  rx,     \* byte received and not read, as a sequence of one byte at most
  tx,     \* bytes of buf that remain to send: txptr and txcnt
  txc,    \* the first of them is sent
  round,
  at,     \* where the host is
  out,    \* bytes that it is sending
  input,  \* bytes that it has received and not read
  r,      \* reply being read
  name,   \* modules[Asked], or <<>>
  faults,   \* bytes heard badly
  misheard  \* auxiliary: one of them by the host

module == <<pc, rx, tx, txc>>
host == <<round, at, r, name>>
errors == <<faults, misheard>>
vars == <<module, host, out, input, errors>>

-----------------------------------------------------------------------------
(* Bytes of the protocol.                                                  *)

FIN == 128
CMD_ID == 112
CMD_VAL == 96
Bit(x, w) == (x \div w) % 2   \* of weight w
R4(x) == 8 * Bit(x, 1) + 4 * Bit(x, 2) + 2 * Bit(x, 4) + Bit(x, 8)
IsFinal(b) == b >= FIN
Addr(b) == R4(b % 16)
Cmd(b) == ((b \div 16) % 8) * 16
Command(c, a) == FIN + c + R4(a)

\* The module 15 would take the second byte of the synchronization sequence,
\* 255, for a request to identify itself; the module of the code has address 1.
ASSUME AddressAssumption == 15 \notin Modules

\* What is heard instead of a byte may begin or end a message, but it is not a
\* command to one of the modules.
ASSUME NoiseAssumption ==
  \A m \in Modules : Command(CMD_ID, m) \notin Noise /\ Command(CMD_VAL, m) \notin Noise

\* Mutant: the last letter of the identification makes a command.
IdLetter(a) == <<R4(a) + CMD_ID, 84, 56, 53, 77, 48, FIN + 116>>

Id(a) == <<R4(a) + CMD_ID, 84, 56, 53, 77, 48, FIN + 48>>
Name == <<84, 56, 53, 77, 48, 48>>

\* The five groups of 7 bits of the 32-bit counter, whose lowest is given.
Val(a, b0) == <<R4(a) + CMD_VAL, b0 % 128, b0 \div 128, 0, 0, FIN>>

-----------------------------------------------------------------------------
Init ==
  /\ pc = [m \in Modules |-> "sync"] /\ rx = [m \in Modules |-> <<>>]
  /\ tx = [m \in Modules |-> <<>>] /\ txc = [m \in Modules |-> FALSE]
  /\ round = 0 /\ at = "round" /\ out = <<>> /\ input = <<>>
  /\ r = <<>> /\ name = <<>> /\ faults = 0 /\ misheard = FALSE

(* The bus.                                                                *)

Hearings == {<<>>} \cup {<<n>> : n \in Noise}

\* Byte b is heard by all of ls; some hear it badly.
Heard(b, ls) ==
  \E bad \in SUBSET (ls \cap Faulty) :
    /\ faults' = faults + Cardinality(bad) /\ faults' <= Faults
    /\ misheard' = (misheard \/ Ear \in bad)
    /\ \E h \in [bad -> Hearings] :
         LET Got(l) == IF l \in bad THEN h[l] ELSE <<b>>
         IN /\ rx' = [m \in Modules |-> IF m \in ls THEN Got(m) ELSE rx[m]]
            /\ input' = IF Ear \in ls THEN input \o Got(Ear) ELSE input

Speaks(m) == pc[m] = "send"
Listeners == {m \in Modules : ~Speaks(m)}

\* The main loop of a module reads a byte before the next one is received.
AllRead == \A m \in Modules : rx[m] = <<>>

HostSends ==
  /\ out # <<>> /\ AllRead /\ Heard(Head(out), Listeners) /\ out' = Tail(out)
  /\ UNCHANGED <<pc, tx, txc, host>>

ModuleSends(m) ==
  /\ Speaks(m) /\ ~txc[m] /\ AllRead
  /\ Heard(Head(tx[m]), Listeners \cup {Ear})
  /\ txc' = [txc EXCEPT ![m] = TRUE]
  /\ UNCHANGED <<pc, tx, host, out>>

-----------------------------------------------------------------------------
(* A module: main waits for the synchronization, then each event of the    *)
(* UART resumes bus_sm where it yielded.                                   *)

Read(m) == rx[m] # <<>> /\ rx' = [rx EXCEPT ![m] = <<>>]
Byte(m) == Head(rx[m])

\* The UART is synchronized by nine low bits and a high one, a zero, which it
\* may also give to the machine.
Sync(m) ==
  /\ pc[m] = "sync" /\ Read(m)
  /\ IF Byte(m) = 0 THEN \E s \in {"head", "skip"} : pc' = [pc EXCEPT ![m] = s]
     ELSE UNCHANGED pc
  /\ UNCHANGED <<tx, txc, host, out, input, errors>>

\* skip: until the end of the message.
AfterSkip(b) == IF IsFinal(b) THEN "head" ELSE "skip"

\* Mutant: the message is skipped from the byte after.
FirstByteSkips(m) ==
  /\ pc[m] = "head" /\ Read(m)
  /\ IF Byte(m) = Command(CMD_ID, m)
     THEN pc' = [pc EXCEPT ![m] = "send"] /\ tx' = [tx EXCEPT ![m] = Id(m)]
     ELSE IF Byte(m) = Command(CMD_VAL, m)
     THEN /\ pc' = [pc EXCEPT ![m] = "send"]
          /\ \E n \in Counts : tx' = [tx EXCEPT ![m] = Val(m, n)]
     ELSE pc' = [pc EXCEPT ![m] = "skip"] /\ UNCHANGED tx
  /\ UNCHANGED <<txc, host, out, input, errors>>

\* The first byte of a message: a command to this module, or to skip.
FirstByte(m) ==
  /\ pc[m] = "head" /\ Read(m)
  /\ IF Byte(m) = Command(CMD_ID, m)
     THEN pc' = [pc EXCEPT ![m] = "send"] /\ tx' = [tx EXCEPT ![m] = Id(m)]
     ELSE IF Byte(m) = Command(CMD_VAL, m)
     THEN /\ pc' = [pc EXCEPT ![m] = "send"]
          /\ \E n \in Counts : tx' = [tx EXCEPT ![m] = Val(m, n)]
     ELSE pc' = [pc EXCEPT ![m] = AfterSkip(Byte(m))] /\ UNCHANGED tx
  /\ UNCHANGED <<txc, host, out, input, errors>>

SkippedByte(m) ==
  /\ pc[m] = "skip" /\ Read(m)
  /\ pc' = [pc EXCEPT ![m] = AfterSkip(Byte(m))]
  /\ UNCHANGED <<tx, txc, host, out, input, errors>>

\* A byte is sent: the next one, or hw_clear and the end of the reply.
SentByte(m) ==
  /\ Speaks(m) /\ txc[m]
  /\ txc' = [txc EXCEPT ![m] = FALSE] /\ tx' = [tx EXCEPT ![m] = Tail(@)]
  /\ IF Len(tx[m]) = 1
     THEN pc' = [pc EXCEPT ![m] = "head"] /\ rx' = [rx EXCEPT ![m] = <<>>]
     ELSE UNCHANGED <<pc, rx>>
  /\ UNCHANGED <<host, out, input, errors>>

Module(m) ==
  \/ Sync(m) \/ FirstByte(m) \/ SkippedByte(m) \/ SentByte(m) \/ ModuleSends(m)

-----------------------------------------------------------------------------
(* The host.                                                               *)

Quiet == out = <<>> /\ AllRead /\ \A m \in Modules : ~Speaks(m)

\* A round: the synchronization, then the command unless the module is known.
Round ==
  /\ at = "round"
  /\ IF round = Rounds
     THEN at' = "done" /\ UNCHANGED <<round, out>>
     ELSE /\ round' = round + 1
          /\ out' = IF name = <<>> THEN <<0, 255, Command(CMD_ID, Asked)>>
                    ELSE <<0, 255>>
          /\ at' = IF name = <<>> THEN "first" ELSE "sleep"
  /\ UNCHANGED <<module, input, r, name, errors>>

\* The reports of a mismatch: that of the address raises an exception, since
\* its format takes two numbers and gets one.  A reply of one byte raises one
\* too: r[-1] of an empty string.
AfterFirst(c) ==
  IF Addr(c) # Asked THEN "died"
  ELSE IF Cmd(c) # CMD_ID THEN "sleep"
  ELSE IF IsFinal(c) THEN "died"
  ELSE "rest"

FirstReply ==
  /\ at = "first" /\ out = <<>> /\ input # <<>>
  /\ input' = Tail(input) /\ at' = AfterFirst(Head(input)) /\ r' = <<>>
  /\ UNCHANGED <<module, round, name, out, errors>>

\* The loop ends on a final byte or a timeout; what was read is the name.
Stored(reply) == [k \in DOMAIN reply |-> IF k = Len(reply) THEN reply[k] % 128
                                         ELSE reply[k]]

RestReply ==
  /\ at = "rest" /\ input # <<>> /\ input' = Tail(input)
  /\ r' = Append(r, Head(input))
  /\ IF IsFinal(Head(input)) THEN name' = Stored(r') /\ at' = "sleep"
     ELSE UNCHANGED <<name, at>>
  /\ UNCHANGED <<module, round, out, errors>>

\* Mutant: the loop waits for a final byte.
TimeoutWaits ==
  /\ Quiet /\ input = <<>>
  /\ at = "first" /\ at' = "sleep" /\ UNCHANGED name
  /\ UNCHANGED <<module, round, r, out, input, errors>>

\* rx returns nothing: no byte comes for ten units of time.
Timeout ==
  /\ Quiet /\ input = <<>>
  /\ \/ at = "first" /\ at' = "sleep" /\ UNCHANGED name
     \/ at = "rest" /\ r # <<>> /\ name' = Stored(r) /\ at' = "sleep"
     \/ at = "rest" /\ r = <<>> /\ at' = "died" /\ UNCHANGED name
  /\ UNCHANGED <<module, round, r, out, input, errors>>

\* sleep lets a reply end.
Sleep ==
  /\ at = "sleep" /\ Quiet /\ at' = "round"
  /\ UNCHANGED <<module, round, r, name, out, input, errors>>

Host == Round \/ FirstReply \/ RestReply \/ Timeout \/ Sleep \/ HostSends

Next == Host \/ \E m \in Modules : Module(m)

Spec == Init /\ [][Next]_vars /\ WF_vars(Next)

-----------------------------------------------------------------------------
TypeOK ==
  /\ pc \in [Modules -> {"sync", "head", "skip", "send"}]
  /\ txc \in [Modules -> BOOLEAN] /\ round \in 0..Rounds /\ faults \in 0..Faults
  /\ \A m \in Modules : Len(rx[m]) <= 1 /\ Len(tx[m]) <= 7 /\ (Speaks(m) <=> tx[m] # <<>>)
  /\ at \in {"round", "first", "rest", "sleep", "done", "died"} /\ misheard \in BOOLEAN

\* However the modules lose the limits of the messages, what they hear of a
\* reply is never a command: two of them, or one and the host, never speak at
\* the same time.  (With the types of the variables.)
OneSpeaker ==
  /\ TypeOK
  /\ Cardinality({m \in Modules : Speaks(m)}) <= 1
  /\ out # <<>> => \A m \in Modules : ~Speaks(m)

\* Each byte that a module hears badly costs the host one round at most: the
\* synchronization sequence ends the message that the module was skipping.
\* With fewer of them than rounds, the module is found; and unless the host
\* itself hears badly, no cut or mixed reply is ever taken for its name.
Enumerated ==
  ~misheard =>
    /\ name \in {<<>>, Name}
    /\ at \in {"done", "died"} /\ Asked \in Modules => at = "done" /\ name = Name

\* The enumeration ends, whatever is heard badly.
Ends == <>(at \in {"done", "died"})
=============================================================================
