----------------------------- MODULE BusProofs -----------------------------
(***************************************************************************)
(* The bus of the test modules: at most one speaker at a time, and what    *)
(* the host makes of a reply, for every set of modules, number of rounds   *)
(* and pattern of bytes heard badly.                                       *)
(***************************************************************************)
EXTENDS Bus, FiniteSetTheorems, SequenceTheorems, TLAPS

\* The command of the host.
Ask == Command(CMD_ID, Asked)

IsCommand(b, m) == b = Command(CMD_ID, m) \/ b = Command(CMD_VAL, m)

\* What the host has to send is the end of what it sends in a round.
Sendings == {<<0, 255, Ask>>, <<255, Ask>>, <<Ask>>, <<0, 255>>, <<255>>, <<>>}

\* A module has heard nothing, no command to it, or the command to it once the
\* host has sent it.
Hears(m) ==
  \/ rx[m] = <<>>
  \/ \E b \in 0..255 : /\ rx[m] = <<b>>
                       /\ IsCommand(b, m) => b = Ask /\ out = <<>> /\ m = Asked

\* It sends the end of its identification.
Replies(m) ==
  IF Speaks(m)
  THEN /\ m = Asked /\ out = <<>>
       /\ tx[m] \in Seq(Int) /\ Len(tx[m]) \in 1..7
       /\ \A k \in 1..Len(tx[m]) : tx[m][k] = Id(m)[7 - Len(tx[m]) + k]
  ELSE tx[m] = <<>> /\ txc[m] = FALSE

TypeInv ==
  /\ pc \in [Modules -> {"sync", "head", "skip", "send"}]
  /\ rx \in [Modules -> Seq(0..255)]
  /\ tx \in [Modules -> Seq(Int)]
  /\ txc \in [Modules -> BOOLEAN]
  /\ round \in 0..Rounds /\ faults \in 0..Faults
  /\ at \in {"round", "first", "rest", "sleep", "done", "died"} /\ misheard \in BOOLEAN
  /\ input \in Seq(Int)

\* The module asked is the only one that speaks, and only when the host is silent;
\* between two rounds nothing moves.
BusInv ==
  /\ TypeInv
  /\ out \in Sendings
  /\ \A m \in Modules : Hears(m) /\ Replies(m)
  /\ at \in {"round", "done"} => Quiet

\* Bytes of the reply that the module has sent, when it speaks.
Sent == 7 - Len(tx[Asked]) + IF txc[Asked] THEN 1 ELSE 0

\* So many bytes of the reply are sent.
HasSent(n) ==
  IF Asked \in Modules /\ Speaks(Asked) THEN n = Sent
  ELSE n = 0 \/ (n = 7 /\ Asked \in Modules)

\* The module has received the command, and not read it yet.
Asks == Asked \in Modules /\ rx[Asked] = <<Ask>>

\* The host has read of the reply what the module has sent, and not yet the
\* bytes in input.
Follows ==
  /\ at # "died" /\ name \in {<<>>, Name}
  /\ at = "first" =>
       /\ name = <<>> /\ Len(input) <= 7 /\ HasSent(Len(input))
       /\ \A k \in 1..Len(input) : input[k] = Id(Asked)[k]
       /\ input # <<>> => out = <<>> /\ ~Asks
  /\ at = "rest" =>
       /\ name = <<>> /\ out = <<>> /\ ~Asks /\ r \in Seq(Int)
       /\ Len(r) <= 5 /\ 1 + Len(r) + Len(input) <= 7 /\ HasSent(1 + Len(r) + Len(input))
       /\ \A k \in 1..Len(r) : r[k] = Id(Asked)[k + 1]
       /\ \A k \in 1..Len(input) : input[k] = Id(Asked)[1 + Len(r) + k]
  /\ at \in {"sleep", "round", "done"} => input = <<>>
  /\ at = "sleep" =>
       /\ out \in {<<0, 255>>, <<255>>, <<>>} /\ ~Asks
       /\ Asked \in Modules /\ Speaks(Asked) => Sent = 7

\* Without a fault in this round, the module has heard what the host has sent.
OnTrack ==
  LET a == Asked
  IN \/ out = <<0, 255, Ask>>
     \/ out = <<255, Ask>> /\ (rx[a] = <<0>> \/ pc[a] \in {"head", "skip"})
     \/ out = <<Ask>> /\ \/ pc[a] \in {"head", "skip"} /\ rx[a] = <<255>>
                         \/ pc[a] = "head" /\ rx[a] = <<>>
     \/ out = <<>> /\ (Speaks(a) \/ input # <<>> \/ (pc[a] = "head" /\ rx[a] = <<Ask>>))

\* Each round without the reply has cost a fault.
Costs ==
  Asked \in Modules /\ name = <<>> =>
    /\ at \in {"round", "done", "sleep"} => faults >= round
    /\ at = "first" => faults >= round - 1 /\ (faults >= round \/ OnTrack)

\* The host that hears well follows the reply, and every failed round has its fault.
EnumInv ==
  /\ at = "done" => round = Rounds
  /\ ~misheard => Follows /\ Costs

-----------------------------------------------------------------------------
(* Bytes.                                                                  *)

\* Reversing four bits twice gives them back.
LEMMA Reversed == \A a \in 0..15 : R4(a) \in 0..15 /\ R4(R4(a)) = a
<1>1. /\ R4(0) = 0 /\ R4(1) = 8 /\ R4(2) = 4 /\ R4(3) = 12 /\ R4(4) = 2 /\ R4(5) = 10
      /\ R4(6) = 6 /\ R4(7) = 14 /\ R4(8) = 1 /\ R4(9) = 9 /\ R4(10) = 5 /\ R4(11) = 13
      /\ R4(12) = 3 /\ R4(13) = 11 /\ R4(14) = 7 /\ R4(15) = 15
  BY DEF R4, Bit
<1>2. \A a \in 0..15 : \/ a = 0 \/ a = 1 \/ a = 2 \/ a = 3 \/ a = 4 \/ a = 5 \/ a = 6 \/ a = 7
                       \/ a = 8 \/ a = 9 \/ a = 10 \/ a = 11 \/ a = 12 \/ a = 13 \/ a = 14 \/ a = 15
  OBVIOUS
<1> QED
  BY <1>1, <1>2

\* No two modules have the same command, and 255 is the command to 15 only.
LEMMA CommandsDiffer ==
  /\ Ask \in 240..255
  /\ \A m \in 0..15 : Command(CMD_ID, m) \in 240..255 /\ Command(CMD_VAL, m) \in 224..239
  /\ \A m \in 0..15 : Command(CMD_ID, m) = Ask <=> m = Asked
  /\ \A m \in 0..15 : Command(CMD_ID, m) = 255 => m = 15
<1>1. \A m \in 0..15 : R4(m) \in 0..15 /\ R4(R4(m)) = m
  BY Reversed
<1>2. Asked \in 0..15
  BY BusAssumption
<1>3. \A m \in 0..15 : Command(CMD_ID, m) = 240 + R4(m) /\ Command(CMD_VAL, m) = 224 + R4(m)
  BY <1>1 DEF Command, FIN, CMD_ID, CMD_VAL
<1>4. Ask = 240 + R4(Asked)
  BY <1>2, <1>3 DEF Ask
<1>5. R4(15) = 15
  BY DEF R4, Bit
<1>6. ASSUME NEW m \in 0..15, Command(CMD_ID, m) = Ask PROVE R4(m) = R4(Asked)
  <2>1. R4(m) \in 0..15 /\ R4(Asked) \in 0..15 /\ 240 + R4(m) = 240 + R4(Asked)
    BY <1>1, <1>2, <1>3, <1>4, <1>6
  <2> QED
    BY <2>1
<1>7. ASSUME NEW m \in 0..15, Command(CMD_ID, m) = 255 PROVE R4(m) = R4(15)
  <2>1. R4(m) \in 0..15 /\ 240 + R4(m) = 255
    BY <1>1, <1>3, <1>7
  <2> QED
    BY <1>5, <2>1
<1>8. 15 \in 0..15
  OBVIOUS
<1>9. /\ \A m \in 0..15 : Command(CMD_ID, m) = Ask => m = Asked
      /\ \A m \in 0..15 : Command(CMD_ID, m) = 255 => m = 15
  BY <1>1, <1>2, <1>6, <1>7, <1>8
<1>10. /\ Ask \in 240..255
       /\ \A m \in 0..15 : Command(CMD_ID, m) \in 240..255 /\ Command(CMD_VAL, m) \in 224..239
  BY <1>1, <1>2, <1>3, <1>4
<1> QED
  BY <1>9, <1>10 DEF Ask

\* The bytes of an identification.
LEMMA IdBytes ==
  ASSUME NEW a \in 0..15
  PROVE  /\ Id(a) \in Seq(Int) /\ Len(Id(a)) = 7
         /\ \A k \in 1..7 : Id(a)[k] \in 0..176
         /\ Id(a)[1] = 112 + R4(a) /\ \A k \in 2..6 : Id(a)[k] < 128
         /\ Id(a)[2] = 84 /\ Id(a)[3] = 56 /\ Id(a)[4] = 53 /\ Id(a)[5] = 77
         /\ Id(a)[6] = 48 /\ Id(a)[7] = 176
<1>1. R4(a) \in 0..15
  BY Reversed
<1>2. Id(a) = <<R4(a) + 112, 84, 56, 53, 77, 48, 176>> /\ R4(a) + 112 \in 112..127
  BY <1>1 DEF Id, CMD_ID, FIN
<1> HIDE DEF Id
<1>3. /\ Id(a)[1] = R4(a) + 112 /\ Id(a)[2] = 84 /\ Id(a)[3] = 56 /\ Id(a)[4] = 53
      /\ Id(a)[5] = 77 /\ Id(a)[6] = 48 /\ Id(a)[7] = 176 /\ Len(Id(a)) = 7 /\ Id(a) \in Seq(Int)
  BY <1>2
<1>4. \A k \in 1..7 : k = 1 \/ k = 2 \/ k = 3 \/ k = 4 \/ k = 5 \/ k = 6 \/ k = 7
  OBVIOUS
<1>5. \A k \in 1..7 : Id(a)[k] \in 0..176
  <2>1. ASSUME NEW k \in 1..7 PROVE Id(a)[k] \in 0..176
    <3>1. \/ Id(a)[k] = R4(a) + 112 \/ Id(a)[k] = 84 \/ Id(a)[k] = 56 \/ Id(a)[k] = 53
          \/ Id(a)[k] = 77 \/ Id(a)[k] = 48 \/ Id(a)[k] = 176
      BY <1>3, <1>4
    <3> QED
      BY <1>1, <3>1
  <2> QED
    BY <2>1
<1>6. \A k \in 2..6 : Id(a)[k] < 128
  BY <1>1, <1>3, <1>4
<1> QED
  BY <1>1, <1>3, <1>5, <1>6, SMTT(30)

\* What a module takes for a command to it.
LEMMA WhatIsCommand ==
  ASSUME NEW m \in Modules
  PROVE  /\ m \in 0..15
         /\ IsCommand(Ask, m) => m = Asked
         /\ ~IsCommand(0, m) /\ ~IsCommand(255, m)
         /\ \A b \in 0..176 : ~IsCommand(b, m)
         /\ \A b \in Noise : b \in 0..255 /\ ~IsCommand(b, m)
         /\ Ask # Command(CMD_VAL, m)
<1>1. m \in 0..15 /\ m # 15 /\ Noise \subseteq 0..255
  BY BusAssumption, AddressAssumption
<1>2. /\ Command(CMD_ID, m) \in 240..255 /\ Command(CMD_VAL, m) \in 224..239 /\ Ask \in 240..255
      /\ Command(CMD_ID, m) = Ask => m = Asked
      /\ Command(CMD_ID, m) # 255
  BY <1>1, CommandsDiffer
<1>3. \A b \in Noise : b # Command(CMD_ID, m) /\ b # Command(CMD_VAL, m)
  BY NoiseAssumption
<1> QED
  BY <1>1, <1>2, <1>3 DEF IsCommand

-----------------------------------------------------------------------------
(* The bus.                                                                *)

\* Those who hear badly can be counted.
LEMMA Counted ==
  ASSUME NEW bad \in SUBSET (Modules \cup {Ear})
  PROVE  Cardinality(bad) \in Nat /\ (bad # {} => Cardinality(bad) >= 1)
<1>1. IsFiniteSet(0..16)
  <2>1. 0 \in Int /\ 16 \in Int
    OBVIOUS
  <2> QED
    BY <2>1, FS_Interval
<1>2. bad \subseteq 0..16
  BY BusAssumption DEF Ear
<1>3. IsFiniteSet(bad)
  BY <1>1, <1>2, FS_Subset
<1>4. Cardinality(bad) \in Nat /\ (Cardinality(bad) = 0 <=> bad = {})
  BY <1>3, FS_CardinalityType, FS_EmptySet
<1> QED
  BY <1>4

\* What becomes of a byte that is sent.
LEMMA WhatIsHeard ==
  ASSUME NEW b \in 0..255, NEW ls \in SUBSET (Modules \cup {Ear}), Heard(b, ls),
         TypeInv
  PROVE  /\ rx' \in [Modules -> Seq(0..255)] /\ input' \in Seq(Int)
         /\ faults' \in 0..Faults /\ misheard' \in BOOLEAN
         /\ \A m \in Modules \ ls : rx'[m] = rx[m]
         /\ \A m \in Modules \cap ls :
              \/ rx'[m] = <<>> \/ rx'[m] = <<b>> \/ \E n \in Noise : rx'[m] = <<n>>
         /\ Ear \notin ls => input' = input
         /\ faults' >= faults
         /\ \A m \in Modules \cap ls : rx'[m] = <<b>> \/ faults' >= faults + 1
         /\ misheard \/ (Ear \in ls /\ input' # Append(input, b)) => misheard'
<1>1. PICK bad \in SUBSET (ls \cap Faulty) :
        /\ faults' = faults + Cardinality(bad) /\ faults' <= Faults
        /\ misheard' = (misheard \/ Ear \in bad)
        /\ \E h \in [bad -> Hearings] :
             /\ rx' = [m \in Modules |-> IF m \in ls THEN (IF m \in bad THEN h[m] ELSE <<b>>)
                                         ELSE rx[m]]
             /\ input' = IF Ear \in ls THEN input \o (IF Ear \in bad THEN h[Ear] ELSE <<b>>)
                         ELSE input
  BY DEF Heard
<1>2. PICK h \in [bad -> Hearings] :
        /\ rx' = [m \in Modules |-> IF m \in ls THEN (IF m \in bad THEN h[m] ELSE <<b>>)
                                    ELSE rx[m]]
        /\ input' = IF Ear \in ls THEN input \o (IF Ear \in bad THEN h[Ear] ELSE <<b>>)
                    ELSE input
  BY <1>1
<1>3. Cardinality(bad) \in Nat /\ (bad # {} => Cardinality(bad) >= 1)
  BY Counted
<1>4. /\ faults \in Nat /\ Faults \in Nat /\ misheard \in BOOLEAN
      /\ rx \in [Modules -> Seq(0..255)] /\ Noise \subseteq 0..255 /\ input \in Seq(Int)
  BY BusAssumption DEF TypeInv
<1>5. faults' \in 0..Faults /\ faults' >= faults /\ (bad # {} => faults' >= faults + 1)
  BY <1>1, <1>3, <1>4
<1>6. \A l \in bad : h[l] = <<>> \/ \E n \in Noise : h[l] = <<n>>
  BY DEF Hearings
<1>7. \A m \in Modules :
        rx'[m] = IF m \in ls THEN (IF m \in bad THEN h[m] ELSE <<b>>) ELSE rx[m]
  BY <1>2
<1>8. \A m \in Modules \cap ls :
        /\ rx'[m] = <<>> \/ rx'[m] = <<b>> \/ \E n \in Noise : rx'[m] = <<n>>
        /\ rx'[m] = <<b>> \/ bad # {}
  BY <1>6, <1>7
<1>9. <<>> \in Seq(0..255) /\ <<b>> \in Seq(0..255) /\ \A n \in Noise : <<n>> \in Seq(0..255)
  BY <1>4
<1>10. rx' \in [Modules -> Seq(0..255)]
  <2>1. \A m \in Modules : rx'[m] \in Seq(0..255)
    <3>1. \A m \in Modules : rx[m] \in Seq(0..255)
      BY <1>4
    <3>2. \A m \in Modules : m \notin ls => rx'[m] = rx[m]
      BY <1>7
    <3> QED
      BY <1>8, <1>9, <3>1, <3>2, ZenonT(30)
  <2>2. rx' = [m \in Modules |-> rx'[m]]
    BY <1>2
  <2> QED
    BY <2>1, <2>2
<1>11. input' \in Seq(Int)
  <2>1. <<b>> \in Seq(Int) /\ <<>> \in Seq(Int) /\ \A n \in Noise : <<n>> \in Seq(Int)
    BY <1>4
  <2>2. Ear \in bad => h[Ear] \in Seq(Int)
    BY <1>6, <2>1
  <2> QED
    BY <1>2, <1>4, <2>1, <2>2, ConcatProperties
<1>12. Ear \in ls /\ Ear \notin bad => input' = Append(input, b)
  <2>1. input \o <<b>> = Append(input, b)
    BY AppendIsConcat
  <2> QED
    BY <1>2, <2>1
<1>13. misheard' \in BOOLEAN /\ (misheard \/ (Ear \in ls /\ input' # Append(input, b)) => misheard')
  BY <1>1, <1>4, <1>12
<1>14. Ear \notin ls => input' = input
  BY <1>2
<1> QED
  BY <1>5, <1>7, <1>8, <1>10, <1>11, <1>13, <1>14

LEMMA TupleEnds ==
  ASSUME NEW a, NEW b, NEW c
  PROVE  /\ Head(<<a, b, c>>) = a /\ Tail(<<a, b, c>>) = <<b, c>>
         /\ Head(<<a, b>>) = a /\ Tail(<<a, b>>) = <<b>>
         /\ Head(<<a>>) = a /\ Tail(<<a>>) = <<>>
<1>1. Head(<<a, b, c>>) = a
  OBVIOUS
<1>2. Tail(<<a, b, c>>) = <<b, c>>
  OBVIOUS
<1>3. Head(<<a, b>>) = a
  OBVIOUS
<1>4. Tail(<<a, b>>) = <<b>>
  OBVIOUS
<1>5. Head(<<a>>) = a /\ Tail(<<a>>) = <<>>
  OBVIOUS
<1> QED
  BY <1>1, <1>2, <1>3, <1>4, <1>5

\* What the host has to send, and what remains when a byte is sent.
LEMMA WhatIsSent ==
  ASSUME out \in Sendings, out # <<>>
  PROVE  /\ Head(out) \in {0, 255, Ask} /\ Head(out) \in 0..255 /\ Tail(out) \in Sendings
         /\ Head(out) \notin {0, 255} => Head(out) = Ask /\ Tail(out) = <<>>
         /\ out = <<0, 255, Ask>> => Head(out) = 0 /\ Tail(out) = <<255, Ask>>
         /\ out = <<255, Ask>> => Head(out) = 255 /\ Tail(out) = <<Ask>>
         /\ out = <<Ask>> => Head(out) = Ask /\ Tail(out) = <<>>
         /\ out = <<0, 255>> => Head(out) = 0 /\ Tail(out) = <<255>>
         /\ out = <<255>> => Head(out) = 255 /\ Tail(out) = <<>>
<1>1. Ask \in 0..255
  BY CommandsDiffer
<1>2. /\ Head(<<0, 255, Ask>>) = 0 /\ Tail(<<0, 255, Ask>>) = <<255, Ask>>
      /\ Head(<<255, Ask>>) = 255 /\ Tail(<<255, Ask>>) = <<Ask>>
      /\ Head(<<Ask>>) = Ask /\ Tail(<<Ask>>) = <<>>
      /\ Head(<<0, 255>>) = 0 /\ Tail(<<0, 255>>) = <<255>>
      /\ Head(<<255>>) = 255 /\ Tail(<<255>>) = <<>>
  BY TupleEnds
<1>3. /\ out = <<0, 255, Ask>> => Head(out) = 0 /\ Tail(out) = <<255, Ask>>
      /\ out = <<255, Ask>> => Head(out) = 255 /\ Tail(out) = <<Ask>>
      /\ out = <<Ask>> => Head(out) = Ask /\ Tail(out) = <<>>
      /\ out = <<0, 255>> => Head(out) = 0 /\ Tail(out) = <<255>>
      /\ out = <<255>> => Head(out) = 255 /\ Tail(out) = <<>>
  BY <1>2, ZenonT(30)
<1>8. /\ <<255, Ask>> \in Sendings /\ <<Ask>> \in Sendings /\ <<255>> \in Sendings
      /\ <<>> \in Sendings
  BY DEF Sendings
<1>4. \/ out = <<0, 255, Ask>> \/ out = <<255, Ask>> \/ out = <<Ask>> \/ out = <<0, 255>>
      \/ out = <<255>>
  <2>1. out \in Sendings => out \in {<<0, 255, Ask>>, <<255, Ask>>, <<Ask>>, <<0, 255>>, <<255>>, <<>>}
    BY Zenon DEF Sendings
  <2> QED
    BY <2>1
<1>5. Head(out) \in {0, 255, Ask} /\ Tail(out) \in Sendings
  BY <1>3, <1>4, <1>8, ZenonT(30)
<1>6. Head(out) \notin {0, 255} => Head(out) = Ask /\ Tail(out) = <<>>
  BY <1>3, <1>4, Zenon
<1>7. Head(out) \in 0..255
  <2>1. \A x \in {0, 255, Ask} : x \in 0..255
    BY ONLY <1>1
  <2> QED
    BY <1>5, <2>1, Zenon
<1> QED
  BY <1>3, <1>5, <1>6, <1>7, Zenon

LEMMA FirstOf ==
  ASSUME NEW s \in Seq(Int), Len(s) \in 1..7
  PROVE  s # <<>> /\ Head(s) = s[1]
OBVIOUS

\* The bytes of a reply are no command, and the last of them remain.
LEMMA ReplyGoesOn ==
  ASSUME NEW m \in Modules, Speaks(m), Replies(m)
  PROVE  /\ m = Asked /\ out = <<>> /\ tx[m] # <<>>
         /\ Head(tx[m]) = Id(m)[8 - Len(tx[m])] /\ Head(tx[m]) \in 0..176
         /\ Tail(tx[m]) \in Seq(Int) /\ Len(Tail(tx[m])) = Len(tx[m]) - 1
         /\ \A k \in 1..Len(Tail(tx[m])) : Tail(tx[m])[k] = Id(m)[7 - Len(Tail(tx[m])) + k]
<1> DEFINE s == tx[m]
           L == Len(s)
<1>0. m = Asked /\ out = <<>>
  BY DEF Replies
<1>1. s \in Seq(Int) /\ L \in 1..7 /\ \A k \in 1..L : s[k] = Id(m)[7 - L + k]
  BY DEF Replies
<1>2. \A k \in 1..7 : Id(m)[k] \in 0..176
  <2>1. m \in 0..15
    BY BusAssumption
  <2> QED
    BY <2>1, IdBytes
<1> HIDE DEF s
<1>3. s # <<>> /\ Head(s) = s[1] /\ 7 - L + 1 = 8 - L /\ 8 - L \in 1..7 /\ 1 \in 1..L
  <2>1. s \in Seq(Int) /\ Len(s) \in 1..7
    BY <1>1
  <2>2. 7 - L + 1 = 8 - L /\ 8 - L \in 1..7 /\ 1 \in 1..L
    <3>1. L \in 1..7
      BY <2>1
    <3> HIDE DEF L
    <3> QED
      BY ONLY <3>1
  <2>3. s # <<>> /\ Head(s) = s[1]
    BY ONLY <2>1, FirstOf
  <2> QED
    BY <2>2, <2>3
<1>4. Head(s) = Id(m)[8 - L] /\ Head(s) \in 0..176
  BY <1>1, <1>2, <1>3, ZenonT(30)
<1>5. /\ Tail(s) \in Seq(Int) /\ Len(Tail(s)) = L - 1
      /\ \A k \in 1..(L - 1) : Tail(s)[k] = s[k + 1]
  BY <1>1, <1>3
<1>6. ASSUME NEW k \in 1..(L - 1) PROVE Tail(s)[k] = Id(m)[7 - (L - 1) + k]
  <2>1. k + 1 \in 1..L /\ 7 - L + (k + 1) = 7 - (L - 1) + k
    BY <1>1
  <2> QED
    BY <1>1, <1>5, <2>1
<1> QED
  BY <1>0, <1>1, <1>3, <1>4, <1>5, <1>6 DEF s

LEMMA InitBus == Init => BusInv
<1> SUFFICES ASSUME Init PROVE BusInv
  OBVIOUS
<1>1. <<>> \in Seq(0..255) /\ <<>> \in Seq(Int) /\ 0 \in 0..Rounds /\ 0 \in 0..Faults
  BY BusAssumption
<1>2. TypeInv /\ out \in Sendings
  BY <1>1 DEF Init, TypeInv, Sendings
<1>3. \A m \in Modules : Hears(m) /\ Replies(m)
  BY DEF Init, Hears, Replies, Speaks
<1>4. Quiet
  BY DEF Init, Quiet, AllRead, Speaks
<1> QED
  BY <1>2, <1>3, <1>4 DEF BusInv

\* The host goes on without the modules.
LEMMA HostBus ==
  ASSUME BusInv, Round \/ FirstReply \/ RestReply \/ Timeout \/ Sleep
  PROVE  BusInv'
<1>1. /\ UNCHANGED module /\ UNCHANGED errors /\ TypeInv /\ out \in Sendings
      /\ \A m \in Modules : Hears(m) /\ Replies(m)
      /\ at \in {"round", "done"} => Quiet
  BY DEF BusInv, Round, FirstReply, RestReply, Timeout, Sleep
<1>2. /\ UNCHANGED <<pc, rx, tx, txc, faults, misheard>>
      /\ round \in 0..Rounds /\ input \in Seq(Int) /\ Rounds \in Nat
  BY <1>1, BusAssumption DEF module, errors, TypeInv
<1>3. ASSUME out' = out, at' \in {"round", "first", "rest", "sleep", "done", "died"},
             round' \in 0..Rounds, input' \in Seq(Int), at' \in {"round", "done"} => Quiet
      PROVE  BusInv'
  <2>1. TypeInv'
    BY <1>1, <1>2, <1>3 DEF TypeInv
  <2>2. \A m \in Modules : Hears(m)' /\ Replies(m)'
    BY <1>1, <1>2, <1>3, ZenonT(30) DEF Hears, Replies, Speaks
  <2>3. at' \in {"round", "done"} => Quiet'
    BY <1>2, <1>3 DEF Quiet, AllRead, Speaks
  <2> QED
    BY <1>1, <1>3, <2>1, <2>2, <2>3 DEF BusInv
<1>4. input # <<>> => Tail(input) \in Seq(Int)
  BY <1>2
<1>5. CASE FirstReply
  <2>1. /\ out' = out /\ round' = round /\ input' = Tail(input) /\ input # <<>>
        /\ at' \in {"died", "sleep", "rest"}
    BY <1>5 DEF FirstReply, AfterFirst
  <2> QED
    BY <1>2, <1>3, <1>4, <2>1
<1>6. CASE RestReply
  <2>1. /\ out' = out /\ round' = round /\ input' = Tail(input) /\ input # <<>>
        /\ at' \in {"sleep", "rest"}
    BY <1>6 DEF RestReply
  <2> QED
    BY <1>2, <1>3, <1>4, <2>1
<1>7. CASE Timeout
  <2>1. /\ out' = out /\ round' = round /\ input' = input /\ at' \in {"sleep", "died"}
    BY <1>7 DEF Timeout
  <2> QED
    BY <1>2, <1>3, <2>1
<1>8. CASE Sleep
  <2>1. /\ out' = out /\ round' = round /\ input' = input /\ at' = "round" /\ Quiet
    BY <1>8 DEF Sleep
  <2> QED
    BY <1>2, <1>3, <2>1
<1>9. CASE Round
  <2>1. Quiet /\ at = "round" /\ input' = input
    BY <1>1, <1>9 DEF Round
  <2>2. CASE round = Rounds
    <3>1. at' = "done" /\ round' = round /\ out' = out
      BY <1>9, <2>2 DEF Round
    <3> QED
      BY <1>2, <1>3, <2>1, <3>1
  <2>3. CASE round # Rounds
    <3>1. /\ round' = round + 1 /\ out' \in {<<0, 255, Ask>>, <<0, 255>>}
          /\ at' \in {"first", "sleep"}
      BY <1>9, <2>3 DEF Round, Ask
    <3>2. round' \in 0..Rounds
      BY <1>2, <2>3, <3>1
    <3>3. TypeInv'
      BY <1>1, <1>2, <2>1, <3>1, <3>2 DEF TypeInv
    <3>4. \A m \in Modules : rx[m] = <<>> /\ ~Speaks(m)
      BY <2>1 DEF Quiet, AllRead
    <3>5. \A m \in Modules : Hears(m)' /\ Replies(m)'
      BY <1>1, <1>2, <3>4 DEF Hears, Replies, Speaks
    <3> QED
      BY <3>1, <3>3, <3>5 DEF BusInv, Sendings
  <2> QED
    BY <2>2, <2>3
<1> QED
  BY <1>5, <1>6, <1>7, <1>8, <1>9

\* A byte that is no command, or the command that was sent last, is heard.
LEMMA HearsAgain ==
  ASSUME NEW m \in Modules, NEW b \in 0..255, rx' \in [Modules -> Seq(0..255)],
         IsCommand(b, m) => b = Ask /\ out' = <<>> /\ m = Asked,
         \/ rx'[m] = <<>> \/ rx'[m] = <<b>> \/ \E n \in Noise : rx'[m] = <<n>>
  PROVE  Hears(m)'
<1>1. CASE rx'[m] = <<>>
  BY <1>1 DEF Hears
<1>2. CASE rx'[m] = <<b>>
  BY <1>2 DEF Hears, IsCommand
<1>3. CASE \E n \in Noise : rx'[m] = <<n>>
  <2>1. PICK n \in Noise : rx'[m] = <<n>>
    BY <1>3
  <2>2. n \in 0..255 /\ ~IsCommand(n, m)
    BY WhatIsCommand
  <2> QED
    BY <2>1, <2>2 DEF Hears, IsCommand
<1> QED
  BY <1>1, <1>2, <1>3

LEMMA HostSendsBus == ASSUME BusInv, HostSends PROVE BusInv'
<1> DEFINE b == Head(out)
<1>1. /\ TypeInv /\ out \in Sendings /\ out # <<>> /\ Heard(b, Listeners) /\ out' = Tail(out)
      /\ UNCHANGED <<pc, tx, txc, round, at, r, name>>
      /\ \A m \in Modules : Hears(m) /\ Replies(m)
  BY DEF BusInv, HostSends, host
<1>2. /\ b \in {0, 255, Ask} /\ b \in 0..255 /\ out' \in Sendings
      /\ b \notin {0, 255} => b = Ask /\ out' = <<>>
  BY <1>1, WhatIsSent
<1>3. \A m \in Modules : ~Speaks(m)
  BY <1>1 DEF Replies
<1>4. Listeners = Modules
  BY <1>3 DEF Listeners
<1> HIDE DEF b
<1>5. /\ rx' \in [Modules -> Seq(0..255)] /\ input' \in Seq(Int) /\ faults' \in 0..Faults
      /\ misheard' \in BOOLEAN
      /\ \A m \in Modules : \/ rx'[m] = <<>> \/ rx'[m] = <<b>>
                            \/ \E n \in Noise : rx'[m] = <<n>>
  <2>1. Modules \in SUBSET (Modules \cup {Ear}) /\ Heard(b, Modules)
    BY <1>1, <1>4
  <2>2. /\ rx' \in [Modules -> Seq(0..255)] /\ input' \in Seq(Int)
        /\ faults' \in 0..Faults /\ misheard' \in BOOLEAN
        /\ \A m \in Modules \cap Modules :
             \/ rx'[m] = <<>> \/ rx'[m] = <<b>> \/ \E n \in Noise : rx'[m] = <<n>>
    <3>1. b \in 0..255 /\ TypeInv
      BY <1>1, <1>2
    <3> QED
      BY <2>1, <3>1, WhatIsHeard, Zenon
  <2> QED
    BY <2>2
<1>6. TypeInv'
  BY <1>1, <1>5 DEF TypeInv
<1>7. ASSUME NEW m \in Modules PROVE Hears(m)' /\ Replies(m)'
  <2>1. IsCommand(b, m) => b = Ask /\ out' = <<>> /\ m = Asked
    <3>1. (IsCommand(Ask, m) => m = Asked) /\ ~IsCommand(0, m) /\ ~IsCommand(255, m)
      BY WhatIsCommand, Zenon
    <3>2. b = 0 \/ b = 255 \/ (b = Ask /\ out' = <<>>)
      BY <1>2
    <3> QED
      BY <3>1, <3>2, Zenon
  <2>2. Hears(m)'
    BY <1>2, <1>5, <2>1, HearsAgain
  <2>3. Replies(m)'
    BY <1>1, <1>3 DEF Replies, Speaks
  <2> QED
    BY <2>2, <2>3
<1>8. at' \notin {"round", "done"}
  BY <1>1 DEF BusInv, Quiet
<1> QED
  BY <1>2, <1>6, <1>7, <1>8 DEF BusInv

LEMMA ModuleSendsBus == ASSUME BusInv, NEW m \in Modules, ModuleSends(m) PROVE BusInv'
<1> DEFINE b == Head(tx[m])
<1>1. /\ TypeInv /\ out \in Sendings /\ Heard(b, Listeners \cup {Ear}) /\ Speaks(m)
      /\ txc' = [txc EXCEPT ![m] = TRUE] /\ UNCHANGED <<pc, tx, round, at, r, name, out>>
      /\ \A l \in Modules : Hears(l) /\ Replies(l)
  BY DEF BusInv, ModuleSends, host
<1>2. b \in 0..176 /\ b \in 0..255 /\ out = <<>> /\ m = Asked
  <2>1. b \in 0..176 /\ out = <<>> /\ m = Asked
    BY <1>1, ReplyGoesOn
  <2> HIDE DEF b
  <2> QED
    BY <2>1
<1> HIDE DEF b
<1>3. /\ rx' \in [Modules -> Seq(0..255)] /\ input' \in Seq(Int) /\ faults' \in 0..Faults
      /\ misheard' \in BOOLEAN
      /\ \A l \in Modules \cap (Listeners \cup {Ear}) :
           rx'[l] = <<>> \/ rx'[l] = <<b>> \/ \E n \in Noise : rx'[l] = <<n>>
      /\ \A l \in Modules \ (Listeners \cup {Ear}) : rx'[l] = rx[l]
  <2> DEFINE ls == Listeners \cup {Ear}
  <2>1. ls \in SUBSET (Modules \cup {Ear}) /\ Heard(b, ls)
    BY <1>1 DEF Listeners
  <2> HIDE DEF ls
  <2>2. /\ rx' \in [Modules -> Seq(0..255)] /\ input' \in Seq(Int)
        /\ faults' \in 0..Faults /\ misheard' \in BOOLEAN
        /\ \A l \in Modules \ ls : rx'[l] = rx[l]
        /\ \A l \in Modules \cap ls :
             \/ rx'[l] = <<>> \/ rx'[l] = <<b>> \/ \E n \in Noise : rx'[l] = <<n>>
    BY <1>1, <1>2, <2>1, WhatIsHeard, ZenonT(30)
  <2> QED
    BY <2>2 DEF ls
<1>4. txc' \in [Modules -> BOOLEAN] /\ \A l \in Modules : l # m => txc'[l] = txc[l]
  BY <1>1 DEF TypeInv
<1>5. TypeInv'
  BY <1>1, <1>3, <1>4 DEF TypeInv
<1>6. ASSUME NEW l \in Modules PROVE Hears(l)' /\ Replies(l)'
  <2>1. ~IsCommand(b, l)
    BY <1>2, WhatIsCommand
  <2>2. Hears(l)'
    <3>1. CASE l \in Listeners
      BY <1>2, <1>3, <2>1, <3>1, HearsAgain
    <3>2. CASE l \notin Listeners
      <4>1. l \notin Listeners \cup {Ear}
        BY <3>2, BusAssumption DEF Ear
      <4>2. rx'[l] = rx[l] /\ out' = out
        BY <1>1, <1>3, <4>1
      <4> QED
        BY <1>1, <4>2, ZenonT(30) DEF Hears
    <3> QED
      BY <3>1, <3>2
  <2>3. Replies(l)'
    <3>1. Replies(l) /\ pc' = pc /\ tx' = tx /\ out' = out /\ (l = m => Speaks(l))
      BY <1>1
    <3> QED
      BY <3>1, <1>4 DEF Replies, Speaks
  <2> QED
    BY <2>2, <2>3
<1>7. at' \notin {"round", "done"}
  BY <1>1 DEF BusInv, Quiet
<1> QED
  BY <1>1, <1>5, <1>6, <1>7 DEF BusInv

\* What a module reads, it does not hear any more; the others are left alone.
LEMMA ReadBus ==
  ASSUME BusInv, NEW m \in Modules, Read(m),
         UNCHANGED <<txc, host, out, input, errors>>,
         NEW s \in {"sync", "head", "skip", "send"}, pc' = [pc EXCEPT ![m] = s],
         NEW t \in Seq(Int), tx' = [tx EXCEPT ![m] = t],
         ~Speaks(m),
         \/ s # "send" /\ t = <<>>
         \/ s = "send" /\ m = Asked /\ out = <<>> /\ t = Id(m)
  PROVE  BusInv'
<1>1. /\ TypeInv /\ out \in Sendings /\ out' = out /\ rx[m] # <<>>
      /\ rx' = [rx EXCEPT ![m] = <<>>]
      /\ UNCHANGED <<round, at, faults, misheard, input, txc>>
      /\ \A l \in Modules : Hears(l) /\ Replies(l)
  BY DEF BusInv, Read, host, errors
<1>2. /\ pc \in [Modules -> {"sync", "head", "skip", "send"}] /\ rx \in [Modules -> Seq(0..255)]
      /\ tx \in [Modules -> Seq(Int)] /\ txc \in [Modules -> BOOLEAN]
  BY <1>1 DEF TypeInv
<1>3. /\ pc' \in [Modules -> {"sync", "head", "skip", "send"}] /\ tx' \in [Modules -> Seq(Int)]
      /\ rx' \in [Modules -> Seq(0..255)]
      /\ \A l \in Modules : l # m => pc'[l] = pc[l] /\ tx'[l] = tx[l] /\ rx'[l] = rx[l]
      /\ pc'[m] = s /\ tx'[m] = t /\ rx'[m] = <<>>
  BY <1>1, <1>2
<1>4. TypeInv'
  BY <1>1, <1>3 DEF TypeInv
<1>5. ASSUME NEW l \in Modules PROVE Hears(l)' /\ Replies(l)'
  <2>1. Hears(l) /\ Replies(l) /\ out' = out /\ txc' = txc
    BY <1>1
  <2>2. CASE l # m
    <3>1. pc'[l] = pc[l] /\ tx'[l] = tx[l] /\ rx'[l] = rx[l]
      BY <1>3, <2>2
    <3> QED
      BY <2>1, <3>1, ZenonT(30) DEF Hears, Replies, Speaks
  <2>3. CASE l = m
    <3>1. Hears(m)'
      BY <1>3 DEF Hears
    <3>2. CASE s # "send"
      <4>1. t = <<>> /\ pc'[m] # "send" /\ txc'[m] = FALSE
        BY <1>3, <2>1, <2>3, <3>2 DEF Replies
      <4> QED
        BY <1>3, <2>3, <3>1, <4>1 DEF Replies, Speaks
    <3>3. CASE s = "send"
      <4>1. m = Asked /\ out' = <<>> /\ tx'[m] = Id(m) /\ pc'[m] = "send"
        BY <1>3, <2>1, <3>3
      <4>2. m \in 0..15
        BY BusAssumption
      <4>3. Id(m) \in Seq(Int) /\ Len(Id(m)) = 7
        BY <4>2, IdBytes
      <4>4. Len(Id(m)) \in 1..7 /\ \A k \in 1..Len(Id(m)) : Id(m)[k] = Id(m)[7 - Len(Id(m)) + k]
        BY <4>3
      <4>5. /\ Speaks(m)' /\ m = Asked /\ out' = <<>>
            /\ tx'[m] \in Seq(Int) /\ Len(tx'[m]) \in 1..7
            /\ \A k \in 1..Len(tx'[m]) : tx'[m][k] = Id(m)[7 - Len(tx'[m]) + k]
        BY <4>1, <4>3, <4>4 DEF Speaks
      <4>6. Replies(m)'
        BY <4>5, Zenon DEF Replies
      <4> QED
        BY <2>3, <3>1, <4>6
    <3> QED
      BY <3>2, <3>3
  <2> QED
    BY <2>2, <2>3
<1>6. at' \notin {"round", "done"}
  BY <1>1 DEF BusInv, Quiet, AllRead
<1> QED
  BY <1>1, <1>4, <1>5, <1>6 DEF BusInv

LEMMA SyncBus == ASSUME BusInv, NEW m \in Modules, Sync(m) PROVE BusInv'
<1>1. /\ pc[m] = "sync" /\ Read(m) /\ UNCHANGED <<tx, txc, host, out, input, errors>>
      /\ pc \in [Modules -> {"sync", "head", "skip", "send"}] /\ tx \in [Modules -> Seq(Int)]
      /\ Replies(m)
  BY DEF Sync, BusInv, TypeInv
<1>2. ~Speaks(m) /\ tx[m] = <<>> /\ tx[m] \in Seq(Int)
  BY <1>1 DEF Replies, Speaks
<1>3. tx' = [tx EXCEPT ![m] = tx[m]]
  BY <1>1
<1>4. \E s \in {"sync", "head", "skip"} : pc' = [pc EXCEPT ![m] = s]
  <2>1. CASE Byte(m) = 0
    BY <2>1 DEF Sync
  <2>2. CASE Byte(m) # 0
    <3>1. pc' = pc
      BY <2>2 DEF Sync
    <3>2. pc' = [pc EXCEPT ![m] = "sync"]
      BY <1>1, <3>1
    <3> QED
      BY <3>2
  <2> QED
    BY <2>1, <2>2
<1>5. PICK s \in {"sync", "head", "skip"} : pc' = [pc EXCEPT ![m] = s]
  BY <1>4
<1> QED
  BY <1>1, <1>2, <1>3, <1>5, ReadBus

LEMMA SkippedByteBus == ASSUME BusInv, NEW m \in Modules, SkippedByte(m) PROVE BusInv'
<1>1. /\ pc[m] = "skip" /\ Read(m) /\ UNCHANGED <<tx, txc, host, out, input, errors>>
      /\ pc' = [pc EXCEPT ![m] = AfterSkip(Byte(m))]
      /\ tx \in [Modules -> Seq(Int)] /\ Replies(m)
  BY DEF SkippedByte, BusInv, TypeInv
<1>2. ~Speaks(m) /\ tx[m] = <<>> /\ tx[m] \in Seq(Int) /\ tx' = [tx EXCEPT ![m] = tx[m]]
  BY <1>1 DEF Replies, Speaks
<1>3. AfterSkip(Byte(m)) \in {"sync", "head", "skip", "send"} /\ AfterSkip(Byte(m)) # "send"
  BY DEF AfterSkip
<1> QED
  BY <1>1, <1>2, <1>3, ReadBus

\* What a module reads is no command, or the command of the host.
LEMMA WhatIsRead ==
  ASSUME NEW m \in Modules, Hears(m), rx[m] # <<>>
  PROVE  /\ rx[m] = <<Byte(m)>> /\ Byte(m) \in 0..255
         /\ IsCommand(Byte(m), m) => Byte(m) = Ask /\ out = <<>> /\ m = Asked
<1>1. PICK b \in 0..255 : rx[m] = <<b>> /\ (IsCommand(b, m) => b = Ask /\ out = <<>> /\ m = Asked)
  BY DEF Hears
<1>2. Byte(m) = b
  BY <1>1 DEF Byte
<1> QED
  BY <1>1, <1>2

\* The first byte of a message makes a module speak if it is the command to it.
LEMMA FirstByteIs ==
  ASSUME NEW m \in Modules, FirstByte(m), Hears(m), Replies(m), tx \in [Modules -> Seq(Int)]
  PROVE  /\ IsCommand(Byte(m), m) =>
              /\ m = Asked /\ out = <<>> /\ rx[m] = <<Ask>>
              /\ pc' = [pc EXCEPT ![m] = "send"] /\ tx' = [tx EXCEPT ![m] = Id(m)]
         /\ ~IsCommand(Byte(m), m) =>
              /\ pc' = [pc EXCEPT ![m] = AfterSkip(Byte(m))] /\ tx' = tx
<1>1. rx[m] # <<>> /\ pc[m] = "head"
  BY DEF FirstByte, Read
<1>2. /\ rx[m] = <<Byte(m)>>
      /\ IsCommand(Byte(m), m) => Byte(m) = Ask /\ out = <<>> /\ m = Asked
  BY <1>1, WhatIsRead
<1>3. ASSUME IsCommand(Byte(m), m)
      PROVE  /\ m = Asked /\ out = <<>> /\ rx[m] = <<Ask>>
             /\ pc' = [pc EXCEPT ![m] = "send"] /\ tx' = [tx EXCEPT ![m] = Id(m)]
  <2>1. Byte(m) # Command(CMD_VAL, m)
    BY <1>2, <1>3, WhatIsCommand
  <2>2. Byte(m) = Command(CMD_ID, m)
    BY <1>3, <2>1 DEF IsCommand
  <2> QED
    BY <1>2, <1>3, <2>2 DEF FirstByte
<1>4. ASSUME ~IsCommand(Byte(m), m)
      PROVE  pc' = [pc EXCEPT ![m] = AfterSkip(Byte(m))] /\ tx' = tx
  BY <1>4 DEF FirstByte, IsCommand
<1> QED
  BY <1>3, <1>4

LEMMA FirstByteBus == ASSUME BusInv, NEW m \in Modules, FirstByte(m) PROVE BusInv'
<1>1. /\ pc[m] = "head" /\ Read(m) /\ UNCHANGED <<txc, host, out, input, errors>>
      /\ tx \in [Modules -> Seq(Int)] /\ Replies(m) /\ Hears(m)
  BY DEF FirstByte, BusInv, TypeInv
<1>2. ~Speaks(m) /\ tx[m] = <<>> /\ tx[m] \in Seq(Int)
  BY <1>1 DEF Replies, Speaks
<1>3. CASE IsCommand(Byte(m), m)
  <2>1. /\ m = Asked /\ out = <<>>
        /\ pc' = [pc EXCEPT ![m] = "send"] /\ tx' = [tx EXCEPT ![m] = Id(m)]
    BY <1>1, <1>3, FirstByteIs
  <2>2. m \in 0..15
    BY BusAssumption
  <2>3. Id(m) \in Seq(Int)
    BY <2>2, IdBytes
  <2> QED
    BY <1>1, <1>2, <2>1, <2>3, ReadBus
<1>4. CASE ~IsCommand(Byte(m), m)
  <2>1. pc' = [pc EXCEPT ![m] = AfterSkip(Byte(m))] /\ tx' = tx
    BY <1>1, <1>4, FirstByteIs
  <2>2. tx' = [tx EXCEPT ![m] = tx[m]]
    BY <1>1, <2>1
  <2>3. AfterSkip(Byte(m)) \in {"sync", "head", "skip", "send"} /\ AfterSkip(Byte(m)) # "send"
    BY DEF AfterSkip
  <2> QED
    BY <1>1, <1>2, <2>1, <2>2, <2>3, ReadBus
<1> QED
  BY <1>3, <1>4

LEMMA SentByteBus == ASSUME BusInv, NEW m \in Modules, SentByte(m) PROVE BusInv'
<1>1. /\ Speaks(m) /\ txc[m] /\ TypeInv /\ out \in Sendings
      /\ txc' = [txc EXCEPT ![m] = FALSE] /\ tx' = [tx EXCEPT ![m] = Tail(tx[m])]
      /\ IF Len(tx[m]) = 1
         THEN pc' = [pc EXCEPT ![m] = "head"] /\ rx' = [rx EXCEPT ![m] = <<>>]
         ELSE UNCHANGED <<pc, rx>>
      /\ UNCHANGED <<round, at, out, input, faults, misheard>>
      /\ \A l \in Modules : Hears(l) /\ Replies(l)
  BY DEF SentByte, BusInv, host, errors
<1>2. /\ pc \in [Modules -> {"sync", "head", "skip", "send"}] /\ rx \in [Modules -> Seq(0..255)]
      /\ tx \in [Modules -> Seq(Int)] /\ txc \in [Modules -> BOOLEAN]
  BY <1>1 DEF TypeInv
<1>3. /\ m = Asked /\ out = <<>> /\ Len(tx[m]) \in 1..7
      /\ Tail(tx[m]) \in Seq(Int) /\ Len(Tail(tx[m])) = Len(tx[m]) - 1
      /\ \A k \in 1..Len(Tail(tx[m])) : Tail(tx[m])[k] = Id(m)[7 - Len(Tail(tx[m])) + k]
  <2>1. Speaks(m) /\ Replies(m)
    BY <1>1
  <2>2. Len(tx[m]) \in 1..7
    BY <2>1 DEF Replies
  <2> QED
    BY <2>1, <2>2, ReplyGoesOn
<1>4. /\ tx' \in [Modules -> Seq(Int)] /\ txc' \in [Modules -> BOOLEAN]
      /\ \A l \in Modules : l # m => tx'[l] = tx[l] /\ txc'[l] = txc[l]
      /\ tx'[m] = Tail(tx[m]) /\ txc'[m] = FALSE
  BY <1>1, <1>2, <1>3
<1>5. /\ pc' \in [Modules -> {"sync", "head", "skip", "send"}] /\ rx' \in [Modules -> Seq(0..255)]
      /\ \A l \in Modules : l # m => pc'[l] = pc[l] /\ rx'[l] = rx[l]
      /\ IF Len(tx[m]) = 1 THEN pc'[m] = "head" /\ rx'[m] = <<>>
         ELSE pc'[m] = pc[m] /\ rx'[m] = rx[m]
  <2>1. CASE Len(tx[m]) = 1
    <3>1. pc' = [pc EXCEPT ![m] = "head"] /\ rx' = [rx EXCEPT ![m] = <<>>]
      BY <1>1, <2>1, Zenon
    <3>2. <<>> \in Seq(0..255)
      OBVIOUS
    <3>3. /\ pc' \in [Modules -> {"sync", "head", "skip", "send"}]
          /\ \A l \in Modules : l # m => pc'[l] = pc[l]
          /\ pc'[m] = "head"
      BY <1>2, <3>1
    <3>4. /\ rx' \in [Modules -> Seq(0..255)] /\ \A l \in Modules : l # m => rx'[l] = rx[l]
          /\ rx'[m] = <<>>
      BY <1>2, <3>1, <3>2
    <3> QED
      BY <2>1, <3>3, <3>4, Zenon
  <2>2. CASE Len(tx[m]) # 1
    <3>1. pc' = pc /\ rx' = rx
      BY <1>1, <2>2, Zenon
    <3> QED
      BY <1>2, <2>2, <3>1, Zenon
  <2> QED
    BY <2>1, <2>2
<1>6. TypeInv'
  BY <1>1, <1>4, <1>5 DEF TypeInv
<1>7. ASSUME NEW l \in Modules PROVE Hears(l)' /\ Replies(l)'
  <2>1. Hears(l) /\ Replies(l) /\ out' = out
    BY <1>1
  <2>2. CASE l # m
    <3>1. pc'[l] = pc[l] /\ tx'[l] = tx[l] /\ rx'[l] = rx[l] /\ txc'[l] = txc[l]
      BY <1>4, <1>5, <2>2
    <3> QED
      BY <2>1, <3>1 DEF Hears, Replies, Speaks
  <2>3. CASE l = m
    <3>1. Hears(m)'
      BY <1>5, <2>1, <2>3 DEF Hears
    <3>2. CASE Len(tx[m]) = 1
      <4>1. Len(tx'[m]) = 0 /\ tx'[m] \in Seq(Int)
        BY <1>3, <1>4, <3>2
      <4>2. tx'[m] = <<>>
        BY ONLY <4>1, EmptySeq
      <4>3. pc'[m] # "send" /\ txc'[m] = FALSE
        BY <1>4, <1>5, <3>2
      <4> QED
        BY <2>3, <3>1, <4>2, <4>3 DEF Replies, Speaks
    <3>3. CASE Len(tx[m]) # 1
      <4>1. Len(tx'[m]) = Len(tx[m]) - 1 /\ Len(tx[m]) \in 1..7 /\ tx'[m] \in Seq(Int)
        BY <1>3, <1>4
      <4>2. Len(tx'[m]) \in 1..7
        BY ONLY <4>1, <3>3
      <4>3. pc'[m] = "send" /\ m = Asked /\ out' = <<>>
        BY <1>1, <1>3, <1>5, <2>1, <3>3 DEF Speaks
      <4>4. \A k \in 1..Len(tx'[m]) : tx'[m][k] = Id(m)[7 - Len(tx'[m]) + k]
        BY <1>3, <1>4
      <4> QED
        BY <2>3, <3>1, <4>1, <4>2, <4>3, <4>4 DEF Replies, Speaks
    <3> QED
      BY <3>2, <3>3
  <2> QED
    BY <2>2, <2>3
<1>8. at' \notin {"round", "done"}
  BY <1>1 DEF BusInv, Quiet
<1> QED
  BY <1>1, <1>6, <1>7, <1>8 DEF BusInv

LEMMA NextBus == ASSUME BusInv, [Next]_vars PROVE BusInv'
<1>1. CASE UNCHANGED vars
  <2>1. UNCHANGED <<pc, rx, tx, txc, round, at, r, name, out, input, faults, misheard>>
    BY <1>1 DEF vars, module, host, errors
  <2>2. TypeInv'
    BY <2>1 DEF BusInv, TypeInv
  <2>3. \A m \in Modules : Hears(m)' /\ Replies(m)'
    BY <2>1, ZenonT(30) DEF BusInv, Hears, Replies, Speaks
  <2>4. at' \in {"round", "done"} => Quiet'
    BY <2>1 DEF BusInv, Quiet, AllRead, Speaks
  <2> QED
    BY <2>1, <2>2, <2>3, <2>4 DEF BusInv
<1>2. CASE Round \/ FirstReply \/ RestReply \/ Timeout \/ Sleep
  BY <1>2, HostBus
<1>3. CASE HostSends
  BY <1>3, HostSendsBus
<1>4. ASSUME NEW m \in Modules, Module(m) PROVE BusInv'
  <2>1. CASE Sync(m)
    BY <2>1, SyncBus
  <2>2. CASE FirstByte(m)
    BY <2>2, FirstByteBus
  <2>3. CASE SkippedByte(m)
    BY <2>3, SkippedByteBus
  <2>4. CASE SentByte(m)
    BY <2>4, SentByteBus
  <2>5. CASE ModuleSends(m)
    BY <2>5, ModuleSendsBus
  <2> QED
    BY <1>4, <2>1, <2>2, <2>3, <2>4, <2>5 DEF Module
<1> QED
  BY <1>1, <1>2, <1>3, <1>4 DEF Next, Host

\* Only the module that is asked for speaks, and not before the host is silent.
LEMMA BusHasOneSpeaker == BusInv => OneSpeaker
<1> SUFFICES ASSUME BusInv PROVE OneSpeaker
  OBVIOUS
<1> DEFINE speaking == {m \in Modules : Speaks(m)}
<1>1. TypeInv /\ \A m \in Modules : Hears(m) /\ Replies(m)
  BY DEF BusInv
<1>2. \A m \in Modules : Speaks(m) => m = Asked /\ out = <<>>
  BY <1>1 DEF Replies
<1>3. Cardinality(speaking) <= 1
  <2>1. CASE speaking = {}
    BY <2>1, FS_EmptySet
  <2>2. CASE speaking # {}
    <3>1. speaking = {Asked}
      BY <1>2, <2>2
    <3>2. Cardinality({Asked}) = 1
      BY FS_Singleton
    <3> QED
      BY <3>1, <3>2
  <2> QED
    BY <2>1, <2>2
<1>4. ASSUME NEW m \in Modules
      PROVE  Len(rx[m]) <= 1 /\ Len(tx[m]) <= 7 /\ (Speaks(m) <=> tx[m] # <<>>)
  <2>1. Len(rx[m]) <= 1
    <3>1. CASE rx[m] = <<>>
      BY <3>1
    <3>2. CASE \E b \in 0..255 : rx[m] = <<b>>
      BY <3>2
    <3> QED
      BY <1>1, <3>1, <3>2 DEF Hears
  <2>2. CASE Speaks(m)
    <3>1. tx[m] \in Seq(Int) /\ Len(tx[m]) \in 1..7
      BY <1>1, <2>2 DEF Replies
    <3>2. tx[m] # <<>>
      BY ONLY <3>1, FirstOf
    <3>3. \A n \in 1..7 : n <= 7
      OBVIOUS
    <3>4. Len(tx[m]) <= 7
      BY <3>1, <3>3, Zenon
    <3> QED
      BY <2>1, <2>2, <3>2, <3>4
  <2>3. CASE ~Speaks(m)
    <3>1. tx[m] = <<>>
      BY <1>1, <2>3 DEF Replies
    <3> QED
      BY <2>1, <2>3, <3>1
  <2> QED
    BY <2>2, <2>3
<1>5. TypeOK
  BY <1>1, <1>4 DEF TypeOK, TypeInv
<1> QED
  BY <1>2, <1>3, <1>5 DEF OneSpeaker

\* Two modules, or a module and the host, never transmit at the same time,
\* whatever bytes the modules lose, or mishear among the noise.
THEOREM NoCollision == Spec => []OneSpeaker
BY InitBus, NextBus, BusHasOneSpeaker, PTL DEF Spec
-----------------------------------------------------------------------------
(* The enumeration.                                                        *)

\* What the enumeration depends on.
LEMMA SameEnum ==
  ASSUME EnumInv, UNCHANGED <<round, at, r, name, out, input, faults, misheard>>,
         Asked \in Modules => /\ pc'[Asked] = pc[Asked] /\ rx'[Asked] = rx[Asked]
                              /\ tx'[Asked] = tx[Asked] /\ txc'[Asked] = txc[Asked]
  PROVE  EnumInv'
<1>1. Asked \in Modules => (Speaks(Asked)' <=> Speaks(Asked)) /\ Sent' = Sent
  BY DEF Speaks, Sent
<1>2. (Asks' <=> Asks) /\ \A n : HasSent(n)' <=> HasSent(n)
  BY <1>1 DEF Asks, HasSent
<1>3. Follows => Follows'
  BY <1>1, <1>2 DEF Follows
<1>4. Asked \in Modules => (OnTrack => OnTrack')
  BY <1>1 DEF OnTrack
<1>5. Costs => Costs'
  BY <1>4 DEF Costs
<1> QED
  BY <1>3, <1>5 DEF EnumInv

\* A module that is not asked for does nothing that matters.
LEMMA OthersEnum ==
  ASSUME BusInv, EnumInv, NEW m \in Modules, m # Asked, Module(m)
  PROVE  EnumInv'
<1>1. Replies(m) /\ TypeInv /\ Hears(m)
  BY DEF BusInv
<1>2. ~Speaks(m)
  BY <1>1 DEF Replies
<1>3. Sync(m) \/ FirstByte(m) \/ SkippedByte(m)
  BY <1>2 DEF Module, SentByte, ModuleSends
<1>4. /\ UNCHANGED <<round, at, r, name, out, input, faults, misheard, txc>>
      /\ rx' = [rx EXCEPT ![m] = <<>>]
  BY <1>3 DEF Sync, FirstByte, SkippedByte, Read, host, errors
<1>5. tx' = tx /\ \E s : pc' = [pc EXCEPT ![m] = s] \/ pc' = pc
  <2>1. CASE Sync(m)
    BY <2>1 DEF Sync
  <2>2. CASE SkippedByte(m)
    BY <2>2 DEF SkippedByte
  <2>3. CASE FirstByte(m)
    <3>1. rx[m] # <<>>
      BY <2>3 DEF FirstByte, Read
    <3>2. ~IsCommand(Byte(m), m)
      BY <1>1, <3>1, WhatIsRead
    <3> QED
      BY <1>1, <2>3, <3>2, FirstByteIs DEF TypeInv
  <2> QED
    BY <1>3, <2>1, <2>2, <2>3
<1>6. Asked \in Modules => pc'[Asked] = pc[Asked] /\ rx'[Asked] = rx[Asked]
  BY <1>1, <1>4, <1>5 DEF TypeInv
<1> QED
  BY <1>4, <1>5, <1>6, SameEnum

\* A module reads a byte that is no command to it, and is synchronized by it or
\* stays so.
Listens(m) ==
  /\ ~Speaks(m) /\ rx[m] # <<>> /\ rx' = [rx EXCEPT ![m] = <<>>]
  /\ pc'[m] # "send" /\ ~(pc[m] = "head" /\ rx[m] = <<Ask>>)
  /\ rx[m] = <<0>> \/ pc[m] \in {"head", "skip"} => pc'[m] \in {"head", "skip"}
  /\ rx[m] = <<255>> /\ pc[m] \in {"head", "skip"} => pc'[m] = "head"

\* The module that is asked for reads a byte and does not answer.
LEMMA ReadEnum ==
  ASSUME BusInv, EnumInv, NEW m \in Modules, m = Asked, Listens(m),
         UNCHANGED <<tx, txc, round, at, r, name, out, input, faults, misheard>>
  PROVE  EnumInv'
<1> USE DEF Listens
<1>1. rx'[m] = <<>>
  BY DEF BusInv, TypeInv
<1>2. ~Speaks(Asked)' /\ ~Speaks(Asked) /\ Asked \in Modules
  BY DEF Speaks
<1>3. ~Asks' /\ \A n : HasSent(n)' <=> HasSent(n)
  BY <1>1, <1>2 DEF Asks, HasSent
<1>4. Follows => Follows'
  BY <1>2, <1>3 DEF Follows
<1>5. OnTrack => OnTrack'
  <2>1. CASE out = <<0, 255, Ask>>
    BY <2>1 DEF OnTrack
  <2>2. CASE out = <<255, Ask>> /\ (rx[m] = <<0>> \/ pc[m] \in {"head", "skip"})
    BY <2>2 DEF OnTrack
  <2>3. CASE out = <<Ask>> /\ pc[m] \in {"head", "skip"} /\ rx[m] = <<255>>
    BY <1>1, <2>3 DEF OnTrack
  <2>4. CASE out = <<>> /\ input # <<>>
    BY <2>4 DEF OnTrack
  <2> QED
    BY <1>2, <2>1, <2>2, <2>3, <2>4 DEF OnTrack
<1>6. Costs => Costs'
  BY <1>5 DEF Costs
<1> QED
  BY <1>4, <1>6 DEF EnumInv

LEMMA ListeningEnum ==
  ASSUME BusInv, EnumInv, NEW m \in Modules, m = Asked,
         Sync(m) \/ SkippedByte(m) \/ (FirstByte(m) /\ ~IsCommand(Byte(m), m))
  PROVE  EnumInv'
<1>1. /\ Replies(m) /\ Hears(m) /\ pc \in [Modules -> {"sync", "head", "skip", "send"}]
      /\ rx \in [Modules -> Seq(0..255)] /\ tx \in [Modules -> Seq(Int)]
  BY DEF BusInv, TypeInv
<1>2. /\ rx[m] # <<>> /\ rx' = [rx EXCEPT ![m] = <<>>] /\ ~Speaks(m)
      /\ UNCHANGED <<txc, round, at, r, name, out, input, faults, misheard>>
  BY DEF Sync, FirstByte, SkippedByte, Read, Speaks, host, errors
<1>3. rx[m] = <<Byte(m)>>
  BY <1>1, <1>2, WhatIsRead
<1>4. (rx[m] = <<0>> => Byte(m) = 0) /\ (rx[m] = <<255>> => Byte(m) = 255)
  BY DEF Byte
<1>5. CASE Sync(m)
  <2>1. pc[m] = "sync" /\ tx' = tx
    BY <1>5 DEF Sync
  <2>2. pc'[m] # "send" /\ (Byte(m) = 0 => pc'[m] \in {"head", "skip"})
    BY <1>1, <1>5 DEF Sync
  <2> QED
    BY <1>2, <1>4, <2>1, <2>2, ReadEnum DEF Listens
<1>6. CASE SkippedByte(m) \/ (FirstByte(m) /\ ~IsCommand(Byte(m), m))
  <2>1. tx' = tx /\ pc' = [pc EXCEPT ![m] = AfterSkip(Byte(m))]
    BY <1>1, <1>6, FirstByteIs DEF SkippedByte
  <2>2. pc'[m] = AfterSkip(Byte(m))
    BY <1>1, <2>1
  <2>3. AfterSkip(Byte(m)) \in {"head", "skip"} /\ AfterSkip(255) = "head"
    BY DEF AfterSkip, IsFinal, FIN
  <2>4. ~(pc[m] = "head" /\ rx[m] = <<Ask>>)
    <3>1. CASE SkippedByte(m)
      BY <3>1 DEF SkippedByte
    <3>2. CASE ~IsCommand(Byte(m), m)
      <4>1. rx[m] = <<Ask>> => Byte(m) = Ask
        BY DEF Byte
      <4>2. IsCommand(Ask, m)
        BY DEF IsCommand, Ask
      <4> QED
        BY <3>2, <4>1, <4>2
    <3> QED
      BY <1>6, <3>1, <3>2
  <2>5. /\ pc'[m] # "send" /\ pc'[m] \in {"head", "skip"}
        /\ rx[m] = <<255>> => pc'[m] = "head"
    BY <1>4, <2>2, <2>3
  <2> QED
    BY <1>2, <2>1, <2>4, <2>5, ReadEnum DEF Listens
<1> QED
  BY <1>5, <1>6

\* It begins to reply.
LEMMA CommandEnum ==
  ASSUME BusInv, EnumInv, NEW m \in Modules, m = Asked, FirstByte(m), IsCommand(Byte(m), m)
  PROVE  EnumInv'
<1>1. /\ Replies(m) /\ Hears(m) /\ pc \in [Modules -> {"sync", "head", "skip", "send"}]
      /\ rx \in [Modules -> Seq(0..255)] /\ tx \in [Modules -> Seq(Int)]
      /\ at \in {"round", "done"} => Quiet
      /\ at \in {"round", "first", "rest", "sleep", "done", "died"}
  BY DEF BusInv, TypeInv
<1>2. /\ out = <<>> /\ rx[m] = <<Ask>>
      /\ pc' = [pc EXCEPT ![m] = "send"] /\ tx' = [tx EXCEPT ![m] = Id(m)]
  BY <1>1, FirstByteIs
<1>3. /\ rx' = [rx EXCEPT ![m] = <<>>] /\ pc[m] = "head"
      /\ UNCHANGED <<txc, round, at, r, name, out, input, faults, misheard>>
  BY DEF FirstByte, Read, host, errors
<1>4. pc'[m] = "send" /\ tx'[m] = Id(m) /\ rx'[m] = <<>> /\ txc'[m] = FALSE
  BY <1>1, <1>2, <1>3 DEF Replies, Speaks
<1>5. Sent' = 0 /\ Speaks(Asked)' /\ Asked \in Modules /\ ~Asks' /\ Asks /\ ~Speaks(Asked)
  <2>1. m \in 0..15
    BY BusAssumption
  <2>2. Len(Id(m)) = 7
    BY <2>1, IdBytes
  <2>3. 7 - 7 + 0 = 0
    OBVIOUS
  <2>4. Sent' = 7 - Len(tx'[m]) + IF txc'[m] THEN 1 ELSE 0
    BY DEF Sent
  <2>5. Sent' = 0
    BY <1>4, <2>2, <2>3, <2>4
  <2>6. ~Asks'
    BY <1>4 DEF Asks
  <2> QED
    BY <1>2, <1>3, <1>4, <2>5, <2>6 DEF Speaks, Asks
<1> SUFFICES ASSUME ~misheard' PROVE Follows' /\ Costs'
  BY <1>3 DEF EnumInv
<1>7. Follows /\ Costs
  BY <1>3 DEF EnumInv
<1>8. at = "first" /\ input = <<>> /\ Len(input) = 0
  <2>1. at \notin {"round", "done"}
    <3>1. rx[m] # <<>>
      BY <1>2
    <3> QED
      BY <1>1, <3>1 DEF Quiet, AllRead
  <2>2. at = "first" /\ input = <<>>
    BY <1>1, <1>5, <1>7, <2>1 DEF Follows
  <2> QED
    BY <2>2
<1>9. HasSent(Len(input))'
  <2>2. Len(input') = 0
    BY <1>3, <1>8
  <2> QED
    BY <1>5, <2>2 DEF HasSent
<1>10. Follows'
  <2>1. name' = <<>> /\ at' = "first" /\ input' = <<>>
    BY <1>3, <1>7, <1>8 DEF Follows
  <2>2. Len(input') <= 7
    BY <1>3, <1>8
  <2>3. \A k \in 1..Len(input') : input'[k] = Id(Asked)[k]
    BY <1>3, <1>8
  <2>4. at' \notin {"died", "rest", "sleep", "round", "done"}
    BY <2>1
  <2> QED
    BY <1>9, <2>1, <2>2, <2>3, <2>4, Zenon DEF Follows
<1>11. OnTrack'
  BY <1>2, <1>3, <1>5 DEF OnTrack
<1>12. Costs'
  BY <1>3, <1>7, <1>8, <1>11 DEF Costs
<1> QED
  BY <1>10, <1>12

\* The host sees no difference.
LEMMA KeepFollows ==
  ASSUME Follows, UNCHANGED <<at, r, name, out, input>>, Asks' => Asks,
         \A n : HasSent(n) => HasSent(n)',
         Asked \in Modules /\ Speaks(Asked)' => Speaks(Asked) /\ Sent' = Sent
  PROVE  Follows'
<1>1. /\ at' # "died" /\ name' \in {<<>>, Name}
      /\ at' \in {"sleep", "round", "done"} => input' = <<>>
  BY DEF Follows
<1>2. at' = "first" =>
        /\ name' = <<>> /\ Len(input') <= 7 /\ HasSent(Len(input))'
        /\ \A k \in 1..Len(input') : input'[k] = Id(Asked)[k]
        /\ input' # <<>> => out' = <<>> /\ ~Asks'
  BY Zenon DEF Follows
<1>3. at' = "rest" =>
        /\ name' = <<>> /\ out' = <<>> /\ ~Asks' /\ r' \in Seq(Int)
        /\ Len(r') <= 5 /\ 1 + Len(r') + Len(input') <= 7 /\ HasSent(1 + Len(r) + Len(input))'
        /\ \A k \in 1..Len(r') : r'[k] = Id(Asked)[k + 1]
        /\ \A k \in 1..Len(input') : input'[k] = Id(Asked)[1 + Len(r') + k]
  BY Zenon DEF Follows
<1>4. at' = "sleep" =>
        /\ out' \in {<<0, 255>>, <<255>>, <<>>} /\ ~Asks'
        /\ Asked \in Modules /\ Speaks(Asked)' => Sent' = 7
  BY Zenon DEF Follows
<1> QED
  BY <1>1, <1>2, <1>3, <1>4, Zenon DEF Follows

\* How many bytes of the reply are sent.
LEMMA SentIs ==
  ASSUME BusInv, Asked \in Modules, Speaks(Asked), NEW L, L = Len(tx[Asked])
  PROVE  /\ L \in 1..7 /\ (txc[Asked] => Sent = 8 - L) /\ (~txc[Asked] => Sent = 7 - L)
<1>1. L \in 1..7
  BY DEF BusInv, Replies
<1>2. Sent = 7 - L + IF txc[Asked] THEN 1 ELSE 0
  BY DEF Sent
<1>3. 7 - L + 1 = 8 - L /\ 7 - L + 0 = 7 - L
  BY ONLY <1>1
<1>4. txc[Asked] => Sent = 8 - L
  BY <1>2, <1>3
<1>5. ~txc[Asked] => Sent = 7 - L
  BY <1>2, <1>3
<1> QED
  BY <1>1, <1>4, <1>5

\* A byte of the reply is sent, or the reply ends.
LEMMA SentByteEnum ==
  ASSUME BusInv, EnumInv, NEW m \in Modules, m = Asked, SentByte(m)
  PROVE  EnumInv'
<1> DEFINE L == Len(tx[m])
<1>1. /\ Replies(m) /\ Speaks(m) /\ txc[m] /\ out \in Sendings
      /\ pc \in [Modules -> {"sync", "head", "skip", "send"}]
      /\ rx \in [Modules -> Seq(0..255)] /\ tx \in [Modules -> Seq(Int)]
      /\ txc \in [Modules -> BOOLEAN]
      /\ UNCHANGED <<round, at, r, name, out, input, faults, misheard>>
      /\ txc' = [txc EXCEPT ![m] = FALSE] /\ tx' = [tx EXCEPT ![m] = Tail(tx[m])]
      /\ IF L = 1 THEN pc' = [pc EXCEPT ![m] = "head"] /\ rx' = [rx EXCEPT ![m] = <<>>]
         ELSE UNCHANGED <<pc, rx>>
  BY DEF SentByte, BusInv, TypeInv, host, errors
<1>2. L \in 1..7 /\ Sent = 8 - L
  BY <1>1, SentIs
<1>3. txc'[m] = FALSE /\ Len(tx'[m]) = L - 1 /\ out = <<>>
  BY <1>1, ReplyGoesOn
<1>4. Sent' = Sent
  <2>1. Sent' = 7 - Len(tx'[m]) + 0
    BY <1>3 DEF Sent
  <2>2. Sent' = 7 - (L - 1) + 0
    BY <1>3, <2>1, Zenon
  <2> HIDE DEF L
  <2> QED
    BY <1>2, <2>2
<1> SUFFICES ASSUME ~misheard' PROVE Follows' /\ Costs'
  BY <1>1 DEF EnumInv
<1>6. Follows /\ Costs
  BY <1>1 DEF EnumInv
<1>7. CASE L = 1
  <2>1. pc'[m] = "head" /\ rx'[m] = <<>> /\ ~Speaks(m)'
    BY <1>1, <1>7 DEF Speaks
  <2>2. Sent = 7
    BY <1>2, <1>7
  <2>3. ~Asks'
    BY <2>1 DEF Asks
  <2>4. \A n : HasSent(n) => n = 7 /\ HasSent(n)'
    BY <1>1, <2>1, <2>2 DEF HasSent
  <2>5. ~(Asked \in Modules /\ Speaks(Asked)')
    BY <2>1
  <2>6. Follows'
    BY <1>1, <1>6, <2>3, <2>4, <2>5, KeepFollows
  <2>7. at = "first" => input # <<>>
    <3>1. at = "first" => Len(input) = 7
      BY <1>6, <2>4 DEF Follows
    <3>2. Len(<<>>) # 7
      OBVIOUS
    <3> QED
      BY <3>1, <3>2, Zenon
  <2>8. Costs'
    BY <1>1, <1>3, <1>6, <2>7 DEF Costs, OnTrack
  <2> QED
    BY <2>6, <2>8
<1>8. CASE L # 1
  <2>1. pc' = pc /\ rx' = rx /\ Speaks(Asked)' /\ Speaks(Asked) /\ Asked \in Modules
    BY <1>1, <1>8, Zenon DEF Speaks
  <2>2. (Asks' => Asks) /\ \A n : HasSent(n) => HasSent(n)'
    BY <1>4, <2>1 DEF Asks, HasSent
  <2>3. Follows'
    BY <1>1, <1>4, <1>6, <2>1, <2>2, KeepFollows
  <2>4. Costs'
    BY <1>1, <1>3, <1>6, <2>1 DEF Costs, OnTrack
  <2> QED
    BY <2>3, <2>4
<1> QED
  BY <1>7, <1>8

LEMMA Appended ==
  ASSUME NEW s \in Seq(Int), NEW b \in Int, NEW n \in Nat, Len(s) = n
  PROVE  /\ Append(s, b) \in Seq(Int) /\ Len(Append(s, b)) = n + 1 /\ Append(s, b) # <<>>
         /\ \A k \in 1..n : Append(s, b)[k] = s[k]
         /\ Append(s, b)[n + 1] = b
<1>1. /\ Append(s, b) \in Seq(Int) /\ Len(Append(s, b)) = Len(s) + 1
      /\ \A k \in 1..Len(s) : Append(s, b)[k] = s[k]
      /\ Append(s, b)[Len(s) + 1] = b
  BY AppendProperties
<1>2. Append(s, b) # <<>>
  OBVIOUS
<1> QED
  BY <1>1, <1>2, Zenon

\* A byte of the reply comes to the host.
LEMMA ModuleSendsEnum ==
  ASSUME BusInv, EnumInv, NEW m \in Modules, m = Asked, ModuleSends(m)
  PROVE  EnumInv'
<1> DEFINE L == Len(tx[m])
           b == Head(tx[m])
           ls == Listeners \cup {Ear}
<1>1. /\ Replies(m) /\ Speaks(m) /\ ~txc[m] /\ TypeInv /\ rx[m] = <<>>
      /\ txc \in [Modules -> BOOLEAN] /\ faults \in Nat /\ round \in Nat
      /\ UNCHANGED <<pc, tx, round, at, r, name, out>>
      /\ txc' = [txc EXCEPT ![m] = TRUE] /\ Heard(b, ls)
      /\ at \in {"round", "done"} => Quiet
      /\ at \in {"round", "first", "rest", "sleep", "done", "died"}
  BY BusAssumption DEF ModuleSends, BusInv, TypeInv, host, AllRead
<1>2. L \in 1..7 /\ Sent = 7 - L /\ b = Id(m)[8 - L] /\ b \in 0..176 /\ out = <<>>
  BY <1>1, SentIs, ReplyGoesOn
<1>3. /\ rx'[m] = <<>> /\ input' \in Seq(Int) /\ faults' >= faults /\ faults' \in Nat
      /\ misheard \/ input' # Append(input, b) => misheard'
  <2>1. ls \in SUBSET (Modules \cup {Ear}) /\ Ear \in ls /\ m \in Modules \ ls
    BY <1>1, BusAssumption DEF Listeners, Ear
  <2>2. b \in 0..255
    <3>1. b \in 0..176
      BY <1>2
    <3> HIDE DEF b
    <3> QED
      BY ONLY <3>1
  <2> HIDE DEF b, ls
  <2>3. /\ input' \in Seq(Int) /\ faults' \in 0..Faults /\ faults' >= faults
        /\ \A l \in Modules \ ls : rx'[l] = rx[l]
        /\ misheard \/ (Ear \in ls /\ input' # Append(input, b)) => misheard'
    BY <1>1, <2>1, <2>2, WhatIsHeard, ZenonT(30)
  <2>4. faults' \in Nat
    BY <2>3
  <2>5. rx'[m] = <<>>
    BY <1>1, <2>1, <2>3
  <2> QED
    BY <2>1, <2>3, <2>4, <2>5, Zenon
<1>4. txc'[m] = TRUE /\ Speaks(Asked)' /\ Speaks(Asked) /\ Asked \in Modules /\ ~Asks'
  <2>1. txc'[m] = TRUE /\ Speaks(Asked)' /\ Speaks(Asked)
    BY <1>1 DEF Speaks
  <2>2. ~Asks'
    BY <1>3 DEF Asks
  <2> QED
    BY <2>1, <2>2
<1>5. Sent' = 8 - L
  <2>1. Sent' = 7 - L + 1
    BY <1>1, <1>4, Zenon DEF Sent
  <2> HIDE DEF L
  <2> QED
    BY <1>2, <2>1
<1>6. \A n : (HasSent(n) <=> n = 7 - L) /\ (HasSent(n)' <=> n = 8 - L)
  BY <1>2, <1>4, <1>5 DEF HasSent
<1>7. at' = at /\ round' = round /\ (at = "done" => round = Rounds)
  BY <1>1 DEF EnumInv
<1> SUFFICES ASSUME ~misheard' PROVE Follows' /\ Costs'
  BY <1>7 DEF EnumInv
<1>9. Follows /\ Costs /\ input' = Append(input, b) /\ input \in Seq(Int)
  <2>1. ~misheard /\ input' = Append(input, b)
    BY <1>3
  <2> QED
    BY <1>1, <2>1 DEF EnumInv, TypeInv
<1> HIDE DEF b, L
<1>10. at \in {"first", "rest"}
  <2>1. at \notin {"round", "done"}
    BY <1>1 DEF Quiet
  <2>2. at # "sleep"
    <3>1. at = "sleep" => Sent = 7
      BY <1>4, <1>9 DEF Follows
    <3>2. Sent # 7
      BY <1>2
    <3> QED
      BY <3>1, <3>2
  <2>3. at # "died"
    BY <1>9 DEF Follows
  <2> QED
    BY <1>1, <2>1, <2>2, <2>3
<1>11. PICK n \in Nat : Len(input) = n
  BY <1>9
<1>12. /\ Len(input') = n + 1 /\ input' # <<>> /\ input' \in Seq(Int)
       /\ \A k \in 1..n : input'[k] = input[k]
       /\ input'[n + 1] = Id(m)[8 - L]
  <2>1. b \in Int
    BY <1>2
  <2> QED
    BY <1>2, <1>9, <1>11, <2>1, Appended
<1>13. Follows'
  <2>1. CASE at = "first"
    <3>1. /\ name = <<>> /\ n = 7 - L
          /\ \A k \in 1..n : input[k] = Id(Asked)[k]
      BY <1>6, <1>9, <1>11, <2>1 DEF Follows
    <3>2. n + 1 = 8 - L /\ n + 1 <= 7
      BY <1>2, <1>11, <3>1
    <3>3. \A k \in 1..(n + 1) : input'[k] = Id(Asked)[k]
      <4>1. \A k \in 1..(n + 1) : k \in 1..n \/ k = n + 1
        BY <1>11
      <4> QED
        BY <1>12, <3>1, <3>2, <4>1, Zenon
    <3>4. HasSent(Len(input))'
      <4>1. Sent' = Len(input')
        BY <1>5, <1>12, <3>2, Zenon
      <4> QED
        BY <1>4, <4>1 DEF HasSent
    <3>5. name' = <<>> /\ Len(input') <= 7 /\ out' = <<>>
      BY <1>1, <1>2, <1>12, <3>1, <3>2
    <3>6. at' = "first" /\ at' \notin {"died", "rest", "sleep", "round", "done"}
      BY <1>7, <2>1
    <3> QED
      BY <1>4, <1>12, <3>3, <3>4, <3>5, <3>6, Zenon DEF Follows
  <2>2. CASE at = "rest"
    <3>1. /\ name = <<>> /\ r \in Seq(Int) /\ Len(r) <= 5 /\ 1 + Len(r) + n = 7 - L
          /\ \A k \in 1..Len(r) : r[k] = Id(Asked)[k + 1]
          /\ \A k \in 1..n : input[k] = Id(Asked)[1 + Len(r) + k]
      BY <1>6, <1>9, <1>11, <2>2 DEF Follows
    <3>2. PICK q \in Nat : Len(r) = q
      BY <3>1
    <3>3. 1 + q + n = 7 - L
      BY <3>1, <3>2, Zenon
    <3>4. 1 + q + (n + 1) = 8 - L /\ 1 + q + (n + 1) <= 7
      BY <1>2, <1>11, <3>2, <3>3
    <3>5. \A k \in 1..(n + 1) : input'[k] = Id(Asked)[1 + q + k]
      <4>1. \A k \in 1..(n + 1) : k \in 1..n \/ k = n + 1
        BY <1>11
      <4>2. \A k \in 1..n : input[k] = Id(Asked)[1 + q + k]
        BY <3>1, <3>2, Zenon
      <4> QED
        BY <1>12, <3>4, <4>1, <4>2, Zenon
    <3>7. r' = r /\ Len(r') = q /\ name' = <<>> /\ out' = <<>>
      BY <1>1, <1>2, <3>1, <3>2
    <3>6. HasSent(1 + Len(r) + Len(input))'
      <4>1. Sent' = 1 + Len(r') + Len(input')
        BY <1>5, <1>12, <3>4, <3>7, Zenon
      <4> QED
        BY <1>4, <4>1 DEF HasSent
    <3>9. /\ r' \in Seq(Int) /\ Len(r') <= 5 /\ 1 + Len(r') + Len(input') <= 7
          /\ \A k \in 1..Len(r') : r'[k] = Id(Asked)[k + 1]
          /\ \A k \in 1..Len(input') : input'[k] = Id(Asked)[1 + Len(r') + k]
      BY <1>12, <3>1, <3>4, <3>5, <3>7, Zenon
    <3>8. at' = "rest" /\ at' \notin {"died", "first", "sleep", "round", "done"}
      BY <1>7, <2>2
    <3> QED
      BY <1>4, <3>6, <3>7, <3>8, <3>9, Zenon DEF Follows
  <2> QED
    BY <1>10, <2>1, <2>2
<1>14. Costs'
  <2>1. OnTrack'
    BY <1>1, <1>2, <1>4 DEF OnTrack
  <2>2. Asked \in Modules /\ name' = <<>> /\ at = "first" => faults >= round - 1
    BY <1>1, <1>9 DEF Costs
  <2>3. Asked \in Modules /\ name' = <<>> /\ at' = "first" => faults' >= round' - 1
    BY <1>1, <1>3, <2>2
  <2>4. at' \notin {"round", "done", "sleep"}
    BY <1>7, <1>10
  <2> QED
    BY <2>1, <2>3, <2>4 DEF Costs
<1> QED
  BY <1>13, <1>14

\* Nothing that is heard but the command to the module looks like it.
LEMMA AskIsAlone ==
  ASSUME Asked \in Modules
  PROVE  Ask # 0 /\ Ask # 255 /\ \A n \in Noise : Ask # n
<1>1. Asked \in 0..15 /\ Asked # 15
  BY BusAssumption, AddressAssumption
<1>2. Ask \in 240..255 /\ Ask # 255
  BY <1>1, CommandsDiffer DEF Ask
<1>3. \A n \in Noise : Ask # n
  BY NoiseAssumption DEF Ask
<1> QED
  BY <1>2, <1>3

\* The host sends a byte: without a fault, the module hears it.
LEMMA HostSendsEnum == ASSUME BusInv, EnumInv, HostSends PROVE EnumInv'
<1> DEFINE b == Head(out)
           a == Asked
<1>1. /\ TypeInv /\ out \in Sendings /\ out # <<>> /\ Heard(b, Listeners) /\ out' = Tail(out)
      /\ UNCHANGED <<pc, tx, txc, round, at, r, name>> /\ AllRead
      /\ \A m \in Modules : Hears(m) /\ Replies(m)
      /\ faults \in Nat /\ round \in Nat
  BY BusAssumption DEF BusInv, TypeInv, HostSends, host
<1>2. /\ b \in {0, 255, Ask} /\ b \in 0..255
      /\ out = <<0, 255, Ask>> => b = 0 /\ out' = <<255, Ask>>
      /\ out = <<255, Ask>> => b = 255 /\ out' = <<Ask>>
      /\ out = <<Ask>> => b = Ask /\ out' = <<>>
      /\ out = <<0, 255>> => b = 0 /\ out' = <<255>>
      /\ out = <<255>> => b = 255 /\ out' = <<>>
  BY <1>1, WhatIsSent
<1>3. \A m \in Modules : ~Speaks(m) /\ ~Speaks(m)' /\ rx[m] = <<>>
  BY <1>1 DEF Replies, AllRead, Speaks
<1>4. Listeners = Modules
  BY <1>3 DEF Listeners
<1> HIDE DEF b
<1>5. /\ input' = input /\ faults' \in Nat /\ faults' >= faults /\ (misheard => misheard')
      /\ \A m \in Modules :
           /\ rx'[m] = <<>> \/ rx'[m] = <<b>> \/ \E n \in Noise : rx'[m] = <<n>>
           /\ rx'[m] = <<b>> \/ faults' >= faults + 1
  <2>1. Modules \in SUBSET (Modules \cup {Ear}) /\ Heard(b, Modules) /\ Ear \notin Modules
    BY <1>1, <1>4, BusAssumption DEF Ear
  <2>2. /\ faults' \in 0..Faults /\ faults' >= faults /\ (Ear \notin Modules => input' = input)
        /\ \A m \in Modules \cap Modules :
             \/ rx'[m] = <<>> \/ rx'[m] = <<b>> \/ \E n \in Noise : rx'[m] = <<n>>
        /\ \A m \in Modules \cap Modules : rx'[m] = <<b>> \/ faults' >= faults + 1
        /\ misheard \/ (Ear \in Modules /\ input' # Append(input, b)) => misheard'
    <3>1. b \in 0..255 /\ TypeInv
      BY <1>1, <1>2
    <3> QED
      BY <2>1, <3>1, WhatIsHeard, ZenonT(30)
  <2>3. faults' \in Nat
    BY <2>2
  <2> QED
    BY <2>1, <2>2, <2>3, Zenon
<1>6. at' = at /\ round' = round /\ (at = "done" => round = Rounds)
  BY <1>1 DEF EnumInv
<1> SUFFICES ASSUME ~misheard' PROVE Follows' /\ Costs'
  BY <1>6 DEF EnumInv
<1>8. Follows /\ Costs
  BY <1>5 DEF EnumInv
<1>9. (Asked \in Modules => ~Speaks(Asked)) /\ \A n : HasSent(n) => HasSent(n)'
  BY <1>3 DEF HasSent
<1>10. at \notin {"rest", "round", "done", "died"} /\ (at = "first" => input = <<>>)
  <2>1. at \notin {"round", "done"}
    BY <1>1 DEF BusInv, Quiet
  <2> QED
    BY <1>1, <1>8, <2>1 DEF Follows
<1>11. Follows'
  <2>1. CASE at = "first"
    <3>1. /\ name' = <<>> /\ Len(input') <= 7 /\ HasSent(Len(input))'
          /\ \A k \in 1..Len(input') : input'[k] = Id(Asked)[k]
      BY <1>1, <1>5, <1>8, <1>9, <2>1, Zenon DEF Follows
    <3>2. input' = <<>> /\ at' = "first" /\ at' \notin {"died", "rest", "sleep", "round", "done"}
      BY <1>5, <1>6, <1>10, <2>1
    <3> QED
      BY <3>1, <3>2, Zenon DEF Follows
  <2>2. CASE at = "sleep"
    <3>1. out \in {<<0, 255>>, <<255>>, <<>>} /\ name \in {<<>>, Name} /\ input = <<>>
      BY <1>8, <2>2 DEF Follows
    <3>2. out = <<0, 255>> \/ out = <<255>>
      BY <1>1, <3>1
    <3>3. b \in {0, 255} /\ out' \in {<<0, 255>>, <<255>>, <<>>}
      BY <1>2, <3>2, ZenonT(30)
    <3>4. ~Asks'
      <4> SUFFICES ASSUME Asked \in Modules, rx'[Asked] = <<Ask>> PROVE FALSE
        BY DEF Asks
      <4>3. Ask # b /\ \A n \in Noise : Ask # n
        BY <3>3, AskIsAlone, Zenon
      <4>4. <<Ask>> = <<>> \/ <<Ask>> = <<b>> \/ \E n \in Noise : <<Ask>> = <<n>>
        BY <1>5, Zenon
      <4> QED
        BY <4>3, <4>4
    <3>5. ~(Asked \in Modules /\ Speaks(Asked)')
      BY <1>3
    <3>6. at' = "sleep" /\ at' \notin {"died", "rest", "first"} /\ name' \in {<<>>, Name} /\ input' = <<>>
      BY <1>1, <1>5, <1>6, <2>2, <3>1
    <3> QED
      BY <3>3, <3>4, <3>5, <3>6, Zenon DEF Follows
  <2>3. at \in {"round", "first", "rest", "sleep", "done", "died"}
    BY <1>1 DEF TypeInv
  <2> QED
    BY <1>10, <2>1, <2>2, <2>3
<1>12. Costs'
  <2> SUFFICES ASSUME Asked \in Modules, name' = <<>>
               PROVE  /\ at' \in {"round", "done", "sleep"} => faults' >= round'
                      /\ at' = "first" => faults' >= round' - 1 /\ (faults' >= round' \/ OnTrack')
    BY DEF Costs
  <2>1. CASE at = "sleep"
    <3>1. faults >= round
      BY <1>1, <1>8, <2>1 DEF Costs
    <3>2. faults' >= round'
      BY <1>1, <1>5, <3>1
    <3> QED
      BY <1>6, <2>1, <3>2
  <2>2. CASE at = "first"
    <3>1. faults >= round - 1 /\ (faults >= round \/ OnTrack)
      BY <1>1, <1>8, <2>2 DEF Costs
    <3>2. faults' >= round' - 1 /\ (faults >= round => faults' >= round')
      BY <1>1, <1>5, <3>1
    <3>3. faults' >= faults + 1 => faults' >= round'
      BY <1>1, <1>5, <3>1
    <3>4. CASE OnTrack /\ rx'[a] = <<b>>
      <4> SUFFICES OnTrack'
        BY <1>6, <2>2, <3>2
      <4>1. CASE out = <<0, 255, Ask>>
        <5>1. out' = <<255, Ask>> /\ rx'[a] = <<0>>
          BY <1>2, <3>4, <4>1, Zenon
        <5> QED
          BY <5>1, Zenon DEF OnTrack
      <4>2. CASE out = <<255, Ask>> /\ (rx[a] = <<0>> \/ pc[a] \in {"head", "skip"})
        <5>1. <<0>> # <<>>
          OBVIOUS
        <5>2. pc'[a] \in {"head", "skip"}
          BY <1>1, <1>3, <4>2, <5>1, Zenon
        <5>3. out' = <<Ask>> /\ rx'[a] = <<255>>
          BY <1>2, <3>4, <4>2, Zenon
        <5> QED
          BY <5>2, <5>3, Zenon DEF OnTrack
      <4>3. CASE out = <<Ask>> /\ (\/ pc[a] \in {"head", "skip"} /\ rx[a] = <<255>>
                                   \/ pc[a] = "head" /\ rx[a] = <<>>)
        <5>1. <<255>> # <<>>
          OBVIOUS
        <5>2. pc'[a] = "head"
          BY <1>1, <1>3, <4>3, <5>1, Zenon
        <5>3. out' = <<>> /\ rx'[a] = <<Ask>>
          BY <1>2, <3>4, <4>3, Zenon
        <5> QED
          BY <5>2, <5>3, Zenon DEF OnTrack
      <4> QED
        BY <1>1, <3>4, <4>1, <4>2, <4>3, Zenon DEF OnTrack
    <3>5. rx'[a] = <<b>> \/ faults' >= faults + 1
      BY <1>5
    <3>6. at' = "first" /\ at' \notin {"round", "done", "sleep"}
      BY <1>6, <2>2
    <3> QED
      BY <3>1, <3>2, <3>3, <3>4, <3>5, <3>6, Zenon
  <2>3. at \in {"first", "sleep"}
    BY <1>1, <1>10 DEF TypeInv
  <2> QED
    BY <2>1, <2>2, <2>3
<1> QED
  BY <1>11, <1>12

LEMMA InitEnum == Init => EnumInv
<1> SUFFICES ASSUME Init PROVE EnumInv
  OBVIOUS
<1>1. /\ at = "round" /\ round = 0 /\ faults = 0 /\ name = <<>> /\ input = <<>>
  BY DEF Init
<1>2. Follows
  BY <1>1, Zenon DEF Follows
<1>3. Costs
  BY <1>1 DEF Costs
<1> QED
  BY <1>1, <1>2, <1>3 DEF EnumInv

\* What the modules do in the rest of the steps of the host: nothing.
LEMMA HostIsAlone ==
  ASSUME BusInv, EnumInv, Round \/ FirstReply \/ RestReply \/ Timeout \/ Sleep
  PROVE  /\ UNCHANGED <<pc, rx, tx, txc, faults, misheard>>
         /\ (Asks' <=> Asks) /\ \A n : HasSent(n)' <=> HasSent(n)
         /\ Asked \in Modules => (Speaks(Asked)' <=> Speaks(Asked)) /\ Sent' = Sent
<1>1. UNCHANGED <<pc, rx, tx, txc, faults, misheard>>
  BY DEF Round, FirstReply, RestReply, Timeout, Sleep, module, errors
<1>2. (Asked \in Modules => (Speaks(Asked)' <=> Speaks(Asked))) /\ Sent' = Sent
  BY <1>1 DEF Speaks, Sent
<1>3. (Asks' <=> Asks) /\ \A n : HasSent(n)' <=> HasSent(n)
  BY <1>1, <1>2 DEF Asks, HasSent
<1> QED
  BY <1>1, <1>2, <1>3

\* A round begins when all is quiet.
LEMMA RoundEnum == ASSUME BusInv, EnumInv, Round PROVE EnumInv'
<1>1. /\ at = "round" /\ UNCHANGED <<input, name, faults, misheard>> /\ round \in Nat
      /\ faults \in Nat /\ Quiet /\ input \in Seq(Int)
  BY BusAssumption DEF BusInv, TypeInv, Round, module, errors
<1>2. Asked \in Modules => ~Speaks(Asked) /\ rx[Asked] = <<>>
  BY <1>1 DEF Quiet, AllRead
<1>3. HasSent(0)' /\ ~Asks' /\ ~(Asked \in Modules /\ Speaks(Asked)')
  <2>1. HasSent(0)
    BY <1>2, Zenon DEF HasSent
  <2>2. ~Asks
    BY <1>2 DEF Asks
  <2> QED
    BY <1>2, <2>1, <2>2, HostIsAlone
<1>4. CASE round = Rounds
  <2>1. at' = "done" /\ UNCHANGED <<round, out>>
    BY <1>4 DEF Round
  <2>2. Follows => Follows'
    BY <1>1, <2>1 DEF Follows
  <2>3. Costs => Costs'
    BY <1>1, <2>1 DEF Costs
  <2> QED
    BY <1>1, <1>4, <2>1, <2>2, <2>3 DEF EnumInv
<1>5. CASE round # Rounds
  <2>1. /\ round' = round + 1
        /\ name = <<>> => out' = <<0, 255, Ask>> /\ at' = "first"
        /\ name # <<>> => out' = <<0, 255>> /\ at' = "sleep"
    BY <1>5 DEF Round, Ask
  <2> SUFFICES ASSUME ~misheard', Follows, Costs PROVE Follows' /\ Costs'
    BY <1>1, <2>1 DEF EnumInv
  <2>2. input' = <<>> /\ Len(input') = 0 /\ name' \in {<<>>, Name}
    BY <1>1 DEF Follows
  <2>3. CASE name = <<>>
    <3>1. out' = <<0, 255, Ask>> /\ at' = "first" /\ name' = <<>>
      BY <1>1, <2>1, <2>3
    <3>2. HasSent(Len(input))'
      <4>1. CASE Asked \in Modules
        BY <1>3, <2>2, <4>1 DEF HasSent
      <4>2. CASE Asked \notin Modules
        BY <2>2, <4>2 DEF HasSent
      <4> QED
        BY <4>1, <4>2
    <3>3. Len(input') <= 7 /\ \A k \in 1..Len(input') : input'[k] = Id(Asked)[k]
      <4>1. 0 <= 7 /\ 1..0 = {}
        OBVIOUS
      <4> QED
        BY <2>2, <4>1, Zenon
    <3>4. at' \notin {"died", "rest", "sleep", "round", "done"}
      BY <3>1
    <3>5. Follows'
      BY <2>2, <3>1, <3>2, <3>3, <3>4, Zenon DEF Follows
    <3>6. Asked \in Modules => faults' >= round' - 1
      BY <1>1, <2>1, <2>3 DEF Costs
    <3>7. OnTrack'
      BY <3>1, Zenon DEF OnTrack
    <3> QED
      BY <3>4, <3>5, <3>6, <3>7, Zenon DEF Costs
  <2>4. CASE name # <<>>
    <3>1. out' = <<0, 255>> /\ at' = "sleep" /\ name' # <<>>
      BY <1>1, <2>1, <2>4
    <3>2. at' \notin {"died", "first", "rest"}
      BY <3>1
    <3>3. out' \in {<<0, 255>>, <<255>>, <<>>}
      BY <3>1, Zenon
    <3> QED
      BY <1>3, <2>2, <3>1, <3>2, <3>3, Zenon DEF Follows, Costs
  <2> QED
    BY <2>3, <2>4
<1> QED
  BY <1>4, <1>5

\* The host takes the first byte of the reply for one.
LEMMA FirstReplyEnum == ASSUME BusInv, EnumInv, FirstReply PROVE EnumInv'
<1>1. /\ at = "first" /\ out = <<>> /\ input # <<>> /\ input' = Tail(input)
      /\ at' = AfterFirst(Head(input)) /\ r' = <<>>
      /\ UNCHANGED <<round, name, out, faults, misheard>> /\ input \in Seq(Int)
  BY DEF BusInv, TypeInv, FirstReply, errors
<1>2. at' # "done"
  BY <1>1 DEF AfterFirst
<1> SUFFICES ASSUME ~misheard', Follows, Costs PROVE Follows' /\ Costs'
  BY <1>1, <1>2 DEF EnumInv
<1>4. /\ name = <<>> /\ Len(input) <= 7 /\ HasSent(Len(input)) /\ ~Asks
      /\ \A k \in 1..Len(input) : input[k] = Id(Asked)[k]
  BY <1>1 DEF Follows
<1>5. PICK n \in Nat : Len(input) = n /\ n >= 1
  <2>1. Len(input) \in Nat /\ Len(input) # 0
    BY <1>1, EmptySeq
  <2> QED
    BY <2>1
<1>6. /\ Head(input) = input[1] /\ input' \in Seq(Int) /\ Len(input') = n - 1
      /\ \A k \in 1..(n - 1) : input'[k] = input[k + 1]
  <2>1. input \in Seq(Int) /\ input # <<>>
    BY <1>1
  <2>2. /\ Tail(input) \in Seq(Int) /\ Len(Tail(input)) = Len(input) - 1
        /\ \A k \in 1..Len(Tail(input)) : Tail(input)[k] = input[k + 1]
        /\ Head(input) = input[1]
    BY ONLY <2>1
  <2> QED
    BY <1>1, <1>5, <2>2, Zenon
<1>7. Asked \in 0..15 /\ n \in 1..7
  BY <1>4, <1>5, BusAssumption
<1>8. at' = "rest"
  <2>1. Head(input) = 112 + R4(Asked)
    <3>1. 1 \in 1..n
      BY <1>7
    <3> QED
      BY <1>4, <1>5, <1>6, <1>7, <3>1, IdBytes
  <2>2. R4(Asked) \in 0..15 /\ R4(R4(Asked)) = Asked
    BY <1>7, Reversed
  <2>3. (112 + R4(Asked)) % 16 = R4(Asked) /\ (112 + R4(Asked)) \div 16 = 7
    BY <2>2
  <2>4. Addr(Head(input)) = Asked
    BY <2>1, <2>2, <2>3 DEF Addr
  <2>5. Cmd(Head(input)) = CMD_ID
    BY <2>1, <2>3 DEF Cmd, CMD_ID
  <2>6. ~IsFinal(Head(input))
    BY <2>1, <2>2 DEF IsFinal, FIN
  <2> QED
    BY <1>1, <2>4, <2>5, <2>6 DEF AfterFirst
<1>9. /\ name' = <<>> /\ out' = <<>> /\ r' = <<>> /\ ~Asks'
      /\ at' \notin {"died", "first", "sleep", "round", "done"}
  BY <1>1, <1>4, <1>8, HostIsAlone
<1>10. HasSent(1 + Len(r) + Len(input))'
  <2>1. HasSent(n)'
    BY <1>4, <1>5, HostIsAlone, Zenon
  <2>2. Len(r') = 0 /\ 1 + 0 + (n - 1) = n
    BY <1>1, <1>7
  <2>3. 1 + Len(r') + Len(input') = n
    BY <1>6, <2>2, Zenon
  <2> QED
    BY <2>1, <2>3 DEF HasSent
<1>11. /\ Len(r') <= 5 /\ 1 + Len(r') + Len(input') <= 7
       /\ \A k \in 1..Len(r') : r'[k] = Id(Asked)[k + 1]
       /\ \A k \in 1..Len(input') : input'[k] = Id(Asked)[1 + Len(r') + k]
  <2>1. Len(r') = 0 /\ Len(input') = n - 1
    BY <1>1, <1>6
  <2>2. 0 <= 5 /\ 1 + 0 + (n - 1) <= 7 /\ 1..0 = {}
    BY <1>7
  <2>3. \A k \in 1..(n - 1) : input'[k] = Id(Asked)[1 + 0 + k]
    <3>1. \A k \in 1..(n - 1) : k + 1 \in 1..n /\ 1 + 0 + k = k + 1
      BY <1>7
    <3> QED
      BY <1>4, <1>5, <1>6, <3>1, Zenon
  <2> QED
    BY <2>1, <2>2, <2>3, Zenon
<1>12. r' \in Seq(Int)
  BY <1>1
<1>13. Follows'
  BY <1>8, <1>9, <1>10, <1>11, <1>12, Zenon DEF Follows
<1>14. Costs'
  BY <1>9, Zenon DEF Costs
<1> QED
  BY <1>13, <1>14

\* Another byte: the last of the reply makes the name.
LEMMA RestReplyEnum == ASSUME BusInv, EnumInv, RestReply PROVE EnumInv'
<1>1. /\ at = "rest" /\ input # <<>> /\ input' = Tail(input) /\ r' = Append(r, Head(input))
      /\ IF IsFinal(Head(input)) THEN name' = Stored(r') /\ at' = "sleep"
         ELSE UNCHANGED <<name, at>>
      /\ UNCHANGED <<round, out, faults, misheard>> /\ input \in Seq(Int)
  BY DEF BusInv, TypeInv, RestReply, errors
<1>2. at' # "done"
  BY <1>1
<1> SUFFICES ASSUME ~misheard', Follows, Costs PROVE Follows' /\ Costs'
  BY <1>1, <1>2 DEF EnumInv
<1>4. /\ name = <<>> /\ out = <<>> /\ ~Asks /\ r \in Seq(Int)
      /\ Len(r) <= 5 /\ 1 + Len(r) + Len(input) <= 7 /\ HasSent(1 + Len(r) + Len(input))
      /\ \A k \in 1..Len(r) : r[k] = Id(Asked)[k + 1]
      /\ \A k \in 1..Len(input) : input[k] = Id(Asked)[1 + Len(r) + k]
  BY <1>1, Zenon DEF Follows
<1>5. PICK n \in Nat : Len(input) = n /\ n >= 1
  <2>1. Len(input) \in Nat /\ Len(input) # 0
    BY <1>1, EmptySeq
  <2> QED
    BY <2>1
<1>6. PICK q \in Nat : Len(r) = q
  BY <1>4
<1>7. q <= 5 /\ 1 + q + n <= 7 /\ HasSent(1 + q + n) /\ Asked \in 0..15
  BY <1>4, <1>5, <1>6, BusAssumption
<1>8. /\ Head(input) = input[1] /\ input' \in Seq(Int) /\ Len(input') = n - 1
      /\ \A k \in 1..(n - 1) : input'[k] = input[k + 1]
  <2>1. input \in Seq(Int) /\ input # <<>>
    BY <1>1
  <2>2. /\ Tail(input) \in Seq(Int) /\ Len(Tail(input)) = Len(input) - 1
        /\ \A k \in 1..Len(Tail(input)) : Tail(input)[k] = input[k + 1]
        /\ Head(input) = input[1]
    BY ONLY <2>1
  <2> QED
    BY <1>1, <1>5, <2>2, Zenon
<1>9. Head(input) = Id(Asked)[q + 2] /\ Head(input) \in Int
  <2>1. 1 \in 1..n /\ 1 + q + 1 = q + 2 /\ q + 2 \in 1..7
    BY <1>5, <1>6, <1>7
  <2>2. input[1] = Id(Asked)[1 + q + 1]
    BY <1>4, <1>5, <1>6, <2>1, Zenon
  <2>3. Id(Asked)[q + 2] \in 0..176
    BY <1>7, <2>1, IdBytes
  <2>4. Head(input) = Id(Asked)[q + 2]
    BY <1>8, <2>1, <2>2, Zenon
  <2>5. \A x \in 0..176 : x \in Int
    OBVIOUS
  <2> QED
    BY <2>3, <2>4, <2>5, Zenon
<1>10. /\ r' \in Seq(Int) /\ Len(r') = q + 1 /\ \A k \in 1..q : r'[k] = r[k]
       /\ r'[q + 1] = Id(Asked)[q + 2]
  BY <1>1, <1>4, <1>6, <1>9, Appended
<1>11. \A k \in 1..(q + 1) : r'[k] = Id(Asked)[k + 1]
  <2>1. \A k \in 1..(q + 1) : k \in 1..q \/ (k = q + 1 /\ k + 1 = q + 2)
    BY <1>6
  <2> QED
    BY <1>4, <1>6, <1>10, <2>1, Zenon
<1>12. IsFinal(Head(input)) <=> q = 5
  <2>1. q = 5 \/ q + 2 \in 2..6
    BY <1>6, <1>7
  <2>2. q = 5 => Id(Asked)[q + 2] = 176
    <3>1. q = 5 => q + 2 = 7
      OBVIOUS
    <3>2. Id(Asked)[7] = 176
      BY <1>7, IdBytes, ZenonT(30)
    <3> QED
      BY <3>1, <3>2, Zenon
  <2>3. q + 2 \in 2..6 => Id(Asked)[q + 2] < 128
    BY <1>7, IdBytes
  <2>4. q + 2 \in 2..6 => q # 5
    BY <1>6
  <2>5. Id(Asked)[q + 2] \in Int
    BY <1>9
  <2>6. Head(input) >= 128 <=> q = 5
    BY <1>9, <2>1, <2>2, <2>3, <2>4, <2>5
  <2> QED
    BY <2>6 DEF IsFinal, FIN
<1>13. CASE q = 5
  <2>1. name' = Stored(r') /\ at' = "sleep" /\ out' = <<>> /\ ~Asks'
    BY <1>1, <1>4, <1>12, <1>13, HostIsAlone
  <2>2. n = 1 /\ 1 + q + n = 7
    BY <1>5, <1>7, <1>13
  <2>3. input' = <<>>
    <3>1. Len(input') = 0 /\ input' \in Seq(Int)
      BY <1>8, <2>2
    <3> QED
      BY ONLY <3>1, EmptySeq
  <2>4. name' = Name
    <3>1. /\ r'[1] = 84 /\ r'[2] = 56 /\ r'[3] = 53 /\ r'[4] = 77 /\ r'[5] = 48 /\ r'[6] = 176
      <4>1. /\ r'[1] = Id(Asked)[2] /\ r'[2] = Id(Asked)[3] /\ r'[3] = Id(Asked)[4]
            /\ r'[4] = Id(Asked)[5] /\ r'[5] = Id(Asked)[6] /\ r'[6] = Id(Asked)[7]
        BY <1>11, <1>13
      <4> QED
        BY <1>7, <4>1, IdBytes, ZenonT(30)
    <3>2. DOMAIN r' = 1..6 /\ Len(r') = 6
      BY <1>10, <1>13
    <3>3. name' = [k \in 1..6 |-> IF k = 6 THEN r'[k] % 128 ELSE r'[k]]
      BY <2>1, <3>2 DEF Stored
    <3>4. 176 % 128 = 48
      OBVIOUS
    <3>5. /\ name'[1] = 84 /\ name'[2] = 56 /\ name'[3] = 53 /\ name'[4] = 77 /\ name'[5] = 48
          /\ name'[6] = 48
      BY <3>1, <3>3, <3>4
    <3>6. name' \in Seq(Int) /\ Len(name') = 6
      BY <3>1, <3>3, <3>5
    <3> QED
      BY <3>5, <3>6 DEF Name
  <2>5. Asked \in Modules /\ Speaks(Asked)' => Sent' = 7
    <3>1. HasSent(7)
      BY <1>7, <2>2
    <3>2. Asked \in Modules /\ Speaks(Asked) => Sent = 7
      BY <3>1 DEF HasSent
    <3> QED
      BY <3>2, HostIsAlone
  <2>6. name' # <<>> /\ name' \in {<<>>, Name} /\ out' \in {<<0, 255>>, <<255>>, <<>>}
    <3>1. Name # <<>>
      BY DEF Name
    <3> QED
      BY <2>1, <2>4, <3>1, Zenon
  <2>7. at' \notin {"died", "first", "rest"}
    BY <2>1
  <2> QED
    BY <2>1, <2>3, <2>5, <2>6, <2>7, Zenon DEF Follows, Costs
<1>14. CASE q # 5
  <2>1. name' = <<>> /\ at' = "rest" /\ out' = <<>> /\ ~Asks'
    BY <1>1, <1>4, <1>12, <1>14, HostIsAlone
  <2>2. q + 1 <= 5 /\ 1 + (q + 1) + (n - 1) = 1 + q + n /\ 1 + (q + 1) + (n - 1) <= 7
    BY <1>5, <1>6, <1>7, <1>14
  <2>3. HasSent(1 + Len(r) + Len(input))'
    <3>1. HasSent(1 + q + n)'
      BY <1>7, HostIsAlone
    <3>2. 1 + Len(r') + Len(input') = 1 + q + n
      BY <1>8, <1>10, <2>2, Zenon
    <3> QED
      BY <3>1, <3>2 DEF HasSent
  <2>4. /\ Len(r') <= 5 /\ 1 + Len(r') + Len(input') <= 7
        /\ \A k \in 1..Len(r') : r'[k] = Id(Asked)[k + 1]
    BY <1>8, <1>10, <1>11, <2>2, Zenon
  <2>5. \A k \in 1..Len(input') : input'[k] = Id(Asked)[1 + Len(r') + k]
    <3>1. \A k \in 1..(n - 1) : k + 1 \in 1..n /\ 1 + q + (k + 1) = 1 + (q + 1) + k
      BY <1>5, <1>6
    <3>2. \A k \in 1..(n - 1) : input'[k] = Id(Asked)[1 + (q + 1) + k]
      BY <1>4, <1>5, <1>6, <1>8, <3>1, Zenon
    <3> QED
      BY <1>8, <1>10, <3>2, Zenon
  <2>6. at' \notin {"died", "first", "sleep", "round", "done"}
    BY <2>1
  <2>7. name' \in {<<>>, Name}
    BY <2>1
  <2> QED
    BY <1>10, <2>1, <2>3, <2>4, <2>5, <2>6, <2>7, Zenon DEF Follows, Costs
<1> QED
  BY <1>13, <1>14

\* No byte comes: the module has not answered, and some byte was heard badly.
LEMMA TimeoutEnum == ASSUME BusInv, EnumInv, Timeout PROVE EnumInv'
<1>1. /\ Quiet /\ input = <<>> /\ UNCHANGED <<round, r, out, input, faults, misheard>>
      /\ \/ at = "first" /\ at' = "sleep" /\ name' = name
         \/ at = "rest" /\ at' \in {"sleep", "died"}
  BY DEF Timeout, errors
<1>2. out = <<>> /\ (Asked \in Modules => ~Speaks(Asked) /\ rx[Asked] = <<>>)
  BY <1>1 DEF Quiet, AllRead
<1> SUFFICES ASSUME ~misheard', Follows, Costs PROVE Follows' /\ Costs'
  BY <1>1 DEF EnumInv
<1>4. at = "first"
  <2> SUFFICES ASSUME at = "rest" PROVE FALSE
    BY <1>1
  <2>1. r \in Seq(Int) /\ Len(r) <= 5 /\ HasSent(1 + Len(r) + Len(input))
    BY DEF Follows
  <2>2. PICK q \in Nat : Len(r) = q
    BY <2>1
  <2>3. Len(input) = 0 /\ q <= 5 /\ 1 + q + 0 # 0 /\ 1 + q + 0 # 7
    BY <1>1, <2>1, <2>2
  <2>4. HasSent(1 + q + 0)
    BY <2>1, <2>2, <2>3, Zenon
  <2> QED
    BY <1>2, <2>3, <2>4 DEF HasSent
<1>5. at' = "sleep" /\ name' = name /\ name \in {<<>>, Name} /\ at' \notin {"died", "first", "rest"}
  BY <1>1, <1>4 DEF Follows
<1>6. ~Asks' /\ ~(Asked \in Modules /\ Speaks(Asked)')
  <2>1. ~Asks
    BY <1>2 DEF Asks
  <2> QED
    BY <1>2, <2>1, HostIsAlone
<1>7. Follows'
  <2>1. out' \in {<<0, 255>>, <<255>>, <<>>} /\ input' = <<>>
    BY <1>1, <1>2
  <2> QED
    BY <1>5, <1>6, <2>1, Zenon DEF Follows
<1>8. Asked \in Modules /\ name = <<>> => faults >= round
  <2> SUFFICES ASSUME Asked \in Modules, name = <<>> PROVE faults >= round
    OBVIOUS
  <2>1. ~OnTrack
    <3>1. rx[Asked] # <<Ask>>
      <4>1. <<Ask>> # <<>>
        OBVIOUS
      <4> QED
        BY <1>2, <4>1, Zenon
    <3>2. out # <<0, 255, Ask>> /\ out # <<255, Ask>> /\ out # <<Ask>>
      BY <1>2
    <3> QED
      BY <1>1, <1>2, <3>1, <3>2, Zenon DEF OnTrack
  <2> QED
    BY <1>4, <2>1 DEF Costs
<1>9. Costs'
  BY <1>1, <1>5, <1>8, Zenon DEF Costs
<1> QED
  BY <1>7, <1>9

LEMMA SleepEnum == ASSUME BusInv, EnumInv, Sleep PROVE EnumInv'
<1>1. /\ at = "sleep" /\ at' = "round" /\ UNCHANGED <<round, r, name, out, input, faults, misheard>>
  BY DEF Sleep, errors
<1>2. Follows => Follows'
  BY <1>1, Zenon DEF Follows
<1>3. Costs => Costs'
  BY <1>1, Zenon DEF Costs
<1> QED
  BY <1>1, <1>2, <1>3 DEF EnumInv

LEMMA NextEnum == ASSUME BusInv, EnumInv, [Next]_vars PROVE EnumInv'
<1>1. CASE UNCHANGED vars
  BY <1>1, SameEnum DEF vars, module, host, errors
<1>2. CASE Round \/ FirstReply \/ RestReply \/ Timeout \/ Sleep
  BY <1>2, RoundEnum, FirstReplyEnum, RestReplyEnum, TimeoutEnum, SleepEnum
<1>3. CASE HostSends
  BY <1>3, HostSendsEnum
<1>4. ASSUME NEW m \in Modules, Module(m) PROVE EnumInv'
  <2>1. CASE m # Asked
    BY <1>4, <2>1, OthersEnum
  <2>2. CASE m = Asked
    BY <1>4, <2>2, ListeningEnum, CommandEnum, SentByteEnum, ModuleSendsEnum DEF Module
  <2> QED
    BY <2>1, <2>2
<1> QED
  BY <1>1, <1>2, <1>3, <1>4 DEF Next, Host

\* There are not enough faults for each round to have had one.
LEMMA FoundAtLast == ASSUME Faults < Rounds, BusInv, EnumInv PROVE Enumerated
<1>1. /\ faults \in 0..Faults /\ Faults \in Nat /\ Rounds \in Nat
      /\ round \in 0..Rounds
  BY BusAssumption DEF BusInv, TypeInv
<1> SUFFICES ASSUME ~misheard
             PROVE  /\ name \in {<<>>, Name}
                    /\ at \in {"done", "died"} /\ Asked \in Modules => at = "done" /\ name = Name
  BY DEF Enumerated
<1>2. Follows /\ Costs /\ (at = "done" => round = Rounds)
  BY DEF EnumInv
<1>3. name \in {<<>>, Name} /\ at # "died"
  BY <1>2 DEF Follows
<1>4. ASSUME at = "done", Asked \in Modules PROVE name # <<>>
  <2>1. round = Rounds
    BY <1>2, <1>4
  <2>2. ~(faults >= round)
    BY <1>1, <2>1
  <2> QED
    BY <1>2, <1>4, <2>2 DEF Costs
<1> QED
  BY <1>3, <1>4

\* With fewer bytes heard badly than rounds, none of them by the host, the
\* module is found, under its own name and no other.
THEOREM AskedIsFound == ASSUME Faults < Rounds PROVE Spec => []Enumerated
<1>1. Init => BusInv /\ EnumInv
  BY InitBus, InitEnum
<1>2. BusInv /\ EnumInv /\ [Next]_vars => (BusInv /\ EnumInv)'
  BY NextBus, NextEnum
<1>3. BusInv /\ EnumInv => Enumerated
  BY FoundAtLast
<1> QED
  BY <1>1, <1>2, <1>3, PTL DEF Spec
=============================================================================
