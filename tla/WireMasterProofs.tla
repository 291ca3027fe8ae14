-------------------------- MODULE WireMasterProofs --------------------------
(***************************************************************************)
(* The I2C master, for transfers of any length, any speeds and any rise    *)
(* time, with a slave that answers or does not, another master, and a      *)
(* timeout at any wait of any earlier call.                                *)
(***************************************************************************)
EXTENDS WireMaster, SequenceTheorems, TLAPS

Reads == {"readBytes", "readRegisterData"}
Kinds == {"address", "byte", "addressRead", "nextByte", "lastByte", "stop", "restart", "busIdle",
          "nack", "waitIdle", "disable", "setBaud", "forceIdle", "clock", "softReset"}
Steps == [do : Kinds, v : Nat]

-----------------------------------------------------------------------------
(* Scripts, counted from their end.                                        *)

\* The i-th byte of a read of n.
ReadStep(n, i) == Step(IF i = n THEN "lastByte" ELSE "nextByte", i)

\* The steps of a call, and the one that has k steps behind it.
Length(c) ==
    CASE c.op \in {"writeBegin", "writeByte", "writeEndAndStop", "writeEndAndStart", "reset"} -> 1
      [] c.op = "initialize" -> 2
      [] c.op = "setSpeed" -> 4
      [] c.op = "writeBytes" -> c.n + 2
      [] c.op = "readBytes" -> c.n + 1
      [] c.op = "readRegisterData" -> IF c.n = 0 THEN 4 ELSE c.n + 3

StepAt(c, k) ==
    CASE c.op = "writeBegin" -> Step("address", 0)
      [] c.op = "writeByte" -> Step("byte", 1)
      [] c.op = "writeEndAndStop" -> Step("stop", 0)
      [] c.op = "writeEndAndStart" -> Step("restart", 0)
      [] c.op = "reset" -> Step("softReset", 0)
      [] c.op = "initialize" -> IF k = 0 THEN Step("softReset", 0) ELSE Step("clock", 0)
      [] c.op = "setSpeed" -> IF k = 0 THEN Step("forceIdle", c.n)
                              ELSE IF k = 1 THEN Step("setBaud", c.n)
                              ELSE IF k = 2 THEN Step("disable", 0) ELSE Step("waitIdle", 0)
      [] c.op = "writeBytes" -> IF k = 0 THEN Step("stop", 0)
                                ELSE IF k <= c.n THEN Step("byte", c.n + 1 - k)
                                ELSE Step("address", 0)
      [] c.op = "readBytes" -> IF k < c.n THEN ReadStep(c.n, c.n - k)
                               ELSE Step("addressRead", 0)
      [] c.op = "readRegisterData" ->
            IF c.n = 0 /\ k = 0 THEN Step("busIdle", 0)
            ELSE IF k < c.n THEN ReadStep(c.n, c.n - k)
            ELSE IF k = Length(c) - 1 THEN Step("address", 0)
            ELSE IF k = Length(c) - 2 THEN Step("byte", 1)
            ELSE Step("addressRead", 0)

\* A script that has not left its call: its end is the end of the call's.
Regular ==
    /\ call \in Calls /\ ~Refused(call)
    /\ Len(script) <= Length(call)
    /\ \A i \in 1 .. Len(script) : script[i] = StepAt(call, Len(script) - i)

\* Behind the last byte of a read, and behind a write without an acknowledge.
Closing == call.op \in Reads /\ call \in Calls /\ script = <<Step("stop", 0)>> /\ waiting
Nacked == Len(script) = 1 /\ Head(script).do = "nack" /\ waiting /\ stopped

ScriptInv ==
    /\ script \in Seq(Steps)
    /\ status = "running" <=> script # <<>>
    /\ script # <<>> => Regular \/ Closing \/ Nacked
    /\ waiting => script # <<>>

-----------------------------------------------------------------------------
(* What a step has achieved when its flag comes.                           *)

Done == doing.do = "nothing"
Asked == doing.do = Head(script).do /\ doing.v = Head(script).v
Ending == doing.do \in {"stop", "nothing"}
V == Head(script).v

\* A flag belongs to the step that waits for it, whatever a call that timed out
\* has left the SERCOM doing.
FlagInv ==
    waiting /\ (At("address") \/ At("byte")) => (mb => Done) /\ (~mb => Asked)

WriteInv ==
    call.op = "writeBytes" =>
        /\ At("address") /\ waiting /\ mb /\ ~rxnack => got = OneTo(0)
        /\ At("byte") => /\ ~waiting => Done
                         /\ ~(waiting /\ mb) => got = OneTo(V - 1)
                         /\ waiting /\ mb /\ ~rxnack => got = OneTo(V)
        /\ At("stop") \/ status = "Success" => got = OneTo(call.n) /\ Ending

ReadInv ==
    call.op \in Reads =>
        /\ At("address") \/ At("byte") \/ At("addressRead") => data = OneTo(0)
        /\ At("addressRead") /\ waiting =>
              /\ busState = "owner"
              /\ \/ Asked /\ ~mb /\ ~sb
                 \/ Done /\ (sb => sent = 1)
        /\ At("busIdle") => busState = "owner" /\ Done
        /\ At("nextByte") \/ At("lastByte") =>
              /\ data = OneTo(V - 1)
              /\ V = 1 => ~waiting /\ sent = 1 /\ Done
              /\ V # 1 /\ ~waiting => sent = V - 1 /\ Done
              /\ V # 1 /\ waiting => \/ doing.do = "nextByte" /\ ~sb /\ sent = V - 1
                                     \/ Done /\ sent = V
        /\ At("stop") \/ status = "Success" =>
              data = OneTo(call.n) /\ sent = call.n /\ stopped /\ Ending

\* setSpeed() leaves register and frequency different only while it runs.
SpeedInv ==
    /\ frequencyHz \in Speeds
    /\ ~unsure => \/ At("setBaud")
                  \/ At("forceIdle") /\ enabled /\ baud = Baud(V)
                  \/ ~At("forceIdle") /\ enabled /\ baud = Baud(frequencyHz)

IInv == ScriptInv /\ FlagInv /\ WriteInv /\ ReadInv /\ WriteReleases /\ SpeedInv

-----------------------------------------------------------------------------
(* Lemmas about scripts.                                                   *)

Ops == {"writeBytes", "readBytes", "readRegisterData", "writeByte", "writeEndAndStop",
        "writeEndAndStart", "setSpeed", "reset", "initialize", "writeBegin"}

LEMMA CallTypes ==
    ASSUME NEW c \in Calls
    PROVE  /\ c.op \in Ops /\ c.n \in Nat
           /\ c.op \in {"writeBytes", "readBytes"} /\ ~Refused(c) => c.n >= 1
           /\ c.op \in {"writeBytes", "readBytes", "readRegisterData"} => c.n <= MaxCount
           /\ c.op = "setSpeed" => c.n \in Speeds
           /\ Length(c) \in Nat \ {0}
           /\ c \in Parts <=> c.op \in {"writeByte", "writeEndAndStop", "writeEndAndStart"}
<1>1. c.op \in Ops /\ c.n \in Nat
  BY WireAssumption DEF Calls, Transfers, Parts, Setups, Call, Ops
<1>2. /\ c.op \in {"writeBytes", "readBytes", "readRegisterData"} => c.n <= MaxCount
      /\ c.op = "setSpeed" => c.n \in Speeds
  BY WireAssumption DEF Calls, Transfers, Parts, Setups, Call
<1>3. c \in Parts <=> c.op \in {"writeByte", "writeEndAndStop", "writeEndAndStart"}
  BY DEF Calls, Transfers, Parts, Setups, Call
<1> QED
  BY <1>1, <1>2, <1>3 DEF Refused, Ops, Length

\* What comes behind a step, and which step is the last.
Follows(c, s, t) ==
    /\ s.do \in {"address", "byte", "addressRead", "nextByte", "waitIdle", "disable", "setBaud",
                 "clock"}
    /\ s.do = "address" => t = Step("byte", 1)
    /\ s.do = "byte" =>
          \/ /\ c.op = "writeBytes"
             /\ t = IF s.v = c.n THEN Step("stop", 0) ELSE Step("byte", s.v + 1)
          \/ c.op = "readRegisterData" /\ t = Step("addressRead", 0)
    /\ s.do = "addressRead" =>
          c.op \in Reads /\ t = IF c.n = 0 THEN Step("busIdle", 0) ELSE ReadStep(c.n, 1)
    /\ s.do = "nextByte" => c.op \in Reads /\ t = ReadStep(c.n, s.v + 1)
    /\ s.do = "waitIdle" => t.do = "disable"
    /\ s.do = "disable" => t.do = "setBaud"
    /\ s.do = "setBaud" => t = Step("forceIdle", s.v)
    /\ s.do = "clock" => t.do = "softReset"

LastIs(c, s) ==
    \/ c.op \notin {"writeBytes", "readBytes", "readRegisterData", "setSpeed"}
          /\ s.do \in {"address", "byte", "stop", "restart", "softReset"}
    \/ c.op = "writeBytes" /\ s = Step("stop", 0)
    \/ c.op \in Reads /\ c.n > 0 /\ s = Step("lastByte", c.n)
    \/ c.op \in Reads /\ c.n = 0 /\ s = Step("busIdle", 0)
    \/ c.op = "setSpeed" /\ s = Step("forceIdle", c.n)

LEMMA StepFollows ==
    ASSUME NEW c \in Calls, ~Refused(c), NEW k \in 1 .. Length(c) - 1
    PROVE  Follows(c, StepAt(c, k), StepAt(c, k - 1))
<1>1. /\ c.op \in Ops /\ c.n \in Nat /\ k \in Nat /\ k >= 1 /\ k <= Length(c) - 1
      /\ c.op \in {"writeBytes", "readBytes"} => c.n >= 1
  BY CallTypes
<1> USE <1>1 DEF Follows, StepAt, Step, ReadStep, Length, Reads
<1>2. CASE c.op = "writeBytes"
  BY <1>2
<1>3. CASE c.op = "readBytes"
  BY <1>3
<1>4. CASE c.op = "readRegisterData"
  <2>1. CASE c.n = 0
    <3>1. k \in {1, 2, 3}
      BY <1>4, <2>1
    <3> QED
      BY <1>4, <2>1, <3>1
  <2>2. CASE c.n # 0 /\ k < c.n
    <3>1. StepAt(c, k) = Step("nextByte", c.n - k) /\ StepAt(c, k - 1) = ReadStep(c.n, c.n - k + 1)
      BY <1>4, <2>2
    <3> QED
      BY <1>4, <3>1
  <2>3. CASE c.n # 0 /\ k = c.n
    <3>1. StepAt(c, k) = Step("addressRead", 0) /\ StepAt(c, k - 1) = ReadStep(c.n, 1)
      BY <1>4, <2>3
    <3> QED
      BY <1>4, <2>3, <3>1
  <2>4. CASE c.n # 0 /\ k = c.n + 1
    <3>1. StepAt(c, k) = Step("byte", 1) /\ StepAt(c, k - 1) = Step("addressRead", 0)
      BY <1>4, <2>4
    <3> QED
      BY <1>4, <3>1
  <2>5. CASE c.n # 0 /\ k = c.n + 2
    <3>1. StepAt(c, k) = Step("address", 0) /\ StepAt(c, k - 1) = Step("byte", 1)
      BY <1>4, <2>5
    <3> QED
      BY <1>4, <3>1
  <2> QED
    BY <1>4, <2>1, <2>2, <2>3, <2>4, <2>5
<1>5. CASE c.op = "initialize"
  BY <1>5
<1>6. CASE c.op = "setSpeed"
  <2>1. k \in {1, 2, 3}
    BY <1>6
  <2> QED
    BY <1>6, <2>1
<1>7. CASE c.op \in {"writeBegin", "writeByte", "writeEndAndStop", "writeEndAndStart", "reset"}
  <2>1. Length(c) = 1
    BY <1>7
  <2> HIDE DEF Length
  <2>2. FALSE
    BY <1>1, <2>1
  <2> QED
    BY <2>2
<1> QED
  BY <1>2, <1>3, <1>4, <1>5, <1>6, <1>7 DEF Ops

LEMMA StepLast ==
    ASSUME NEW c \in Calls, ~Refused(c)
    PROVE  LastIs(c, StepAt(c, 0))
<1>1. /\ c.op \in Ops /\ c.n \in Nat
      /\ c.op \in {"writeBytes", "readBytes"} => c.n >= 1
  BY CallTypes
<1> QED
  BY <1>1 DEF LastIs, StepAt, Step, ReadStep, Length, Reads, Ops

LEMMA StepIn == \A d \in Kinds, v \in Nat : Step(d, v) \in Steps
BY DEF Step, Steps

LEMMA StepTypes ==
    ASSUME NEW c \in Calls, ~Refused(c), NEW k \in 0 .. Length(c) - 1
    PROVE  StepAt(c, k) \in Steps
<1>1. /\ c.op \in Ops /\ c.n \in Nat /\ k \in Nat /\ k <= Length(c) - 1
      /\ c.op \in {"writeBytes", "readBytes"} => c.n >= 1
  BY CallTypes
<1> USE <1>1, StepIn DEF StepAt, ReadStep, Length, Kinds
<1>2. CASE c.op = "writeBytes"
  BY <1>2
<1>3. CASE c.op = "readBytes"
  BY <1>3
<1>4. CASE c.op = "readRegisterData"
  BY <1>4
<1>5. CASE c.op \notin {"writeBytes", "readBytes", "readRegisterData"}
  BY <1>5 DEF Ops
<1> QED
  BY <1>2, <1>3, <1>4, <1>5

\* The script of a call is what StepAt says.
IsScript(c, s) ==
    /\ s \in Seq(Steps) /\ Len(s) = Length(c)
    /\ \A i \in 1 .. Length(c) : s[i] = StepAt(c, Length(c) - i)

LEMMA Concat ==
    \A s, t \in Seq(Steps) :
        /\ s \o t \in Seq(Steps) /\ Len(s \o t) = Len(s) + Len(t)
        /\ Len(s) \in Nat /\ Len(t) \in Nat
        /\ \A i \in 1 .. Len(s) : (s \o t)[i] = s[i]
        /\ \A i \in 1 .. Len(t) : (s \o t)[Len(s) + i] = t[i]
<1> SUFFICES ASSUME NEW s \in Seq(Steps), NEW t \in Seq(Steps)
             PROVE  /\ s \o t \in Seq(Steps) /\ Len(s \o t) = Len(s) + Len(t)
                    /\ Len(s) \in Nat /\ Len(t) \in Nat
                    /\ \A i \in 1 .. Len(s) : (s \o t)[i] = s[i]
                    /\ \A i \in 1 .. Len(t) : (s \o t)[Len(s) + i] = t[i]
  OBVIOUS
<1>1. Len(s) \in Nat /\ Len(t) \in Nat
  BY LenProperties
<1>2. /\ s \o t \in Seq(Steps) /\ Len(s \o t) = Len(s) + Len(t)
      /\ \A i \in 1 .. Len(s) + Len(t) : (s \o t)[i] = IF i <= Len(s) THEN s[i] ELSE t[i - Len(s)]
  BY ConcatProperties
<1>3. \A i \in 1 .. Len(t) : (s \o t)[Len(s) + i] = t[i]
  <2> TAKE i \in 1 .. Len(t)
  <2>1. /\ Len(s) + i \in 1 .. Len(s) + Len(t) /\ ~(Len(s) + i <= Len(s))
        /\ Len(s) + i - Len(s) = i
    BY <1>1
  <2> QED
    BY <1>2, <2>1
<1> QED
  BY <1>1, <1>2, <1>3

LEMMA Cons ==
    \A s, t \in Seq(Steps), n \in Nat : Len(s) = 1 /\ Len(t) = n =>
        /\ s \o t \in Seq(Steps) /\ Len(s \o t) = n + 1
        /\ (s \o t)[1] = s[1]
        /\ \A i \in 1 .. n : (s \o t)[i + 1] = t[i]
<1> SUFFICES ASSUME NEW s \in Seq(Steps), NEW t \in Seq(Steps), NEW n \in Nat,
                    Len(s) = 1, Len(t) = n
             PROVE  /\ s \o t \in Seq(Steps) /\ Len(s \o t) = n + 1
                    /\ (s \o t)[1] = s[1]
                    /\ \A i \in 1 .. n : (s \o t)[i + 1] = t[i]
  OBVIOUS
<1> DEFINE st == s \o t
<1>1. /\ st \in Seq(Steps) /\ Len(st) = Len(s) + Len(t)
      /\ \A i \in 1 .. Len(s) : st[i] = s[i]
      /\ \A i \in 1 .. Len(t) : st[Len(s) + i] = t[i]
  BY Concat, Zenon
<1> HIDE DEF st
<1>2. /\ st \in Seq(Steps) /\ Len(st) = n + 1 /\ st[1] = s[1]
      /\ \A i \in 1 .. n : st[i + 1] = t[i]
  BY <1>1
<1> QED
  BY <1>2 DEF st

LEMMA Snoc ==
    \A s, t \in Seq(Steps), n \in Nat : Len(s) = 1 /\ Len(t) = n =>
        /\ t \o s \in Seq(Steps) /\ Len(t \o s) = n + 1
        /\ (t \o s)[n + 1] = s[1]
        /\ \A i \in 1 .. n : (t \o s)[i] = t[i]
<1> SUFFICES ASSUME NEW s \in Seq(Steps), NEW t \in Seq(Steps), NEW n \in Nat,
                    Len(s) = 1, Len(t) = n
             PROVE  /\ t \o s \in Seq(Steps) /\ Len(t \o s) = n + 1
                    /\ (t \o s)[n + 1] = s[1]
                    /\ \A i \in 1 .. n : (t \o s)[i] = t[i]
  OBVIOUS
<1> DEFINE ts == t \o s
<1>1. /\ ts \in Seq(Steps) /\ Len(ts) = Len(t) + Len(s)
      /\ \A i \in 1 .. Len(t) : ts[i] = t[i]
      /\ \A i \in 1 .. Len(s) : ts[Len(t) + i] = s[i]
  BY Concat, Zenon
<1> HIDE DEF ts
<1>2. /\ ts \in Seq(Steps) /\ Len(ts) = n + 1 /\ ts[n + 1] = s[1]
      /\ \A i \in 1 .. n : ts[i] = t[i]
  BY <1>1
<1> QED
  BY <1>2 DEF ts

LEMMA OneStep ==
    \A k \in Kinds, v \in Nat :
        /\ <<Step(k, v)>> \in Seq(Steps) /\ Len(<<Step(k, v)>>) = 1
        /\ <<Step(k, v)>>[1] = Step(k, v)
BY StepIn

LEMMA ReadingSteps ==
    \A n \in Nat :
        /\ Reading(n) \in Seq(Steps)
        /\ Len(Reading(n)) = IF n = 0 THEN 2 ELSE n + 1
        /\ Reading(n)[1] = Step("addressRead", 0)
        /\ n = 0 => Reading(n)[2] = Step("busIdle", 0)
        /\ \A i \in 1 .. n : Reading(n)[i + 1] = ReadStep(n, i)
<1> TAKE n \in Nat
<1> DEFINE first == <<Step("addressRead", 0)>>
<1>1. first \in Seq(Steps) /\ Len(first) = 1 /\ first[1] = Step("addressRead", 0)
  BY OneStep DEF Kinds
<1>2. CASE n = 0
  <2> DEFINE idle == <<Step("busIdle", 0)>>
  <2> DEFINE whole == first \o idle
  <2>1. Reading(n) = whole
    BY <1>2 DEF Reading
  <2>2. idle \in Seq(Steps) /\ Len(idle) = 1 /\ idle[1] = Step("busIdle", 0)
    BY OneStep DEF Kinds
  <2>3. 1 \in Nat /\ 1 \in 1 .. 1 /\ 1 + 1 = 2
    OBVIOUS
  <2> HIDE DEF first, idle
  <2>4. /\ whole \in Seq(Steps) /\ Len(whole) = 1 + 1 /\ whole[1] = first[1]
        /\ \A i \in 1 .. 1 : whole[i + 1] = idle[i]
    BY <1>1, <2>2, <2>3, Cons, Zenon
  <2> HIDE DEF whole
  <2>5. whole \in Seq(Steps) /\ Len(whole) = 2 /\ whole[2] = Step("busIdle", 0)
    BY <2>2, <2>4
  <2> QED
    BY <1>1, <1>2, <2>1, <2>4, <2>5
<1>3. CASE n # 0
  <2> DEFINE bytes == [i \in 1 .. n |-> ReadStep(n, i)]
  <2> DEFINE whole == first \o bytes
  <2>1. Reading(n) = whole
    BY <1>3 DEF Reading, ReadStep
  <2>2. \A i \in 1 .. n : ReadStep(n, i) \in Steps
    BY StepIn DEF Kinds, ReadStep
  <2>3. bytes \in Seq(Steps) /\ Len(bytes) = n
    BY <2>2, IsASeq
  <2>4. \A i \in 1 .. n : bytes[i] = ReadStep(n, i)
    OBVIOUS
  <2> HIDE DEF first, bytes
  <2>5. /\ whole \in Seq(Steps) /\ Len(whole) = n + 1 /\ whole[1] = first[1]
        /\ \A i \in 1 .. n : whole[i + 1] = bytes[i]
    BY <1>1, <2>3, Cons, Zenon
  <2> HIDE DEF whole
  <2>6. \A i \in 1 .. n : whole[i + 1] = ReadStep(n, i)
    BY <2>4, <2>5
  <2> QED
    BY <1>1, <1>3, <2>1, <2>5, <2>6
<1> QED
  BY <1>2, <1>3

LEMMA ByteSteps ==
    \A n \in Nat :
        /\ Bytes(n) \in Seq(Steps) /\ Len(Bytes(n)) = n
        /\ \A i \in 1 .. n : Bytes(n)[i] = Step("byte", i)
<1> TAKE n \in Nat
<1>1. \A i \in 1 .. n : Step("byte", i) \in Steps
  BY StepIn DEF Kinds
<1> QED
  BY <1>1, IsASeq DEF Bytes

\* A write with all its bytes behind the address.
LEMMA WritingSteps ==
    \A n \in Nat :
        /\ <<Step("address", 0)>> \o Bytes(n) \in Seq(Steps)
        /\ Len(<<Step("address", 0)>> \o Bytes(n)) = n + 1
        /\ (<<Step("address", 0)>> \o Bytes(n))[1] = Step("address", 0)
        /\ \A i \in 1 .. n : (<<Step("address", 0)>> \o Bytes(n))[i + 1] = Step("byte", i)
<1> TAKE n \in Nat
<1> DEFINE first == <<Step("address", 0)>>
           whole == first \o Bytes(n)
<1>1. first \in Seq(Steps) /\ Len(first) = 1 /\ first[1] = Step("address", 0)
  BY OneStep DEF Kinds
<1>2. /\ Bytes(n) \in Seq(Steps) /\ Len(Bytes(n)) = n
      /\ \A i \in 1 .. n : Bytes(n)[i] = Step("byte", i)
  BY ByteSteps
<1> HIDE DEF first
<1>3. /\ whole \in Seq(Steps) /\ Len(whole) = n + 1 /\ whole[1] = first[1]
      /\ \A i \in 1 .. n : whole[i + 1] = Bytes(n)[i]
  BY <1>1, <1>2, Cons, Zenon
<1> HIDE DEF whole
<1>4. \A i \in 1 .. n : whole[i + 1] = Step("byte", i)
  BY <1>2, <1>3
<1> QED
  BY <1>1, <1>3, <1>4 DEF whole, first

LEMMA ScriptShape ==
    ASSUME NEW c \in Calls, ~Refused(c), c.op = "setSpeed" => c.n # frequencyHz
    PROVE  IsScript(c, Script(c))
<1>1. /\ c.op \in Ops /\ c.n \in Nat
      /\ c.op \in {"writeBytes", "readBytes"} => c.n >= 1
  BY CallTypes
<1>2. CASE c.op \in {"writeBegin", "writeEndAndStop", "writeEndAndStart", "reset"}
  <2>1. /\ Length(c) = 1
        /\ \E k \in Kinds : Script(c) = <<Step(k, 0)>> /\ StepAt(c, 0) = Step(k, 0)
    BY <1>2 DEF Script, StepAt, Length, Kinds
  <2> QED
    BY <2>1, OneStep DEF IsScript
<1>3. CASE c.op = "writeByte"
  <2>1. Length(c) = 1 /\ Script(c) = Bytes(1) /\ StepAt(c, 0) = Step("byte", 1)
    BY <1>3 DEF Script, StepAt, Length
  <2>2. 1 \in Nat /\ 1 \in 1 .. 1
    OBVIOUS
  <2>3. Bytes(1) \in Seq(Steps) /\ Len(Bytes(1)) = 1 /\ Bytes(1)[1] = Step("byte", 1)
    BY <2>2, ByteSteps, Zenon
  <2>4. ASSUME NEW i \in 1 .. Length(c) PROVE Script(c)[i] = StepAt(c, Length(c) - i)
    <3>1. i = 1 /\ Length(c) - i = 0
      BY <2>1
    <3> QED
      BY <2>1, <2>3, <3>1
  <2> QED
    BY <2>1, <2>3, <2>4 DEF IsScript
<1>4. CASE c.op = "initialize"
  <2>1. Script(c) = <<Step("clock", 0), Step("softReset", 0)>> /\ Length(c) = 2
    BY <1>4 DEF Script, Length
  <2>2. StepAt(c, 0) = Step("softReset", 0) /\ StepAt(c, 1) = Step("clock", 0)
    BY <1>4 DEF StepAt
  <2> QED
    BY <2>1, <2>2, StepIn DEF IsScript, Kinds
<1>5. CASE c.op = "setSpeed"
  <2>1. /\ Script(c) = <<Step("waitIdle", 0), Step("disable", 0), Step("setBaud", c.n),
                        Step("forceIdle", c.n)>>
        /\ Length(c) = 4
    BY <1>5 DEF Script, Length
  <2>2. /\ StepAt(c, 3) = Step("waitIdle", 0) /\ StepAt(c, 2) = Step("disable", 0)
        /\ StepAt(c, 1) = Step("setBaud", c.n) /\ StepAt(c, 0) = Step("forceIdle", c.n)
    BY <1>5 DEF StepAt
  <2>3. Script(c) \in Seq(Steps)
    BY <1>1, <2>1, StepIn DEF Kinds
  <2>4. ASSUME NEW i \in 1 .. 4 PROVE Script(c)[i] = StepAt(c, 4 - i)
    <3>1. i \in {1, 2, 3, 4}
      OBVIOUS
    <3> QED
      BY <2>1, <2>2, <3>1
  <2> QED
    BY <2>1, <2>3, <2>4 DEF IsScript
<1>6. CASE c.op = "writeBytes"
  <2> DEFINE head == <<Step("address", 0)>> \o Bytes(c.n)
             last == <<Step("stop", 0)>>
             whole == head \o last
  <2>1. Script(c) = whole /\ Length(c) = c.n + 2
    BY <1>6 DEF Script, Length
  <2>2. last \in Seq(Steps) /\ Len(last) = 1 /\ last[1] = Step("stop", 0)
    BY OneStep DEF Kinds
  <2>3. /\ head \in Seq(Steps) /\ Len(head) = c.n + 1 /\ head[1] = Step("address", 0)
        /\ \A i \in 1 .. c.n : head[i + 1] = Step("byte", i)
    BY <1>1, WritingSteps, Zenon
  <2>4. c.n + 1 \in Nat
    BY <1>1
  <2> HIDE DEF head, last
  <2>5. /\ whole \in Seq(Steps) /\ Len(whole) = c.n + 1 + 1 /\ whole[c.n + 1 + 1] = last[1]
        /\ \A i \in 1 .. c.n + 1 : whole[i] = head[i]
    BY <2>2, <2>3, <2>4, Snoc, Zenon
  <2> HIDE DEF whole
  <2>6. /\ Script(c) \in Seq(Steps) /\ Len(Script(c)) = c.n + 2
        /\ Script(c)[c.n + 2] = Step("stop", 0)
        /\ \A i \in 1 .. c.n + 1 : Script(c)[i] = head[i]
    BY <1>1, <2>1, <2>2, <2>5
  <2>7. ASSUME NEW i \in 1 .. Length(c) PROVE Script(c)[i] = StepAt(c, Length(c) - i)
    <3> USE <1>1, <1>6, <2>1 DEF StepAt
    <3>1. CASE i = 1
      <4>1. Script(c)[i] = Step("address", 0)
        BY <2>3, <2>6, <3>1
      <4>2. Length(c) - i = c.n + 1
        BY <3>1
      <4> QED
        BY <4>1, <4>2
    <3>2. CASE i = c.n + 2
      BY <2>6, <3>2
    <3>3. CASE i # 1 /\ i # c.n + 2
      <4>1. i - 1 \in 1 .. c.n /\ i \in 1 .. c.n + 1 /\ (i - 1) + 1 = i
        BY <3>3
      <4>2. Script(c)[i] = Step("byte", i - 1)
        BY <2>3, <2>6, <4>1
      <4>3. /\ Length(c) - i # 0 /\ Length(c) - i <= c.n
            /\ c.n + 1 - (Length(c) - i) = i - 1
        BY <4>1
      <4> QED
        BY <4>2, <4>3
    <3> QED
      BY <3>1, <3>2, <3>3
  <2> QED
    BY <2>1, <2>6, <2>7 DEF IsScript
<1>7. CASE c.op = "readBytes"
  <2>1. Script(c) = Reading(c.n) /\ Length(c) = c.n + 1
    BY <1>7 DEF Script, Length
  <2>2. /\ c.n >= 1 /\ Script(c) \in Seq(Steps) /\ Len(Script(c)) = c.n + 1
        /\ Script(c)[1] = Step("addressRead", 0)
        /\ \A i \in 1 .. c.n : Script(c)[i + 1] = ReadStep(c.n, i)
    <3>1. c.n >= 1
      BY <1>1, <1>7
    <3>2. /\ Reading(c.n) \in Seq(Steps)
          /\ Len(Reading(c.n)) = IF c.n = 0 THEN 2 ELSE c.n + 1
          /\ Reading(c.n)[1] = Step("addressRead", 0)
          /\ \A i \in 1 .. c.n : Reading(c.n)[i + 1] = ReadStep(c.n, i)
      BY <1>1, ReadingSteps, Zenon
    <3> QED
      BY <1>1, <2>1, <3>1, <3>2
  <2>3. ASSUME NEW i \in 1 .. Length(c) PROVE Script(c)[i] = StepAt(c, Length(c) - i)
    <3>1. CASE i = 1
      BY <1>1, <1>7, <2>1, <2>2, <3>1 DEF StepAt
    <3>2. CASE i # 1
      <4>1. i - 1 \in 1 .. c.n /\ (i - 1) + 1 = i /\ c.n - (Length(c) - i) = i - 1
            /\ Length(c) - i < c.n
        BY <1>1, <2>1, <3>2
      <4> QED
        BY <1>7, <2>2, <4>1 DEF StepAt
    <3> QED
      BY <3>1, <3>2
  <2> QED
    BY <2>1, <2>2, <2>3 DEF IsScript
<1>8. CASE c.op = "readRegisterData"
  <2> DEFINE head == <<Step("address", 0)>> \o Bytes(1)
             tail == Reading(c.n)
             whole == head \o tail
  <2>1. Script(c) = whole /\ Length(c) = IF c.n = 0 THEN 4 ELSE c.n + 3
    BY <1>8 DEF Script, Length
  <2>2. 1 \in Nat /\ 1 \in 1 .. 1
    OBVIOUS
  <2>3. /\ head \in Seq(Steps) /\ Len(head) = 1 + 1 /\ head[1] = Step("address", 0)
        /\ head[1 + 1] = Step("byte", 1)
    BY <2>2, WritingSteps, Zenon
  <2>4. /\ tail \in Seq(Steps) /\ Len(tail) = IF c.n = 0 THEN 2 ELSE c.n + 1
        /\ tail[1] = Step("addressRead", 0)
        /\ c.n = 0 => tail[2] = Step("busIdle", 0)
        /\ \A i \in 1 .. c.n : tail[i + 1] = ReadStep(c.n, i)
    BY <1>1, ReadingSteps, Zenon
  <2> HIDE DEF head, tail
  <2>5. /\ whole \in Seq(Steps) /\ Len(whole) = Len(head) + Len(tail)
        /\ \A i \in 1 .. Len(head) : whole[i] = head[i]
        /\ \A i \in 1 .. Len(tail) : whole[Len(head) + i] = tail[i]
    BY <2>3, <2>4, Concat, Zenon
  <2> HIDE DEF whole
  <2>6. /\ Script(c) \in Seq(Steps) /\ Len(Script(c)) = Length(c)
        /\ Script(c)[1] = Step("address", 0) /\ Script(c)[2] = Step("byte", 1)
        /\ \A i \in 1 .. Length(c) - 2 : Script(c)[2 + i] = tail[i]
    BY <1>1, <2>1, <2>3, <2>4, <2>5, SMTT(30)
  <2>7. Length(c) = IF c.n = 0 THEN 4 ELSE c.n + 3
    BY <2>1
  <2>8. ASSUME NEW i \in 1 .. Length(c) PROVE Script(c)[i] = StepAt(c, Length(c) - i)
    <3>1. CASE c.n = 0
      <4>1. Length(c) = 4 /\ i \in {1, 2, 3, 4}
        BY <2>7, <3>1
      <4>2. Script(c)[3] = Step("addressRead", 0) /\ Script(c)[4] = Step("busIdle", 0)
        BY <2>4, <2>6, <3>1, <4>1
      <4>3. /\ StepAt(c, 0) = Step("busIdle", 0) /\ StepAt(c, 1) = Step("addressRead", 0)
            /\ StepAt(c, 2) = Step("byte", 1) /\ StepAt(c, 3) = Step("address", 0)
        BY <1>8, <3>1, <4>1 DEF StepAt
      <4> QED
        BY <2>6, <4>1, <4>2, <4>3
    <3>2. CASE c.n # 0 /\ i <= 3
      <4>1. Length(c) = c.n + 3 /\ i \in {1, 2, 3}
        BY <2>7, <3>2
      <4>2. Script(c)[3] = Step("addressRead", 0)
        BY <1>1, <2>4, <2>6, <3>2, <4>1
      <4>3. /\ StepAt(c, c.n) = Step("addressRead", 0)
            /\ StepAt(c, c.n + 1) = Step("byte", 1) /\ StepAt(c, c.n + 2) = Step("address", 0)
        BY <1>1, <1>8, <3>2, <4>1 DEF StepAt
      <4>4. /\ i = 1 => Length(c) - i = c.n + 2
            /\ i = 2 => Length(c) - i = c.n + 1
            /\ i = 3 => Length(c) - i = c.n
        BY <1>1, <4>1
      <4> QED
        BY <2>6, <4>1, <4>2, <4>3, <4>4
    <3>3. CASE c.n # 0 /\ i > 3
      <4>1. /\ Length(c) = c.n + 3 /\ i - 3 \in 1 .. c.n /\ i - 2 \in 1 .. Length(c) - 2
            /\ (i - 3) + 1 = i - 2 /\ 2 + (i - 2) = i
        BY <1>1, <2>7, <3>3
      <4>2. Script(c)[i] = ReadStep(c.n, i - 3)
        BY <2>4, <2>6, <4>1
      <4>3. Length(c) - i < c.n /\ c.n - (Length(c) - i) = i - 3
        BY <1>1, <4>1
      <4> QED
        BY <1>8, <3>3, <4>2, <4>3 DEF StepAt
    <3> QED
      BY <3>1, <3>2, <3>3
  <2> QED
    BY <2>6, <2>8 DEF IsScript
<1> QED
  BY <1>1, <1>2, <1>3, <1>4, <1>5, <1>6, <1>7, <1>8 DEF Ops

\* Which calls have a step, and what its number is.
KindOf(c, s) ==
    /\ s.do \in Kinds \ {"nack"} /\ s.v \in Nat
    /\ s.do = "address" => c.op \in {"writeBegin", "writeBytes", "readRegisterData"}
    /\ s.do = "byte" => c.op \in {"writeByte", "writeBytes", "readRegisterData"} /\ s.v >= 1
    /\ s.do \in {"addressRead", "busIdle"} => c.op \in Reads
    /\ s.do \in {"nextByte", "lastByte"} => c.op \in Reads /\ s.v >= 1
    /\ s.do = "lastByte" => s.v = c.n
    /\ s.do = "stop" => c.op \in {"writeEndAndStop", "writeBytes"}
    /\ s.do = "restart" => c.op = "writeEndAndStart"
    /\ s.do \in {"waitIdle", "disable", "setBaud", "forceIdle"} => c.op = "setSpeed"
    /\ s.do \in {"setBaud", "forceIdle"} => s.v \in Speeds
    /\ s.do \in {"clock", "softReset"} => c.op \in {"initialize", "reset"}

LEMMA StepKinds ==
    ASSUME NEW c \in Calls, ~Refused(c), NEW k \in 0 .. Length(c) - 1
    PROVE  KindOf(c, StepAt(c, k))
<1>1. /\ c.op \in Ops /\ c.n \in Nat /\ k \in Nat /\ k <= Length(c) - 1
      /\ c.op \in {"writeBytes", "readBytes"} => c.n >= 1
      /\ c.op = "setSpeed" => c.n \in Speeds
  BY CallTypes
<1> USE <1>1 DEF KindOf, StepAt, Step, ReadStep, Length, Reads, Kinds
<1>2. CASE c.op = "writeBytes"
  BY <1>2
<1>3. CASE c.op = "readBytes"
  BY <1>3
<1>4. CASE c.op = "readRegisterData"
  BY <1>4
<1>5. CASE c.op = "setSpeed"
  BY <1>5
<1>6. CASE c.op = "initialize"
  BY <1>6
<1>7. CASE c.op \in {"writeBegin", "writeByte", "writeEndAndStop", "writeEndAndStart", "reset"}
  <2>1. CASE c.op = "writeBegin"
    BY <2>1
  <2>2. CASE c.op = "writeByte"
    BY <2>2
  <2>3. CASE c.op = "writeEndAndStop"
    BY <2>3
  <2>4. CASE c.op = "writeEndAndStart"
    BY <2>4
  <2>5. CASE c.op = "reset"
    BY <2>5
  <2> QED
    BY <1>7, <2>1, <2>2, <2>3, <2>4, <2>5
<1> QED
  BY <1>2, <1>3, <1>4, <1>5, <1>6, <1>7 DEF Ops

\* What a call begins with.
Starts(c, s) ==
    /\ s.do \in {"address", "byte", "addressRead", "stop", "restart", "waitIdle", "clock",
                 "softReset"}
    /\ c.op = "writeBytes" => s.do = "address"
    /\ c.op \in Reads => s.do \in {"address", "addressRead"}

LEMMA ScriptStarts ==
    ASSUME NEW c \in Calls, ~Refused(c)
    PROVE  Starts(c, StepAt(c, Length(c) - 1))
<1>1. /\ c.op \in Ops /\ c.n \in Nat
      /\ c.op \in {"writeBytes", "readBytes"} => c.n >= 1
  BY CallTypes
<1> QED
  BY <1>1 DEF Starts, StepAt, Step, ReadStep, Length, Reads, Ops

\* Where the program is.
Located ==
    script # <<>> =>
        \/ KindOf(call, Head(script))
        \/ call.op \in Reads /\ Head(script).do = "stop" /\ waiting
        \/ Head(script).do = "nack" /\ waiting /\ stopped

LEMMA Where ==
    ASSUME ScriptInv
    PROVE  /\ Located
           /\ script # <<>> => /\ Head(script) \in Steps
                               /\ Head(script).do \in Kinds /\ Head(script).v \in Nat
<1> SUFFICES ASSUME script # <<>>
             PROVE  /\ Located
                    /\ Head(script) \in Steps
                    /\ Head(script).do \in Kinds /\ Head(script).v \in Nat
  BY DEF Located
<1>1. script \in Seq(Steps) /\ Len(script) \in Nat \ {0} /\ Head(script) = script[1]
  BY DEF ScriptInv
<1>2. Head(script) \in Steps /\ Head(script).do \in Kinds /\ Head(script).v \in Nat
  <2>1. script[1] \in Steps
    BY <1>1, ElementOfSeq
  <2> QED
    BY <1>1, <2>1 DEF Steps
<1>3. CASE Regular
  <2>1. /\ call \in Calls /\ ~Refused(call) /\ Len(script) - 1 \in 0 .. Length(call) - 1
        /\ Head(script) = StepAt(call, Len(script) - 1)
    BY <1>1, <1>3, CallTypes DEF Regular
  <2> QED
    BY <1>2, <2>1, StepKinds DEF Located
<1>4. CASE Closing
  <2>1. Head(script) = Step("stop", 0)
    BY <1>4 DEF Closing
  <2> QED
    BY <1>2, <1>4, <2>1 DEF Closing, Located, Step
<1>5. CASE Nacked
  BY <1>2, <1>5 DEF Nacked, Located
<1> QED
  BY <1>3, <1>4, <1>5 DEF ScriptInv

\* A step that succeeds is the last of its call, or the next one follows.
Moved ==
    /\ ~waiting'
    /\ \/ /\ script' = <<>> /\ status' = "Success"
          /\ \/ LastIs(call, Head(script))
             \/ call.op \in Reads /\ Head(script).do = "stop"
       \/ script' # <<>> /\ status' = "running" /\ Follows(call, Head(script), Head(script)')

LEMMA Advance ==
    ASSUME ScriptInv, script # <<>>, Head(script).do # "nack", NextStep, call' = call
    PROVE  ScriptInv' /\ Moved
<1>1. script \in Seq(Steps) /\ Len(script) \in Nat \ {0} /\ Head(script) = script[1]
  BY DEF ScriptInv
<1>2. CASE Closing
  <2>1. Len(script) = 1 /\ Head(script).do = "stop" /\ call.op \in Reads
    BY <1>2 DEF Closing, Step
  <2>2. script' = <<>> /\ status' = "Success" /\ waiting' = FALSE
    BY <2>1 DEF NextStep, Return
  <2> QED
    <3>1. ScriptInv'
      BY <2>2 DEF ScriptInv
    <3>2. Moved
      BY <2>1, <2>2 DEF Moved
    <3> QED
      BY <3>1, <3>2
<1>3. CASE Regular
  <2>1. /\ call \in Calls /\ ~Refused(call) /\ Len(script) <= Length(call)
        /\ Length(call) \in Nat
        /\ Head(script) = StepAt(call, Len(script) - 1)
    BY <1>1, <1>3, CallTypes DEF Regular
  <2>2. CASE Len(script) = 1
    <3>1. script' = <<>> /\ status' = "Success" /\ waiting' = FALSE
      BY <2>2 DEF NextStep, Return
    <3>2. Head(script) = StepAt(call, 0)
      BY <2>1, <2>2
    <3> QED
      BY <2>1, <3>1, <3>2, StepLast DEF Moved, ScriptInv
  <2>3. CASE Len(script) # 1
    <3>1. script' = Tail(script) /\ status' = status /\ waiting' = FALSE
      BY <2>3 DEF NextStep
    <3>2. /\ script' \in Seq(Steps) /\ Len(script') = Len(script) - 1
          /\ \A i \in 1 .. Len(script) - 1 : script'[i] = script[i + 1]
      BY <1>1, <3>1
    <3>3. script' # <<>> /\ Len(script') \in Nat \ {0} /\ Head(script)' = script'[1]
      BY <1>1, <2>3, <3>2
    <3>4. \A i \in 1 .. Len(script') : script'[i] = StepAt(call, Len(script') - i)
      <4> TAKE i \in 1 .. Len(script')
      <4>1. /\ i \in 1 .. Len(script) - 1 /\ i + 1 \in 1 .. Len(script)
            /\ Len(script) - (i + 1) = Len(script') - i
        BY <1>1, <3>2
      <4> QED
        BY <1>3, <3>2, <4>1 DEF Regular
    <3>5. Regular'
      BY <1>1, <2>1, <3>2, <3>4 DEF Regular, Refused
    <3>6. Head(script)' = StepAt(call, Len(script) - 1 - 1)
      BY <1>1, <3>2, <3>3, <3>4
    <3>7. Len(script) - 1 \in 1 .. Length(call) - 1
      <4> DEFINE k == Len(script)
                 n == Length(call)
      <4>1. k \in Nat \ {0} /\ k # 1 /\ k <= n /\ n \in Nat
        BY <1>1, <2>1, <2>3
      <4> HIDE DEF k, n
      <4>2. k - 1 \in 1 .. n - 1
        BY <4>1
      <4> QED
        BY <4>2 DEF k, n
    <3>8. Follows(call, Head(script), Head(script)')
      BY <2>1, <3>6, <3>7, StepFollows
    <3> QED
      BY <3>1, <3>2, <3>3, <3>5, <3>8 DEF Moved, ScriptInv
  <2> QED
    BY <2>2, <2>3
<1> QED
  BY <1>2, <1>3 DEF ScriptInv, Nacked

-----------------------------------------------------------------------------
(* What the steps do to the script.                                        *)

LEMMA Stays ==
    ASSUME ScriptInv, script' = script, call' = call, status' = status,
           \/ waiting' = waiting /\ stopped' = stopped
           \/ waiting' = TRUE /\ script # <<>> /\ Head(script).do # "nack"
    PROVE  ScriptInv'
<1>1. CASE script = <<>>
  BY <1>1 DEF ScriptInv
<1>2. CASE script # <<>>
  <2>1. Regular => Regular'
    BY DEF Regular, Refused
  <2>2. Closing => Closing'
    BY DEF Closing
  <2>3. Nacked => Nacked'
    BY DEF Nacked
  <2> QED
    BY <1>2, <2>1, <2>2, <2>3 DEF ScriptInv
<1> QED
  BY <1>1, <1>2

LEMMA Ends ==
    ASSUME script' = <<>>, waiting' = FALSE, status' # "running"
    PROVE  ScriptInv'
BY DEF ScriptInv

LEMMA Single ==
    ASSUME NEW k \in Kinds, NEW v \in Nat, script' = <<Step(k, v)>>
    PROVE  /\ script' \in Seq(Steps) /\ script' # <<>> /\ Len(script') = 1
           /\ Head(script)' = Step(k, v)
BY OneStep

\* The steps that tell the SERCOM what to do stay where they are.
Tells == SendAddress \/ SendByte \/ SendStop \/ AskByte

LEMMA TellsStays ==
    ASSUME ScriptInv, Tells
    PROVE  ScriptInv' /\ waiting' /\ script' = script /\ script # <<>> /\ status' = "running"
<1>1. /\ script # <<>> /\ script' = script /\ waiting' = TRUE /\ status' = status /\ call' = call
      /\ Head(script).do # "nack"
  BY DEF Tells, SendAddress, SendByte, SendStop, AskByte, Do, At
<1> QED
  BY <1>1, Stays DEF ScriptInv

\* The steps that end when a flag or the bus says so.
Advances ==
    \/ Acknowledged /\ ~rxnack
    \/ Idle \/ Restart \/ SetClock
    \/ SlaveOnBus /\ sb
    \/ TakeByte /\ ~At("lastByte")

LEMMA AdvancesMoves ==
    ASSUME ScriptInv, Advances
    PROVE  ScriptInv' /\ Moved
<1>1. script # <<>> /\ Head(script).do # "nack" /\ NextStep /\ call' = call
  BY DEF Advances, Acknowledged, Idle, Restart, SetClock, SlaveOnBus, TakeByte, At
<1> QED
  BY <1>1, Advance

\* A call that ends without success.
Breaks ==
    \/ Timeout
    \/ SlaveOnBus /\ ~sb
    \/ ReturnNack

LEMMA BreaksEnds ==
    ASSUME ScriptInv, Breaks
    PROVE  ScriptInv' /\ script' = <<>> /\ ~waiting' /\ status' \notin {"running", "Success"}
<1>1. script' = <<>> /\ waiting' = FALSE /\ status' \notin {"running", "Success"}
  BY DEF Breaks, Timeout, SlaveOnBus, ReturnNack, Return
<1> QED
  BY <1>1, Ends

\* The steps of setSpeed() and of reset().
Sets == Disable \/ SetBaud \/ ForceIdle \/ SoftReset

LEMMA SetsMoves ==
    ASSUME ScriptInv, Sets
    PROVE  /\ ScriptInv' /\ ~waiting'
           /\ \/ Moved
              \/ script' = <<>> /\ status' \in {"Error", "Success"}
<1>1. script # <<>> /\ Head(script).do # "nack" /\ call' = call
  BY DEF Sets, Disable, SetBaud, ForceIdle, SoftReset, At
<1>2. CASE NextStep
  BY <1>1, <1>2, Advance DEF Moved
<1>3. CASE Return("Error") \/ Return("Success")
  <2>1. script' = <<>> /\ waiting' = FALSE /\ status' \in {"Error", "Success"}
    BY <1>3 DEF Return
  <2> QED
    BY <2>1, Ends
<1> QED
  BY <1>2, <1>3 DEF Sets, Disable, SetBaud, ForceIdle, SoftReset

LEMMA InvokeStarts ==
    ASSUME ScriptInv, NEW c \in Calls, Invoke(c)
    PROVE  /\ ScriptInv' /\ ~waiting' /\ script = <<>>
           /\ \/ script' = <<>> /\ status' = "Error"
              \/ script' = <<>> /\ status' = "Success" /\ c.op = "setSpeed"
              \/ script' # <<>> /\ status' = "running" /\ Starts(c, Head(script)')
<1>1. script = <<>> /\ waiting' = waiting /\ ~waiting /\ call' = c
  BY DEF Invoke, ScriptInv
<1>2. CASE Refused(c)
  <2>1. script' = <<>> /\ status' = "Error"
    BY <1>2 DEF Invoke
  <2> QED
    BY <1>1, <2>1 DEF ScriptInv
<1>3. CASE ~Refused(c) /\ c.op = "setSpeed" /\ c.n = frequencyHz
  <2>1. script' = <<>> /\ status' = "Success"
    BY <1>3 DEF Invoke, Script
  <2> QED
    BY <1>1, <1>3, <2>1 DEF ScriptInv
<1>4. CASE ~Refused(c) /\ ~(c.op = "setSpeed" /\ c.n = frequencyHz)
  <2>1. IsScript(c, script')
    BY <1>4, ScriptShape DEF Invoke
  <2>2. /\ script' \in Seq(Steps) /\ Len(script') = Length(c) /\ Length(c) \in Nat \ {0}
        /\ \A i \in 1 .. Length(c) : script'[i] = StepAt(c, Length(c) - i)
    BY <2>1, CallTypes DEF IsScript
  <2>3. script' # <<>> /\ Head(script)' = script'[1] /\ 1 \in 1 .. Length(c)
    BY <2>2
  <2>4. status' = "running"
    BY <1>4, <2>3 DEF Invoke
  <2>5. Head(script)' = StepAt(c, Length(c) - 1)
    BY <2>2, <2>3
  <2>6. Regular'
    BY <1>1, <1>4, <2>2 DEF Regular, Refused
  <2>7. Starts(c, Head(script)')
    BY <1>4, <2>5, ScriptStarts
  <2> QED
    BY <1>1, <2>2, <2>3, <2>4, <2>6, <2>7 DEF ScriptInv
<1> QED
  BY <1>2, <1>3, <1>4

\* A write that is not acknowledged, and the last byte of a read.
LEMMA StopsWait ==
    ASSUME ScriptInv, (Acknowledged /\ rxnack) \/ (TakeByte /\ At("lastByte"))
    PROVE  /\ ScriptInv' /\ waiting' /\ script # <<>> /\ script' # <<>> /\ status' = "running"
           /\ stopped' /\ doing'.do = "stop" /\ call' = call
           /\ Head(script)'.do = IF At("lastByte") THEN "stop" ELSE "nack"
<1> USE Where
<1>1. CASE Acknowledged /\ rxnack
  <2>1. /\ script # <<>> /\ ~At("lastByte") /\ Head(script).v \in Nat
        /\ script' = <<Step("nack", Head(script).v)>>
        /\ waiting' = TRUE /\ status' = status /\ call' = call /\ stopped' = TRUE
        /\ doing' = Step("stop", 0)
    BY <1>1 DEF Acknowledged, Do, At
  <2>2. /\ script' \in Seq(Steps) /\ script' # <<>> /\ Len(script') = 1
        /\ Head(script)' = Step("nack", Head(script).v)
    BY <2>1, Single DEF Kinds
  <2>3. Head(script)'.do = "nack" /\ doing'.do = "stop"
    BY <2>1, <2>2 DEF Step
  <2>4. Nacked'
    BY <2>1, <2>2, <2>3 DEF Nacked
  <2> QED
    BY <2>1, <2>2, <2>3, <2>4 DEF ScriptInv
<1>2. CASE TakeByte /\ At("lastByte")
  <2>1. /\ script # <<>> /\ Head(script).do = "lastByte"
        /\ script' = <<Step("stop", 0)>>
        /\ waiting' = TRUE /\ status' = status /\ call' = call /\ stopped' = TRUE
        /\ doing' = Step("stop", 0)
    BY <1>2 DEF TakeByte, At
  <2>2. /\ script' \in Seq(Steps) /\ script' # <<>> /\ Len(script') = 1
        /\ Head(script)' = Step("stop", 0)
    BY <2>1, Single DEF Kinds
  <2>3. Head(script)'.do = "stop" /\ doing'.do = "stop"
    BY <2>1, <2>2 DEF Step
  <2>4. call \in Calls /\ call.op \in Reads
    <3>1. Regular
      BY <2>1 DEF ScriptInv, Closing, Nacked, Step
    <3>2. KindOf(call, Head(script))
      BY <2>1 DEF Located
    <3> QED
      BY <2>1, <3>1, <3>2 DEF Regular, KindOf
  <2>5. Closing'
    BY <2>1, <2>4 DEF Closing
  <2> QED
    BY <1>2, <2>1, <2>2, <2>3, <2>5 DEF ScriptInv
<1> QED
  BY <1>1, <1>2

-----------------------------------------------------------------------------
(* The invariant, one part after the other.                                *)

LEMMA BusStays ==
    ASSUME Bus
    PROVE  UNCHANGED mainVars
BY DEF Bus, OtherMaster, HwWrite, HwReadAddress, HwReadByte, HwStop, mainVars

\* Every step of the main program is of one of these kinds.
LEMMA MainKinds ==
    ASSUME Main
    PROVE  \/ Tells \/ Advances \/ Breaks \/ Sets
           \/ Acknowledged /\ rxnack
           \/ TakeByte /\ At("lastByte")
BY DEF Main, Tells, Advances, Breaks, Sets

LEMMA ScriptStep ==
    ASSUME ScriptInv, Next
    PROVE  ScriptInv'
<1>1. CASE Bus
  BY <1>1, BusStays, Stays DEF mainVars
<1>2. CASE Main
  BY <1>2, MainKinds, TellsStays, AdvancesMoves, BreaksEnds, SetsMoves, StopsWait
<1>3. CASE \E c \in Calls : Invoke(c)
  BY <1>3, InvokeStarts
<1> QED
  BY <1>1, <1>2, <1>3 DEF Next

\* FlagInv: the steps that wait for MB clear it when they begin, and the SERCOM
\* sets it when it has done what they asked for.
LEMMA FlagStep ==
    ASSUME ScriptInv, FlagInv, Next
    PROVE  FlagInv'
<1> SUFFICES ASSUME waiting', script' # <<>>, Head(script)'.do \in {"address", "byte"}
             PROVE  (mb' => Done') /\ (~mb' => Asked')
  BY DEF FlagInv, At
<1>1. CASE Bus
  <2>1. /\ waiting /\ script' = script /\ Head(script) = Head(script)'
        /\ Head(script).do \in {"address", "byte"}
        /\ (mb => Done) /\ (~mb => Asked)
    BY <1>1, BusStays DEF mainVars, FlagInv, At
  <2>2. CASE \E nack \in BOOLEAN : HwWrite(nack)
    BY <2>2 DEF HwWrite, Done, Nothing, Step
  <2>3. CASE OtherMaster
    BY <2>1, <2>3 DEF OtherMaster, Done, Asked
  <2>4. CASE HwReadByte \/ HwStop \/ \E nack \in BOOLEAN : HwReadAddress(nack)
    BY <2>1, <2>4 DEF HwReadByte, HwStop, HwReadAddress, Done, Asked
  <2> QED
    BY <1>1, <2>2, <2>3, <2>4 DEF Bus
<1>2. CASE Tells
  BY <1>2 DEF Tells, SendAddress, SendByte, SendStop, AskByte, Do, At, Asked
<1>3. CASE Advances \/ Breaks \/ Sets
  BY <1>3, AdvancesMoves, BreaksEnds, SetsMoves DEF Moved
<1>4. CASE (Acknowledged /\ rxnack) \/ (TakeByte /\ At("lastByte"))
  BY <1>4, StopsWait
<1>5. CASE \E c \in Calls : Invoke(c)
  BY <1>5, InvokeStarts
<1> QED
  BY <1>1, <1>2, <1>3, <1>4, <1>5, MainKinds DEF Next

\* WriteReleases: who reports that nobody has acknowledged has sent a stop.
LEMMA ReleasesStep ==
    ASSUME ScriptInv, WriteReleases, Next
    PROVE  WriteReleases'
<1> USE Where
<1>1. CASE Bus
  BY <1>1, BusStays DEF mainVars, WriteReleases
<1>2. CASE Tells
  BY <1>2, TellsStays DEF WriteReleases
<1>3. CASE Advances
  BY <1>3, AdvancesMoves DEF Moved, WriteReleases
<1>4. CASE Timeout
  BY <1>4 DEF Timeout, Return, WriteReleases
<1>5. CASE SlaveOnBus /\ ~sb
  <2>1. call' = call /\ call.op \in Reads
    BY <1>5 DEF SlaveOnBus, At, Located, KindOf
  <2> QED
    BY <2>1 DEF WriteReleases, Reads
<1>6. CASE ReturnNack
  <2>1. stopped /\ stopped' = stopped
    BY <1>6 DEF ReturnNack, At, Located, KindOf
  <2> QED
    BY <2>1 DEF WriteReleases
<1>7. CASE Sets
  BY <1>7, SetsMoves DEF Moved, WriteReleases
<1>8. CASE (Acknowledged /\ rxnack) \/ (TakeByte /\ At("lastByte"))
  BY <1>8, StopsWait DEF WriteReleases
<1>9. CASE \E c \in Calls : Invoke(c)
  BY <1>9, InvokeStarts DEF WriteReleases
<1> QED
  BY <1>1, <1>2, <1>3, <1>4, <1>5, <1>6, <1>7, <1>8, <1>9, MainKinds DEF Next, Breaks

\* SpeedInv: between the steps of setSpeed() the program knows which of the
\* register and the frequency is behind.
LEMMA SpeedStep ==
    ASSUME ScriptInv, SpeedInv, Next
    PROVE  SpeedInv'
<1> USE Where
<1> DEFINE Kept == enabled' = enabled /\ baud' = baud /\ frequencyHz' = frequencyHz /\ unsure' = unsure
<1>1. ASSUME Kept, script' = script
      PROVE  SpeedInv'
  BY <1>1 DEF SpeedInv, At, V
<1>2. ASSUME Kept, ~At("setBaud"), ~At("forceIdle"),
             script' # <<>> => Head(script)'.do # "forceIdle"
      PROVE  SpeedInv'
  BY <1>2 DEF SpeedInv, At
<1>3. CASE Bus
  BY <1>1, <1>3, BusStays DEF mainVars, Bus, OtherMaster, HwWrite, HwReadAddress, HwReadByte, HwStop
<1>4. CASE Tells
  BY <1>1, <1>4 DEF Tells, SendAddress, SendByte, SendStop, AskByte, Do
<1>5. CASE Advances
  <2>1. Kept /\ ~At("setBaud") /\ ~At("forceIdle")
    BY <1>5 DEF Advances, Acknowledged, Idle, Restart, SetClock, SlaveOnBus, TakeByte, At, hwVars
  <2>2. script # <<>> /\ Head(script).do \in Kinds \ {"setBaud", "forceIdle"}
    BY <1>5, <2>1 DEF Advances, Acknowledged, Idle, Restart, SetClock, SlaveOnBus, TakeByte, At
  <2>3. script' # <<>> => Head(script)'.do # "forceIdle"
    BY <1>5, <2>2, AdvancesMoves DEF Moved, Follows, Step, ReadStep
  <2> QED
    BY <1>2, <2>1, <2>3
<1>6. CASE Breaks
  <2>1. Kept /\ ~At("setBaud") /\ ~At("forceIdle")
    BY <1>6 DEF Breaks, Timeout, SlaveOnBus, ReturnNack, At, hwVars
  <2> QED
    BY <1>2, <1>6, <2>1, BreaksEnds
<1>7. CASE Disable
  <2>1. script # <<>> /\ Head(script).do = "disable" /\ frequencyHz' = frequencyHz
    BY <1>7 DEF Disable, At
  <2>2. call.op = "setSpeed"
    BY <2>1 DEF Located, KindOf
  <2>3. CASE Return("Error") /\ unsure' = TRUE
    BY <2>1, <2>3 DEF SpeedInv
  <2>4. CASE NextStep
    <3>1. Moved
      BY <1>7, <2>1, <2>4, Advance DEF Disable
    <3>2. script' # <<>> /\ Head(script)'.do = "setBaud"
      BY <2>1, <2>2, <3>1 DEF Moved, Follows, LastIs, Reads, Step
    <3> QED
      BY <2>1, <3>2 DEF SpeedInv, At
  <2> QED
    BY <1>7, <2>3, <2>4 DEF Disable
<1>8. CASE SetBaud
  <2>1. /\ script # <<>> /\ Head(script).do = "setBaud" /\ frequencyHz' = frequencyHz
        /\ enabled' = TRUE /\ baud' = Baud(Head(script).v)
    BY <1>8 DEF SetBaud, At
  <2>2. call.op = "setSpeed"
    BY <2>1 DEF Located, KindOf
  <2>3. CASE Return("Error") /\ unsure' = TRUE
    BY <2>1, <2>3 DEF SpeedInv
  <2>4. CASE NextStep
    <3>1. Moved
      BY <1>8, <2>1, <2>4, Advance DEF SetBaud
    <3>2. script' # <<>> /\ Head(script)' = Step("forceIdle", Head(script).v)
      BY <2>1, <2>2, <3>1 DEF Moved, Follows, LastIs, Reads, Step
    <3>3. Head(script)'.do = "forceIdle" /\ Head(script)'.v = Head(script).v
      BY <3>2 DEF Step
    <3> QED
      BY <2>1, <3>2, <3>3 DEF SpeedInv, At, V
  <2> QED
    BY <1>8, <2>3, <2>4 DEF SetBaud
<1>9. CASE ForceIdle
  <2>1. /\ script # <<>> /\ Head(script).do = "forceIdle" /\ frequencyHz' = Head(script).v
        /\ enabled' = enabled /\ baud' = baud
    BY <1>9 DEF ForceIdle, At
  <2>2. Head(script).v \in Speeds /\ call.op = "setSpeed"
    BY <2>1 DEF Located, KindOf
  <2>3. CASE Return("Error") /\ unsure' = TRUE
    BY <2>1, <2>2, <2>3 DEF SpeedInv
  <2>4. CASE NextStep /\ unsure' = unsure
    <3>1. Moved
      BY <1>9, <2>1, <2>4, Advance DEF ForceIdle
    <3>2. script' = <<>>
      BY <2>1, <3>1 DEF Moved, Follows
    <3> QED
      BY <2>1, <2>2, <2>4, <3>2 DEF SpeedInv, At, V
  <2> QED
    BY <1>9, <2>3, <2>4 DEF ForceIdle
<1>10. CASE SoftReset
  <2>1. frequencyHz' = frequencyHz
    BY <1>10 DEF SoftReset
  <2>2. CASE unsure' = TRUE
    BY <2>1, <2>2 DEF SpeedInv
  <2>3. CASE baud' = Baud(frequencyHz) /\ enabled' = TRUE /\ script' = <<>>
    BY <2>1, <2>3 DEF SpeedInv, At
  <2> QED
    BY <1>10, <2>2, <2>3 DEF SoftReset, Return
<1>11. CASE Acknowledged /\ rxnack
  <2>1. Kept /\ ~At("setBaud") /\ ~At("forceIdle") /\ ~At("lastByte")
    BY <1>11 DEF Acknowledged, Do, At
  <2> QED
    BY <1>2, <1>11, <2>1, StopsWait
<1>12. CASE TakeByte /\ At("lastByte")
  <2>1. Kept /\ ~At("setBaud") /\ ~At("forceIdle")
    BY <1>12 DEF TakeByte, At
  <2> QED
    BY <1>2, <1>12, <2>1, StopsWait
<1>13. CASE \E c \in Calls : Invoke(c)
  <2>1. Kept /\ script = <<>>
    BY <1>13, InvokeStarts DEF Invoke, hwVars
  <2> QED
    BY <1>2, <1>13, <2>1, InvokeStarts DEF Starts, At
<1> QED
  BY <1>3, <1>4, <1>5, <1>6, <1>7, <1>8, <1>9, <1>10, <1>11, <1>12, <1>13, MainKinds DEF Next, Sets

LEMMA OneToNone == OneTo(0) = <<>>
BY DEF OneTo

LEMMA OneToNext == \A k \in Nat \ {0} : Append(OneTo(k - 1), k) = OneTo(k)
<1> TAKE k \in Nat \ {0}
<1> DEFINE s == OneTo(k - 1)
           t == OneTo(k)
<1>1. s \in Seq(Nat) /\ Len(s) = k - 1 /\ \A i \in 1 .. k - 1 : s[i] = i
  BY DEF OneTo
<1>2. t \in Seq(Nat) /\ Len(t) = k /\ \A i \in 1 .. k : t[i] = i
  BY DEF OneTo
<1> HIDE DEF s, t
<1> DEFINE a == Append(s, k)
<1>3. a \in Seq(Nat) /\ Len(a) = k /\ \A i \in 1 .. k : a[i] = IF i = k THEN k ELSE s[i]
  BY <1>1
<1> HIDE DEF a
<1>4. \A i \in 1 .. Len(a) : a[i] = t[i]
  BY <1>1, <1>2, <1>3
<1>5. a = t
  BY <1>2, <1>3, <1>4, SeqEqual
<1> QED
  BY <1>5 DEF a, s, t

\* WriteInv: at each step of a write the slave has what came before.
LEMMA WriteStep ==
    ASSUME ScriptInv, FlagInv, WriteInv, Next
    PROVE  WriteInv'
<1> USE Where
<1> SUFFICES ASSUME call'.op = "writeBytes"
             PROVE  WriteInv'
  BY DEF WriteInv
<1>1. CASE Bus
  <2>1. /\ call' = call /\ script' = script /\ Head(script)' = Head(script)
        /\ waiting' = waiting /\ status' = status
    BY <1>1, BusStays DEF mainVars
  <2>2. ASSUME NEW nack \in BOOLEAN, HwWrite(nack)
        PROVE  WriteInv'
    <3>1. /\ doing.do \in {"address", "byte"} /\ doing'.do = "nothing"
          /\ mb' = TRUE /\ rxnack' = nack
      BY <2>2 DEF HwWrite, Nothing, Step
    <3>2. ~At("stop") /\ status # "Success"
      BY <2>1, <3>1 DEF WriteInv, Ending
    <3>3. CASE At("address")
      <4>1. waiting => got' = OneTo(0)
        BY <2>2, <3>1, <3>3, OneToNone DEF HwWrite, FlagInv, Done, Asked, At
      <4> QED
        BY <2>1, <3>2, <3>3, <4>1 DEF WriteInv, At
    <3>4. CASE At("byte")
      <4>1. waiting /\ ~mb /\ doing.do = "byte" /\ doing.v = V
        BY <2>1, <3>1, <3>4 DEF WriteInv, FlagInv, Done, Asked, At, V
      <4>2. got = OneTo(V - 1) /\ V \in Nat \ {0}
        BY <2>1, <3>4, <4>1 DEF WriteInv, At, V, Located, KindOf
      <4>3. ~nack => got' = OneTo(V)
        BY <2>2, <4>1, <4>2, OneToNext DEF HwWrite
      <4>4. V' = V
        BY <2>1 DEF V
      <4> QED
        BY <2>1, <3>1, <3>2, <3>4, <4>1, <4>3, <4>4 DEF WriteInv, At
    <3>5. CASE ~At("address") /\ ~At("byte")
      BY <2>1, <3>2, <3>5 DEF WriteInv, At
    <3> QED
      BY <3>3, <3>4, <3>5
  <2>3. ASSUME NEW nack \in BOOLEAN, HwReadAddress(nack)
        PROVE  WriteInv'
    <3>1. doing.do = "addressRead"
      BY <2>3 DEF HwReadAddress
    <3>2. ~At("stop") /\ status # "Success" /\ ~At("byte") /\ (At("address") => ~waiting)
      BY <2>1, <3>1 DEF WriteInv, FlagInv, Ending, Done, Asked, At
    <3> QED
      BY <2>1, <3>2 DEF WriteInv, At
  <2>4. CASE HwReadByte \/ HwStop
    <3>1. doing'.do = "nothing" /\ got' = got /\ mb' = mb /\ rxnack' = rxnack
      BY <2>4 DEF HwReadByte, HwStop, Nothing, Step
    <3>2. V' = V
      BY <2>1 DEF V
    <3> QED
      BY <2>1, <3>1, <3>2 DEF WriteInv, At, Done, Ending
  <2>5. CASE OtherMaster
    <3>1. doing' = doing /\ got' = got /\ mb' = mb /\ rxnack' = rxnack
      BY <2>5 DEF OtherMaster
    <3>2. V' = V
      BY <2>1 DEF V
    <3> QED
      BY <2>1, <3>1, <3>2 DEF WriteInv, At, Done, Ending
  <2> QED
    BY <1>1, <2>2, <2>3, <2>4, <2>5 DEF Bus
<1>2. CASE Tells
  <2>1. call' = call /\ script' = script /\ script # <<>> /\ waiting' /\ status' = "running" /\ ~mb'
    BY <1>2, TellsStays DEF Tells, SendAddress, SendByte, SendStop, AskByte, Do
  <2>2. Head(script)' = Head(script) /\ V' = V
    BY <2>1 DEF V
  <2>3. CASE SendAddress
    BY <2>1, <2>2, <2>3 DEF SendAddress, At, WriteInv, Reads, Located, KindOf
  <2>4. CASE SendByte
    BY <2>1, <2>2, <2>4 DEF SendByte, Do, At, WriteInv
  <2>5. CASE SendStop
    BY <2>1, <2>2, <2>5 DEF SendStop, Do, At, WriteInv, Ending, Step
  <2>6. CASE AskByte
    BY <2>1, <2>6 DEF AskByte, At, Located, KindOf, Reads
  <2> QED
    BY <1>2, <2>3, <2>4, <2>5, <2>6 DEF Tells
<1>3. CASE Advances
  <2>1. script # <<>> /\ call' = call /\ call.op \notin Reads
    BY <1>3 DEF Advances, Acknowledged, Idle, Restart, SetClock, SlaveOnBus, TakeByte, At, Reads
  <2>2. KindOf(call, Head(script))
    BY <1>3, <2>1 DEF Advances, Acknowledged, Idle, Restart, SetClock, SlaveOnBus, TakeByte, At,
                      Located
  <2>3. Moved
    BY <1>3, AdvancesMoves
  <2>4. CASE Acknowledged /\ ~rxnack
    <3>1. waiting /\ mb /\ got' = got /\ doing' = doing /\ Head(script).do \in {"address", "byte"}
      BY <2>4 DEF Acknowledged, At, hwVars
    <3>2. Done
      BY <2>1, <3>1 DEF FlagInv, At
    <3>3. script' # <<>> /\ status' = "running" /\ Follows(call, Head(script), Head(script)')
      BY <2>1, <2>3, <3>1 DEF Moved, LastIs, Step, Reads
    <3>4. CASE Head(script).do = "address"
      <4>1. Head(script)'.do = "byte" /\ Head(script)'.v = 1
        BY <3>3, <3>4 DEF Follows, Step
      <4>2. got = OneTo(0)
        BY <2>1, <2>4, <3>1, <3>4 DEF WriteInv, At
      <4>3. V' = 1
        BY <4>1 DEF V
      <4>4. got' = OneTo(V' - 1)
        BY <3>1, <4>2, <4>3
      <4> QED
        BY <2>3, <3>1, <3>2, <3>3, <4>1, <4>4 DEF WriteInv, At, Done, Moved
    <3>5. CASE Head(script).do = "byte"
      <4>1. got = OneTo(V) /\ V \in Nat
        BY <2>1, <2>2, <2>4, <3>1, <3>5 DEF WriteInv, At, V, KindOf
      <4>2. CASE V = call.n
        <5>1. Head(script)'.do = "stop"
          BY <2>1, <3>3, <3>5, <4>2 DEF Follows, Step, V
        <5> QED
          BY <2>1, <2>3, <3>1, <3>2, <3>3, <4>1, <4>2, <5>1 DEF WriteInv, At, Done, Ending
      <4>3. CASE V # call.n
        <5>1. Head(script)'.do = "byte" /\ Head(script)'.v = V + 1
          BY <2>1, <3>3, <3>5, <4>3 DEF Follows, Step, V
        <5>2. V' - 1 = V
          BY <4>1, <5>1 DEF V
        <5> QED
          BY <2>3, <3>1, <3>2, <3>3, <4>1, <5>1, <5>2 DEF WriteInv, At, Done, Moved
      <4> QED
        BY <4>2, <4>3
    <3> QED
      BY <3>1, <3>4, <3>5
  <2>5. CASE Idle
    <3>1. Head(script).do = "stop" /\ got' = got /\ doing' = doing
      BY <2>1, <2>2, <2>5 DEF Idle, At, KindOf, hwVars
    <3>2. script' = <<>>
      BY <2>3, <3>1 DEF Moved, Follows
    <3> QED
      BY <2>1, <3>1, <3>2 DEF WriteInv, At, Ending
  <2>6. CASE Restart \/ SetClock \/ SlaveOnBus \/ TakeByte
    BY <2>1, <2>2, <2>6 DEF Restart, SetClock, SlaveOnBus, TakeByte, At, KindOf
  <2> QED
    BY <1>3, <2>4, <2>5, <2>6 DEF Advances
<1>4. CASE Breaks
  BY <1>4, BreaksEnds DEF WriteInv, At
<1>5. CASE Sets
  <2>1. /\ script # <<>> /\ call' = call
        /\ Head(script).do \in {"disable", "setBaud", "forceIdle", "softReset"}
    BY <1>5 DEF Sets, Disable, SetBaud, ForceIdle, SoftReset, At
  <2> QED
    BY <2>1 DEF Located, KindOf
<1>6. CASE Acknowledged /\ rxnack
  <2>1. ~At("lastByte")
    BY <1>6 DEF Acknowledged, At
  <2> QED
    BY <1>6, <2>1, StopsWait DEF WriteInv, At
<1>7. CASE TakeByte /\ At("lastByte")
  BY <1>7, StopsWait DEF At, Located, KindOf, Reads
<1>8. CASE \E c \in Calls : Invoke(c)
  <2>1. PICK c \in Calls : Invoke(c)
    BY <1>8
  <2>2. call' = c
    BY <2>1 DEF Invoke
  <2> QED
    BY <2>1, <2>2, InvokeStarts DEF WriteInv, At, Starts
<1> QED
  BY <1>1, <1>2, <1>3, <1>4, <1>5, <1>6, <1>7, <1>8, MainKinds DEF Next

\* ReadInv: at each step of a read the program has what came before, and the
\* slave has sent the byte that is asked for, or is asked for it.
Free ==
    /\ At("addressRead") => ~waiting
    /\ ~At("busIdle") /\ ~At("nextByte") /\ ~At("lastByte") /\ ~At("stop")
    /\ status # "Success"

LEMMA ReadsStep ==
    ASSUME ScriptInv, ReadInv, Next
    PROVE  ReadInv'
<1> USE Where
<1> SUFFICES ASSUME call'.op \in Reads
             PROVE  ReadInv'
  BY DEF ReadInv
<1>1. CASE Bus
  <2>1. /\ call' = call /\ script' = script /\ Head(script)' = Head(script) /\ data' = data
        /\ waiting' = waiting /\ status' = status /\ stopped' = stopped
    BY <1>1, BusStays DEF mainVars
  <2>2. V' = V
    BY <2>1 DEF V
  <2>3. ASSUME Free
        PROVE  ReadInv'
    BY <2>1, <2>3 DEF ReadInv, Free, At
  <2>4. ASSUME NEW nack \in BOOLEAN, HwWrite(nack)
        PROVE  ReadInv'
    <3>1. doing.do \in {"address", "byte"}
      BY <2>4 DEF HwWrite
    <3>2. Free
      BY <2>1, <3>1 DEF ReadInv, Free, Asked, Done, Ending, At
    <3> QED
      BY <2>3, <3>2
  <2>5. ASSUME NEW nack \in BOOLEAN, HwReadAddress(nack)
        PROVE  ReadInv'
    <3>1. CASE At("addressRead") /\ waiting
      <4>1. /\ busState' = busState /\ doing.do = "addressRead" /\ doing'.do = "nothing"
            /\ sb' = ~nack /\ (~nack => sent' = 1)
        BY <2>5 DEF HwReadAddress, Nothing, Step
      <4>2. status # "Success"
        BY <3>1 DEF ScriptInv, At
      <4> QED
        BY <2>1, <3>1, <4>1, <4>2 DEF ReadInv, At, Done
    <3>2. CASE ~(At("addressRead") /\ waiting)
      <4>1. doing.do = "addressRead"
        BY <2>5 DEF HwReadAddress
      <4>2. Free
        BY <2>1, <3>2, <4>1 DEF ReadInv, Free, Asked, Done, Ending, At
      <4> QED
        BY <2>3, <4>2
    <3> QED
      BY <3>1, <3>2
  <2>6. CASE HwReadByte
    <3>1. doing.do = "nextByte" /\ doing'.do = "nothing" /\ sent' = sent + 1
      BY <2>6 DEF HwReadByte, Nothing, Step
    <3>2. CASE At("nextByte") \/ At("lastByte")
      <4>1. V # 1 /\ waiting /\ sent = V - 1 /\ V \in Nat
        BY <2>1, <3>1, <3>2 DEF ReadInv, Done, At, V
      <4>2. sent' = V /\ status # "Success"
        BY <3>1, <3>2, <4>1 DEF ScriptInv, At
      <4> QED
        BY <2>1, <2>2, <3>1, <3>2, <4>1, <4>2 DEF ReadInv, Done, At
    <3>3. CASE ~At("nextByte") /\ ~At("lastByte")
      <4>1. Free
        BY <2>1, <3>1, <3>3 DEF ReadInv, Free, Asked, Done, Ending, At
      <4> QED
        BY <2>3, <4>1
    <3> QED
      BY <3>2, <3>3
  <2>7. CASE HwStop
    <3>1. doing.do = "stop" /\ doing'.do = "nothing" /\ sent' = sent
      BY <2>7 DEF HwStop, Nothing, Step
    <3>2. CASE At("stop") \/ status = "Success"
      BY <2>1, <3>1, <3>2 DEF ReadInv, ScriptInv, Ending, At
    <3>3. CASE ~At("stop") /\ status # "Success"
      <4>1. Free
        BY <2>1, <3>1, <3>3 DEF ReadInv, Free, Asked, Done, Ending, At
      <4> QED
        BY <2>3, <4>1
    <3> QED
      BY <3>2, <3>3
  <2>8. CASE OtherMaster
    <3>1. /\ doing' = doing /\ mb' = mb /\ sb' = sb /\ sent' = sent
          /\ busState # "owner"
      BY <2>8 DEF OtherMaster
    <3>2. ~(At("addressRead") /\ waiting) /\ ~At("busIdle")
      BY <2>1, <3>1 DEF ReadInv
    <3> QED
      BY <2>1, <2>2, <3>1, <3>2 DEF ReadInv, At, Done, Ending
  <2> QED
    BY <1>1, <2>4, <2>5, <2>6, <2>7, <2>8 DEF Bus
<1>2. CASE Tells
  <2>1. /\ call' = call /\ script' = script /\ script # <<>> /\ waiting' = TRUE
        /\ status' = "running" /\ mb' = FALSE /\ sb' = FALSE /\ data' = data /\ sent' = sent
    BY <1>2, TellsStays DEF Tells, SendAddress, SendByte, SendStop, AskByte, Do
  <2>2. Head(script)' = Head(script) /\ V' = V
    BY <2>1 DEF V
  <2>3. CASE SendAddress
    <3>1. /\ Head(script).do \in {"address", "addressRead"}
          /\ doing' = Head(script) /\ busState' = "owner"
      BY <2>3 DEF SendAddress, At, Do
    <3> QED
      BY <2>1, <2>2, <3>1 DEF ReadInv, At, Asked
  <2>4. CASE SendByte
    <3>1. Head(script).do = "byte"
      BY <2>4 DEF SendByte, At
    <3> QED
      BY <2>1, <2>2, <3>1 DEF ReadInv, At
  <2>5. CASE SendStop
    BY <2>1, <2>5 DEF SendStop, At, Located, KindOf, Reads
  <2>6. CASE AskByte
    <3>1. Head(script).do \in {"nextByte", "lastByte"} /\ ~waiting /\ V # 1
      BY <2>6 DEF AskByte, At, V
    <3>2. doing'.do = "nextByte"
      BY <2>1, <2>6 DEF AskByte, Do, Steps
    <3> QED
      BY <2>1, <2>2, <3>1, <3>2 DEF ReadInv, At
  <2> QED
    BY <1>2, <2>3, <2>4, <2>5, <2>6 DEF Tells
<1>3. CASE Advances
  <2>1. script # <<>> /\ call' = call /\ call.op \in Reads
    BY <1>3 DEF Advances, Acknowledged, Idle, Restart, SetClock, SlaveOnBus, TakeByte, At
  <2>2. Moved
    BY <1>3, AdvancesMoves
  <2>3. CASE Acknowledged /\ ~rxnack
    <3>1. Head(script).do \in {"address", "byte"} /\ data' = data
      BY <2>3 DEF Acknowledged, At
    <3>2. Head(script)'.do \in {"byte", "addressRead"} /\ script' # <<>> /\ status' = "running"
      BY <2>1, <2>2, <3>1 DEF Moved, Follows, LastIs, Step, Reads
    <3> QED
      BY <2>1, <2>2, <3>1, <3>2 DEF ReadInv, Moved, At
  <2>4. CASE Idle
    <3>1. /\ Head(script).do \in {"stop", "busIdle", "waitIdle"} /\ busState = "idle"
          /\ data' = data /\ doing' = doing /\ sent' = sent /\ stopped' = stopped
      BY <2>4 DEF Idle, At, hwVars
    <3>2. Head(script).do = "stop"
      BY <2>1, <3>1 DEF ReadInv, At, Located, KindOf, Reads
    <3>3. script' = <<>>
      BY <2>2, <3>2 DEF Moved, Follows
    <3> QED
      BY <2>1, <3>1, <3>2, <3>3 DEF ReadInv, At, Ending
  <2>5. CASE SlaveOnBus /\ sb
    <3>1. /\ Head(script).do = "addressRead" /\ waiting /\ sb
          /\ data' = data /\ doing' = doing /\ sent' = sent /\ busState' = busState
      BY <2>5 DEF SlaveOnBus, At, hwVars
    <3>2. Done /\ sent = 1 /\ busState = "owner" /\ data = OneTo(0)
      BY <2>1, <3>1 DEF ReadInv, At
    <3>3. /\ script' # <<>> /\ status' = "running" /\ ~waiting'
          /\ Head(script)' = IF call.n = 0 THEN Step("busIdle", 0) ELSE ReadStep(call.n, 1)
      BY <2>1, <2>2, <3>1 DEF Moved, Follows, LastIs, Step, Reads
    <3>4. CASE call.n = 0
      <4>1. Head(script)'.do = "busIdle"
        BY <3>3, <3>4 DEF Step
      <4> QED
        BY <3>1, <3>2, <3>3, <4>1 DEF ReadInv, At, Done
    <3>5. CASE call.n # 0
      <4>1. Head(script)'.do \in {"nextByte", "lastByte"} /\ Head(script)'.v = 1
        BY <3>3, <3>5 DEF Step, ReadStep
      <4>2. V' = 1 /\ V' - 1 = 0
        BY <4>1 DEF V
      <4> QED
        BY <3>1, <3>2, <3>3, <4>1, <4>2 DEF ReadInv, At, Done
    <3> QED
      BY <3>4, <3>5
  <2>6. CASE TakeByte /\ ~At("lastByte")
    <3>1. /\ Head(script).do = "nextByte" /\ (waiting \/ V = 1)
          /\ sb /\ data' = Append(data, sent)
          /\ doing' = doing /\ sent' = sent
      BY <2>6 DEF TakeByte, At, V
    <3>2. V \in Nat \ {0}
      BY <2>1, <3>1 DEF Located, KindOf, V
    <3>3. data = OneTo(V - 1) /\ sent = V /\ Done
      BY <2>1, <3>1 DEF ReadInv, At
    <3>4. data' = OneTo(V)
      BY <3>1, <3>2, <3>3, OneToNext
    <3>5. script' # <<>> /\ status' = "running" /\ ~waiting' /\ Head(script)' = ReadStep(call.n, V + 1)
      BY <2>1, <2>2, <3>1 DEF Moved, Follows, LastIs, Step, Reads, V
    <3>6. Head(script)'.do \in {"nextByte", "lastByte"} /\ Head(script)'.v = V + 1
      BY <3>5 DEF ReadStep, Step
    <3>7. V' # 1 /\ V' - 1 = V
      BY <3>2, <3>6 DEF V
    <3> QED
      BY <3>1, <3>3, <3>4, <3>5, <3>6, <3>7 DEF ReadInv, At, Done
  <2>7. CASE Restart \/ SetClock
    BY <2>1, <2>7 DEF Restart, SetClock, At, Located, KindOf, Reads
  <2> QED
    BY <1>3, <2>3, <2>4, <2>5, <2>6, <2>7 DEF Advances
<1>4. CASE Breaks
  BY <1>4, BreaksEnds DEF ReadInv, At
<1>5. CASE Sets
  <2>1. /\ script # <<>> /\ call' = call
        /\ Head(script).do \in {"disable", "setBaud", "forceIdle", "softReset"}
    BY <1>5 DEF Sets, Disable, SetBaud, ForceIdle, SoftReset, At
  <2> QED
    BY <2>1 DEF Located, KindOf, Reads
<1>6. CASE Acknowledged /\ rxnack
  <2>1. ~At("lastByte")
    BY <1>6 DEF Acknowledged, At
  <2> QED
    BY <1>6, <2>1, StopsWait DEF ReadInv, At
<1>7. CASE TakeByte /\ At("lastByte")
  <2>1. /\ script # <<>> /\ Head(script).do = "lastByte" /\ (waiting \/ V = 1)
        /\ sb /\ data' = Append(data, sent) /\ sent' = sent /\ call' = call
    BY <1>7 DEF TakeByte, At, V
  <2>2. V \in Nat \ {0} /\ V = call.n
    BY <2>1 DEF Located, KindOf, V
  <2>3. data = OneTo(V - 1) /\ sent = V
    BY <2>1 DEF ReadInv, At
  <2>4. data' = OneTo(call.n) /\ sent' = call.n
    BY <2>1, <2>2, <2>3, OneToNext
  <2> QED
    BY <1>7, <2>1, <2>4, StopsWait DEF ReadInv, At, Ending
<1>8. CASE \E c \in Calls : Invoke(c)
  <2>1. PICK c \in Calls : Invoke(c)
    BY <1>8
  <2>2. call' = c /\ data' = <<>>
    BY <2>1 DEF Invoke
  <2> QED
    BY <2>1, <2>2, InvokeStarts, OneToNone DEF ReadInv, At, Starts, Reads
<1> QED
  BY <1>1, <1>2, <1>3, <1>4, <1>5, <1>6, <1>7, <1>8, MainKinds DEF Next

-----------------------------------------------------------------------------
(* The theorems.                                                           *)

LEMMA Initially == Init => IInv
<1> SUFFICES ASSUME Init PROVE IInv
  OBVIOUS
<1>1. script = <<>> /\ waiting = FALSE /\ status = "Error" /\ unsure = TRUE
      /\ frequencyHz \in Speeds /\ call.op = "none"
  BY WireAssumption DEF Init, Call
<1>2. ScriptInv
  BY <1>1 DEF ScriptInv
<1>3. FlagInv /\ WriteInv /\ ReadInv /\ SpeedInv /\ WriteReleases
  BY <1>1 DEF FlagInv, WriteInv, ReadInv, Reads, SpeedInv, WriteReleases, At
<1> QED
  BY <1>2, <1>3 DEF IInv

LEMMA StepKeeps == IInv /\ [Next]_vars => IInv'
<1> SUFFICES ASSUME IInv, [Next]_vars PROVE IInv'
  OBVIOUS
<1>1. CASE Next
  BY <1>1, ScriptStep, FlagStep, WriteStep, ReadsStep, ReleasesStep, SpeedStep DEF IInv
<1>2. CASE UNCHANGED vars
  <2> USE <1>2 DEF vars, hwVars, mainVars
  <2>1. ScriptInv'
    BY Stays DEF IInv
  <2>2. FlagInv' /\ WriteReleases'
    BY DEF IInv, FlagInv, WriteReleases, At, Done, Asked
  <2>3. V' = V
    BY DEF V
  <2>4. WriteInv' /\ SpeedInv'
    BY <2>3 DEF IInv, WriteInv, SpeedInv, At, Done, Ending
  <2>5. ReadInv'
    BY <2>3 DEF IInv, ReadInv, At, Done, Asked, Ending
  <2> QED
    BY <2>1, <2>2, <2>4, <2>5 DEF IInv
<1> QED
  BY <1>1, <1>2

\* The script, the flags and the data agree in every state.
THEOREM Invariance == Spec => []IInv
BY Initially, StepKeeps, PTL DEF Spec

\* writeBytes() returns success only when the slave has every byte, in order and
\* once, whatever an earlier call has left on the bus.
THEOREM WritesAreDelivered == Spec => []WriteDelivered
<1>1. IInv => WriteDelivered
  BY DEF IInv, WriteInv, WriteDelivered
<1> QED
  BY <1>1, Invariance, PTL

\* readBytes() and readRegisterData() return success only with what the slave has
\* sent, and behind a stop.
THEOREM ReadsAreComplete == Spec => []ReadComplete
<1>1. IInv => ReadComplete
  BY DEF IInv, ReadInv, ReadComplete, Reads
<1> QED
  BY <1>1, Invariance, PTL

\* A write that reports that nobody has acknowledged has sent a stop.
THEOREM BusIsReleased == Spec => []WriteReleases
<1>1. IInv => WriteReleases
  BY DEF IInv
<1> QED
  BY <1>1, Invariance, PTL

\* Behind a call that has not failed the register holds what _frequencyHz says.
THEOREM SpeedIsKnown == Spec => []SpeedKnown
<1>1. IInv => SpeedKnown
  BY DEF IInv, ScriptInv, SpeedInv, SpeedKnown, At
<1> QED
  BY <1>1, Invariance, PTL

\* The rise times for which setBaudRegister() is right at a speed: halfClock *
\* riseTime must fit 32 bits, or nearly, and at 3400 kHz the register counts in
\* steps that are too large for most of the others.
RiseTimes(speed) ==
    CASE speed = 1 -> 0 .. 1111
      [] speed = 2 -> 0 .. 357
      [] speed = 3 -> 0 .. 178
      [] speed = 4 -> (3 .. 35) \cup (45 .. 76) \cup (86 .. 118)

LEMMA Power == 2^26 = 67108864
BY SMT

LEMMA RateFits ==
    ASSUME NEW speed \in 1 .. 4, RiseTime \in RiseTimes(speed)
    PROVE  LET cycles == KiloHertz[speed] * (1000 * (10 + 2 * Baud(speed)) + 48 * RiseTime)
           IN  48000000 <= cycles /\ 9 * cycles <= 480000000
<1>1. RiseTerm = ((375000 * RiseTime) % 67108864) \div 15625000
  BY Power, SMT DEF RiseTerm
<1>2. CASE speed = 1
  <2>1. RiseTime \in 0 .. 1111 /\ KiloHertz[speed] = 100
    BY <1>2, SMT DEF RiseTimes, KiloHertz
  <2>2. RiseTerm \in 0 .. 4
    BY <1>1, <2>1, SMT
  <2>3. Baud(speed) = 235 - RiseTerm
    BY <2>1, <2>2, SMT DEF Baud
  <2> QED
    BY <1>1, <2>1, <2>2, <2>3, SMT
<1>3. CASE speed = 2
  <2>1. RiseTime \in 0 .. 357 /\ KiloHertz[speed] = 400
    BY <1>3, SMT DEF RiseTimes, KiloHertz
  <2>2. RiseTerm \in 0 .. 4
    BY <1>1, <2>1, SMT
  <2>3. Baud(speed) = 55 - RiseTerm
    BY <2>1, <2>2, SMT DEF Baud
  <2> QED
    BY <1>1, <2>1, <2>2, <2>3, SMT
<1>4. CASE speed = 3
  <2>1. RiseTime \in 0 .. 178 /\ KiloHertz[speed] = 1000
    BY <1>4, SMT DEF RiseTimes, KiloHertz
  <2>2. RiseTerm \in 0 .. 4
    BY <1>1, <2>1, SMT
  <2>3. Baud(speed) = 19 - RiseTerm
    BY <2>1, <2>2, SMT DEF Baud
  <2> QED
    BY <1>1, <2>1, <2>2, <2>3, SMT
<1>5. CASE speed = 4
  <2>1. RiseTime \in (3 .. 35) \cup (45 .. 76) \cup (86 .. 118) /\ KiloHertz[speed] = 3400
    BY <1>5, SMT DEF RiseTimes, KiloHertz
  <2>2. RiseTerm \in 0 .. 2
    BY <1>1, <2>1, SMT
  <2>3. Baud(speed) = 2 - RiseTerm
    BY <2>1, <2>2, SMT DEF Baud
  <2> QED
    BY <1>1, <2>1, <2>2, <2>3, SMT
<1> QED
  BY <1>2, <1>3, <1>4, <1>5, SMT

\* "f_SCL = f_GCLK / (10 + 2*BAUD + f_GCLK * T_RISE)": behind a call that has not
\* failed the bus is not faster than asked for, and at least nine tenths as fast.
THEOREM RatesAreAsAsked ==
    ASSUME \A speed \in Speeds : RiseTime \in RiseTimes(speed)
    PROVE  Spec => []RateAsAsked
<1>1. IInv => RateAsAsked
  <2>1. SUFFICES ASSUME IInv, ~unsure, status # "running"
                 PROVE  LET cycles == KiloHertz[frequencyHz] * (1000 * (10 + 2 * baud) + 48 * RiseTime)
                        IN  48000000 <= cycles /\ 9 * cycles <= 480000000
    BY SMT DEF RateAsAsked
  <2>2. frequencyHz \in Speeds /\ baud = Baud(frequencyHz)
    BY <2>1, SMT DEF IInv, ScriptInv, SpeedInv, At
  <2>3. frequencyHz \in 1 .. 4 /\ RiseTime \in RiseTimes(frequencyHz)
    BY <2>2, WireAssumption, SMT
  <2> QED
    BY <2>2, <2>3, RateFits, SMT
<1> QED
  BY <1>1, Invariance, PTL

\* The constructor's "_riseTime(90_ns)" is such a rise time at every speed.
COROLLARY DefaultRateIsAsAsked ==
    ASSUME RiseTime = 90
    PROVE  Spec => []RateAsAsked
<1>1. \A speed \in Speeds : RiseTime \in RiseTimes(speed)
  BY WireAssumption, SMT DEF RiseTimes
<1> QED
  BY <1>1, RatesAreAsAsked
=============================================================================
