-------------------------- MODULE SerialLineProofs --------------------------
(***************************************************************************)
(* The serial line, for any delays, any length of a call and any width of  *)
(* the counters that holds it.  A call takes nothing from the device       *)
(* before isReady() has answered; from then on what it has counted is what *)
(* it has taken and written, until a -1 of recv() is added to the counter. *)
(***************************************************************************)
EXTENDS SerialLine, SequenceTheorems, TLAPS

\* The call has not begun to read.
Before == {"idle", "isReady", "settle", "poll", "write"}
Places == 0 .. MinusOne

Types ==
    /\ state \in {"Initialized", "Open", "NoConnection"}
    /\ deadline \in Nat /\ quiet \in 0 .. RetryWait
    /\ rx \in Seq(Byte) /\ taken \in Seq(Byte)
    /\ op \in Ops /\ want \in 0 .. MaxLen /\ count \in Places
    /\ buf = [i \in Places |-> buf[i]]
    /\ pc \in Before \cup {"take", "readBytes", "done"}

\* What each place of a call knows of it.
Course ==
    /\ pc \in Before => count = 0 /\ taken = <<>> /\ ~cut /\ \A i \in Places : buf[i] = Blank
    /\ op = "receive" => want = 1
    /\ cut => op = "read"
    /\ pc = "take" => /\ op \in {"receive", "block"}
                      /\ count = 0 \/ (op = "block" /\ count < want)
    /\ pc = "readBytes" => op = "read"

\* What the call counts, what it has taken and what it has written.
Counted == cut \/ (count = Len(taken) /\ \A i \in 1 .. count : buf[i - 1] = taken[i])

\* A block goes on behind any byte but the mark and zero.
Block ==
    op = "block" => /\ \A i \in 1 .. Len(taken) - 1 : taken[i] = Char
                    /\ pc = "take" => \A i \in 1 .. Len(taken) : taken[i] = Char

\* The ticks since the last question and those to the next one.
Retry == state = "NoConnection" /\ pc # "settle" => quiet + deadline >= RetryWait

IInv == Types /\ Course /\ Counted /\ Block /\ InBuffer /\ Retry

-----------------------------------------------------------------------------
(* Numbers.                                                                *)

LEMMA Constants ==
    /\ RetryWait \in Nat \ {0} /\ InitialWait \in Nat /\ MaxLen \in Nat \ {0}
    /\ Word \in Nat \ {0} /\ MaxLen + 1 < Word /\ MinusOne \in Nat /\ MinusOne = Word - 1
BY SerialLineAssumption DEF MinusOne

\* A counter that does not wrap.
LEMMA SmallMod == \A a \in 0 .. MinusOne : a % Word = a
BY Constants, SMT

LEMMA ModRange == \A a \in Nat : a % Word \in 0 .. MinusOne
BY Constants, SMT

\* The rest of the buffer, in the arithmetic of the counter.
LEMMA RestMod == \A a, b \in 0 .. MaxLen : a < b => (Word + b - a) % Word = b - a
<1> SUFFICES ASSUME NEW a \in 0 .. MaxLen, NEW b \in 0 .. MaxLen, a < b
             PROVE  (Word + b - a) % Word = b - a
  OBVIOUS
<1> DEFINE d == b - a
<1>1. d \in Nat /\ d < Word /\ Word + b - a = Word + d
  BY Constants
<1> HIDE DEF d
<1>2. (Word + d) % Word = d
  BY <1>1, Constants, SMT
<1> QED
  BY <1>1, <1>2 DEF d

LEMMA MinPair ==
    ASSUME NEW a \in Int, NEW b \in Int
    PROVE  Min({a, b}) = IF a <= b THEN a ELSE b
<1> DEFINE m == IF a <= b THEN a ELSE b
<1>1. m \in {a, b} /\ \A y \in {a, b} : m <= y
  OBVIOUS
<1>2. \A x \in {a, b} : (\A y \in {a, b} : x <= y) => x = m
  OBVIOUS
<1> QED
  BY <1>1, <1>2 DEF Min

-----------------------------------------------------------------------------
(* What a step takes from the device.                                      *)

LEMMA Taken ==
    ASSUME Types, NEW n \in 1 .. Len(rx), count + n <= MinusOne, Take(n)
    PROVE  /\ count' = count + n /\ count' \in Places
           /\ rx' \in Seq(Byte)
           /\ buf' = [i \in Places |-> buf'[i]]
           /\ \A i \in Places : (i < count \/ i >= count + n) => buf'[i] = buf[i]
           /\ \A j \in 1 .. n : buf'[count + j - 1] = rx[j]
<1>0. /\ count \in Nat /\ n \in Nat /\ count + n \in 0 .. MinusOne /\ n <= Len(rx)
      /\ Len(rx) \in Nat /\ rx \in Seq(Byte) /\ MinusOne \in Nat
      /\ \A j \in 1 .. n : count + j - 1 \in Places /\ j \in Nat
  BY Constants, SMTT(30) DEF Types, Places
<1>1. count' = count + n /\ count' \in Places
  <2>1. count' = (count + n) % Word
    BY DEF Take
  <2>2. (count + n) % Word = count + n
    BY <1>0, SmallMod, Zenon
  <2> QED
    BY <1>0, <2>1, <2>2 DEF Places
<1>2. rx' \in Seq(Byte)
  <2>1. rx' = SubSeq(rx, n + 1, Len(rx))
    BY DEF Take
  <2>2. \A k \in n + 1 .. Len(rx) : rx[k] \in Byte
    BY <1>0, ElementOfSeq
  <2> QED
    BY <1>0, <2>1, <2>2, SubSeqProperties
<1>3. \A j \in 1 .. n : (count + j - 1) % Word = count + j - 1
  <2>1. ASSUME NEW j \in 1 .. n PROVE (count + j - 1) % Word = count + j - 1
    <3>1. count + j - 1 \in 0 .. MinusOne
      BY <1>0 DEF Places
    <3> QED
      BY <3>1, SmallMod, Zenon
  <2> QED
    BY <2>1
<1>4. \A i \in Places, j \in 1 .. n : i = (count + j - 1) % Word <=> j = i - count + 1
  <2>1. ASSUME NEW i \in Places, NEW j \in 1 .. n
        PROVE  i = (count + j - 1) % Word <=> j = i - count + 1
    <3>1. (count + j - 1) % Word = count + j - 1
      BY <1>3
    <3>2. i \in Nat /\ j \in Nat
      BY <1>0 DEF Places
    <3> QED
      BY <1>0, <3>1, <3>2
  <2> QED
    BY <2>1
<1>5. buf' = [i \in Places |->
                  IF \E j \in 1 .. n : i = (count + j - 1) % Word
                  THEN rx[CHOOSE j \in 1 .. n : i = (count + j - 1) % Word] ELSE buf[i]]
  BY DEF Take, Places
<1>6. ASSUME NEW i \in Places, i < count \/ i >= count + n PROVE buf'[i] = buf[i]
  <2>1. ~ \E j \in 1 .. n : i = (count + j - 1) % Word
    <3> SUFFICES ASSUME NEW j \in 1 .. n, i = (count + j - 1) % Word PROVE FALSE
      OBVIOUS
    <3>1. j = i - count + 1
      BY <1>4
    <3>2. i \in Nat /\ j \in Nat /\ j <= n
      BY <1>0 DEF Places
    <3> QED
      BY <1>0, <1>6, <3>1, <3>2
  <2> QED
    BY <1>5, <2>1, Zenon
<1>7. ASSUME NEW j \in 1 .. n PROVE buf'[count + j - 1] = rx[j]
  <2> DEFINE i == count + j - 1
  <2>1. i \in Places /\ i = (count + j - 1) % Word
    <3>1. (count + j - 1) % Word = count + j - 1
      BY <1>3
    <3> QED
      BY <1>0, <3>1, Zenon
  <2>2. \A k \in 1 .. n : i = (count + k - 1) % Word => k = j
    BY <1>4, <2>1
  <2>3. (CHOOSE k \in 1 .. n : i = (count + k - 1) % Word) = j
    BY <2>1, <2>2, Zenon
  <2> HIDE DEF i
  <2>4. buf'[i] = rx[j]
    BY <1>5, <2>1, <2>3, Zenon
  <2> QED
    BY <2>4 DEF i
<1> QED
  BY <1>1, <1>2, <1>5, <1>6, <1>7

LEMMA TakenBytes ==
    ASSUME Types, NEW n \in 1 .. Len(rx), Take(n), ~cut
    PROVE  /\ taken' \in Seq(Byte) /\ Len(taken') = Len(taken) + n
           /\ \A i \in 1 .. Len(taken) : taken'[i] = taken[i]
           /\ \A j \in 1 .. n : taken'[Len(taken) + j] = rx[j]
<1>1. n \in 1 .. Len(rx) /\ Len(rx) \in Nat /\ rx \in Seq(Byte) /\ taken \in Seq(Byte)
  BY DEF Types
<1> DEFINE head == SubSeq(rx, 1, n)
<1>2. head \in Seq(Byte) /\ Len(head) = n /\ \A j \in 1 .. n : head[j] = rx[j]
  <2>1. \A k \in 1 .. n : rx[k] \in Byte
    BY <1>1, ElementOfSeq
  <2> QED
    BY <1>1, <2>1, SubSeqProperties
<1>3. taken' = taken \o head
  BY DEF Take
<1> HIDE DEF head
<1>4. \A i \in 1 .. Len(taken) + Len(head) :
          taken'[i] = IF i <= Len(taken) THEN taken[i] ELSE head[i - Len(taken)]
  BY <1>1, <1>2, <1>3, ConcatProperties
<1>5. taken' \in Seq(Byte) /\ Len(taken') = Len(taken) + n
  BY <1>1, <1>2, <1>3, ConcatProperties
<1>6. ASSUME NEW j \in 1 .. n PROVE taken'[Len(taken) + j] = rx[j]
  <2>1. Len(taken) + j \in 1 .. Len(taken) + Len(head) /\ ~(Len(taken) + j <= Len(taken))
        /\ Len(taken) + j - Len(taken) = j
    BY <1>1, <1>2
  <2> QED
    BY <1>2, <1>4, <2>1
<1>7. ASSUME NEW i \in 1 .. Len(taken) PROVE taken'[i] = taken[i]
  <2>1. i \in 1 .. Len(taken) + Len(head) /\ i <= Len(taken)
    BY <1>1, <1>2
  <2> QED
    BY <1>4, <2>1
<1> QED
  BY <1>5, <1>6, <1>7

\* Bytes that fit into the counter stay counted.
LEMMA TakenCounted ==
    ASSUME Types, Counted, NEW n \in 1 .. Len(rx), count + n <= MinusOne, Take(n)
    PROVE  Counted' /\ taken' \in Seq(Byte)
<1>1. CASE cut
  BY <1>1 DEF Take, Counted, Types
<1>2. CASE ~cut
  <2>1. count = Len(taken) /\ \A i \in 1 .. count : buf[i - 1] = taken[i]
    BY <1>2 DEF Counted
  <2>2. /\ taken' \in Seq(Byte) /\ Len(taken') = Len(taken) + n
        /\ \A i \in 1 .. Len(taken) : taken'[i] = taken[i]
        /\ \A j \in 1 .. n : taken'[Len(taken) + j] = rx[j]
    BY <1>2, TakenBytes
  <2>3. /\ count' = count + n
        /\ \A i \in Places : (i < count \/ i >= count + n) => buf'[i] = buf[i]
        /\ \A j \in 1 .. n : buf'[count + j - 1] = rx[j]
    BY Taken
  <2>4. count \in Nat /\ n \in Nat /\ MinusOne \in Nat
    BY Constants DEF Types, Places
  <2>5. ASSUME NEW i \in 1 .. count' PROVE buf'[i - 1] = taken'[i]
    <3>1. CASE i <= count
      <4>1. i - 1 \in Places /\ i - 1 < count /\ i \in 1 .. count
        BY <2>3, <2>4, <3>1 DEF Places
      <4> QED
        BY <2>1, <2>2, <2>3, <4>1
    <3>2. CASE i > count
      <4>1. PICK j \in 1 .. n : j = i - count
        BY <2>3, <2>4, <3>2
      <4>2. i = count + j /\ i - 1 = count + j - 1
        BY <2>4, <4>1
      <4> QED
        BY <2>1, <2>2, <2>3, <4>2
    <3> QED
      BY <2>3, <2>4, <3>1, <3>2
  <2> QED
    BY <2>1, <2>2, <2>3, <2>5 DEF Counted
<1> QED
  BY <1>1, <1>2

-----------------------------------------------------------------------------
(* What isReady() does.                                                    *)

Returns == pc' = "idle" /\ op' = "wait" /\ want' = 0 /\ NoData
GoesOn ==
    /\ UNCHANGED <<callVars, dataVars>>
    /\ \/ pc' \in {"poll", "settle", "write"}
       \/ pc' = "take" /\ op \in {"receive", "block"}
       \/ pc' = "readBytes" /\ op = "read"

LEMMA Answers ==
    ASSUME Types, IsReady \/ Settled
    PROVE  /\ UNCHANGED usbVars /\ (Returns \/ GoesOn)
           /\ state' \in {"Initialized", "Open", "NoConnection"} /\ deadline' \in Nat
           /\ quiet' \in {0, quiet}
           /\ Retry => Retry'
<1> USE Constants DEF Types, Returns, GoesOn, Return
<1>1. ASSUME Go PROVE Returns \/ GoesOn
  BY <1>1 DEF Go, Ops
<1>2. ASSUME Refuse PROVE (Returns \/ GoesOn) /\ pc' # "settle"
  BY <1>2 DEF Refuse
<1>3. ASSUME AskPort PROVE GoesOn /\ pc' = "settle" /\ UNCHANGED lineVars
  BY <1>3 DEF AskPort
<1>4. ASSUME NotOpen PROVE /\ Returns \/ GoesOn
                           /\ state' \in {"Initialized", "Open", "NoConnection"}
                           /\ deadline' \in Nat
                           /\ state' = "NoConnection" => deadline' = RetryWait
  BY <1>2, <1>4 DEF NotOpen, lineVars
<1>5. CASE IsReady
  BY <1>1, <1>2, <1>3, <1>4, <1>5 DEF IsReady, TooEarly, Retry, lineVars
<1>6. CASE Settled
  BY <1>1, <1>4, <1>6 DEF Settled, Retry
<1> QED
  BY <1>5, <1>6

-----------------------------------------------------------------------------
(* The invariant, one part after the other.                                *)

\* The round of readBytes() that takes bytes stays within what is wanted.
LEMMA RoundTakes ==
    ASSUME Types, ReadMore, NEW n \in 1 .. Min({Len(rx), (Word + want - count) % Word})
    PROVE  n \in 1 .. Len(rx) /\ count + n <= want /\ count + n <= MinusOne
<1>1. count \in 0 .. MaxLen /\ want \in 0 .. MaxLen /\ count < want
  BY Constants DEF Types, Places, ReadMore
<1>2. (Word + want - count) % Word = want - count
  BY <1>1, RestMod
<1>3. Len(rx) \in Nat /\ want - count \in Nat
  BY <1>1 DEF Types
<1>4. Min({Len(rx), want - count}) = IF Len(rx) <= want - count THEN Len(rx) ELSE want - count
  BY <1>3, MinPair
<1>5. n \in 1 .. (IF Len(rx) <= want - count THEN Len(rx) ELSE want - count)
  BY <1>2, <1>4
<1> QED
  BY <1>1, <1>3, <1>5, Constants

\* The byte of a block, or of receive(value).
LEMMA ByteTakes ==
    ASSUME Types, Course, TakeByte
    PROVE  1 \in 1 .. Len(rx) /\ count + 1 <= MinusOne /\ Take(1) /\ Head(rx) = rx[1]
<1>1. rx # <<>> /\ rx \in Seq(Byte) /\ Take(1)
  BY DEF TakeByte, HasByte, Types
<1>2. count = 0 \/ count < want
  BY DEF TakeByte, Course
<1> QED
  BY <1>1, <1>2, Constants DEF Types, Places

\* What a call that returns leaves behind.
LEMMA NoDataTypes ==
    ASSUME NoData
    PROVE  /\ count' = 0 /\ count' \in Places /\ taken' = <<>> /\ taken' \in Seq(Byte) /\ ~cut'
           /\ buf' = [i \in Places |-> buf'[i]] /\ \A i \in Places : buf'[i] = Blank
<1>1. buf' = [i \in Places |-> Blank]
  BY DEF NoData, Places
<1>2. \A i \in Places : buf'[i] = Blank
  BY <1>1
<1>3. count' = 0 /\ taken' = <<>> /\ ~cut'
  BY DEF NoData
<1>4. count' \in Places
  BY <1>3, Constants DEF Places
<1> QED
  BY <1>1, <1>2, <1>3, <1>4

LEMMA TypesStep ==
    ASSUME Types, Course, Counted, Next
    PROVE  Types'
<1> USE Constants DEF Types, lineVars, timeVars, usbVars, callVars, dataVars
<1>1. CASE Initialize
  BY <1>1 DEF Initialize
<1>2. CASE Invoke
  BY <1>2 DEF Invoke, Before
<1>3. CASE Tick
  <2>1. Min({quiet + 1, RetryWait}) = IF quiet + 1 <= RetryWait THEN quiet + 1 ELSE RetryWait
    <3>1. quiet + 1 \in Int /\ RetryWait \in Int
      OBVIOUS
    <3> QED
      BY <3>1, MinPair, Zenon
  <2> QED
    BY <1>3, <2>1 DEF Tick, Down
<1>4. CASE Host
  <2>1. rx' \in Seq(Byte)
    <3>1. ASSUME NEW b \in Byte, HostByte(b) PROVE rx' \in Seq(Byte)
      BY <3>1 DEF HostByte
    <3>2. ASSUME NEW value \in BOOLEAN, SetConfiguration(value) PROVE rx' \in Seq(Byte)
      BY <3>2 DEF SetConfiguration
    <3> QED
      BY <1>4, <3>1, <3>2 DEF Host, SetControlLineState, LoseHost
  <2> QED
    BY <1>4, <2>1 DEF Host, SetConfiguration, SetControlLineState, LoseHost, HostByte
<1>5. CASE IsReady \/ Settled
  <2>1. CASE Returns
    BY <1>5, <2>1, Answers, NoDataTypes DEF Returns, Before, Ops
  <2>2. CASE GoesOn
    BY <1>5, <2>2, Answers DEF GoesOn, Before
  <2> QED
    BY <1>5, <2>1, <2>2, Answers
<1>6. CASE Polled
  BY <1>6 DEF Polled, Before
<1>7. CASE Write \/ Done
  BY <1>7, NoDataTypes DEF Write, Done, Return, Before, Ops
<1>8. CASE TakeByte
  <2>1. 1 \in 1 .. Len(rx) /\ count + 1 <= MinusOne /\ Take(1)
    BY <1>8, ByteTakes
  <2>2. count' \in Places /\ rx' \in Seq(Byte) /\ buf' = [i \in Places |-> buf'[i]]
    BY <2>1, Taken
  <2>3. taken' \in Seq(Byte)
    BY <2>1, TakenCounted
  <2> QED
    BY <1>8, <2>2, <2>3 DEF TakeByte
<1>9. CASE NoByte \/ ReadEnd
  BY <1>9 DEF NoByte, ReadEnd
<1>10. CASE ReadRound
  <2>1. CASE ~configured
    <3>1. count' \in Places
      BY <1>10, <2>1, ModRange, SMTT(30) DEF ReadRound, Places
    <3> QED
      BY <1>10, <2>1, <3>1 DEF ReadRound
  <2>2. CASE configured /\ rx = <<>>
    BY <1>10, <2>2 DEF ReadRound
  <2>3. CASE configured /\ rx # <<>>
    <3>1. PICK n \in 1 .. Min({Len(rx), (Word + want - count) % Word}) : Take(n)
      BY <1>10, <2>3 DEF ReadRound
    <3>2. n \in 1 .. Len(rx) /\ count + n <= MinusOne
      BY <1>10, RoundTakes DEF ReadRound
    <3>3. count' \in Places /\ rx' \in Seq(Byte) /\ buf' = [i \in Places |-> buf'[i]]
      BY <3>1, <3>2, Taken
    <3>4. taken' \in Seq(Byte)
      BY <3>1, <3>2, TakenCounted
    <3> QED
      BY <1>10, <2>3, <3>3, <3>4 DEF ReadRound
  <2> QED
    BY <2>1, <2>2, <2>3
<1> QED
  BY <1>1, <1>2, <1>3, <1>4, <1>5, <1>6, <1>7, <1>8, <1>9, <1>10 DEF Next, Running

\* The parts of the invariant that speak of the call and its bytes.
Data == Course /\ Counted /\ Block /\ InBuffer

\* They hold of a call that has ended.
LEMMA DataReturns ==
    ASSUME Types, Return
    PROVE  Data'
<1>1. /\ count' = 0 /\ taken' = <<>> /\ ~cut' /\ \A i \in Places : buf'[i] = Blank
      /\ pc' = "idle" /\ op' = "wait"
  BY NoDataTypes DEF Return
<1> QED
  BY <1>1 DEF Data, Course, Counted, Block, InBuffer, Places

\* And they do not look at the time, the line or the host.
LEMMA DataSame ==
    ASSUME Data, UNCHANGED <<dataVars, callVars>>,
           \/ pc' = pc
           \/ pc' \in {"done", "isReady", "poll", "settle", "write"} /\ (pc' = "done" \/ pc \in Before)
           \/ pc \in Before /\ pc' = "take" /\ op \in {"receive", "block"}
           \/ pc \in Before /\ pc' = "readBytes" /\ op = "read"
    PROVE  Data'
<1> USE DEF Data, dataVars, callVars
<1>1. Course'
  BY DEF Course, Before
<1>2. Counted'
  BY DEF Counted
<1>3. Block'
  BY DEF Block, Course
<1>4. InBuffer'
  BY DEF InBuffer
<1> QED
  BY <1>1, <1>2, <1>3, <1>4

\* A byte of a block, or the one of receive(value).
LEMMA DataByte ==
    ASSUME Types, Data, TakeByte
    PROVE  Data'
<1> USE Constants DEF Data
<1>1. 1 \in 1 .. Len(rx) /\ count + 1 <= MinusOne /\ Take(1) /\ Head(rx) = rx[1]
  BY ByteTakes
<1>2. /\ count' = count + 1
      /\ \A i \in Places : (i < count \/ i >= count + 1) => buf'[i] = buf[i]
  BY <1>1, Taken
<1>3. Counted'
  BY <1>1, TakenCounted
<1>4. pc = "take" /\ op \in {"receive", "block"} /\ UNCHANGED <<op, want, cut>> /\ ~cut
  BY <1>1 DEF TakeByte, callVars, Course, Take
<1>5. /\ Len(taken') = Len(taken) + 1
      /\ \A i \in 1 .. Len(taken) : taken'[i] = taken[i]
      /\ \A j \in 1 .. 1 : taken'[Len(taken) + j] = rx[j]
  BY <1>1, <1>4, TakenBytes
<1>6. pc' = "done" \/ (pc' = "take" /\ BlockGoesOn(Head(rx), count'))
  BY <1>4 DEF TakeByte
<1>7. Course'
  BY <1>4, <1>6 DEF Course, Before, BlockGoesOn
<1>8. InBuffer'
  <2>1. ASSUME NEW i \in Places, buf'[i] # Blank PROVE i < want \/ (op = "block" /\ i = 0)
    <3>1. CASE i < count \/ i >= count + 1
      BY <1>2, <2>1, <3>1 DEF InBuffer, Places
    <3>2. CASE i = count
      BY <1>4, <3>2 DEF Course
    <3> QED
      BY <3>1, <3>2 DEF Types, Places
  <2> QED
    BY <1>4, <2>1 DEF InBuffer, Places
<1>9. Block'
  <2>1. CASE op = "receive"
    BY <1>4, <2>1 DEF Block
  <2>2. CASE op = "block"
    <3>1. \A i \in 1 .. Len(taken) : taken'[i] = Char
      BY <1>4, <1>5, <2>2 DEF Block
    <3>2. taken \in Seq(Byte) /\ Len(taken) \in Nat
      BY DEF Types
    <3>3. \A i \in 1 .. Len(taken') - 1 : taken'[i] = Char
      BY <1>5, <3>1, <3>2
    <3>4. ASSUME pc' = "take" PROVE \A i \in 1 .. Len(taken') : taken'[i] = Char
      <4>1. Head(rx) \in Byte
        BY <1>1 DEF Types
      <4>2. rx[1] = Char
        BY <1>1, <1>6, <3>4, <4>1 DEF BlockGoesOn, Byte
      <4>3. taken'[Len(taken) + 1] = Char
        BY <1>5, <4>2
      <4> QED
        BY <1>5, <3>1, <3>2, <4>3
    <3> QED
      BY <1>4, <3>3, <3>4 DEF Block
  <2> QED
    BY <1>4, <2>1, <2>2
<1> QED
  BY <1>3, <1>7, <1>8, <1>9

\* A round of readBytes().
LEMMA DataRound ==
    ASSUME Types, Data, ReadRound
    PROVE  Data'
<1> USE DEF Data
<1>1. pc = "readBytes" /\ op = "read" /\ UNCHANGED <<op, want>>
  BY DEF ReadRound, Course, callVars
<1>2. CASE ~configured
  BY <1>1, <1>2 DEF ReadRound, Course, Before, Counted, Block, InBuffer
<1>3. CASE configured /\ rx = <<>>
  BY <1>1, <1>3, DataSame DEF ReadRound, callVars
<1>4. CASE configured /\ rx # <<>>
  <2>1. PICK n \in 1 .. Min({Len(rx), (Word + want - count) % Word}) : Take(n)
    BY <1>4 DEF ReadRound
  <2>2. n \in 1 .. Len(rx) /\ count + n <= want /\ count + n <= MinusOne
    BY RoundTakes DEF ReadRound
  <2>3. \A i \in Places : (i < count \/ i >= count + n) => buf'[i] = buf[i]
    BY <2>1, <2>2, Taken
  <2>4. Counted'
    BY <2>1, <2>2, TakenCounted
  <2>5. Course' /\ Block'
    BY <1>1, <1>4, <2>1 DEF ReadRound, Course, Block, Before, Take
  <2>6. InBuffer'
    <3>1. ASSUME NEW i \in Places, buf'[i] # Blank PROVE i < want
      <4>1. i \in Int /\ count \in Int /\ n \in Int /\ want \in Int
        BY Constants DEF Types, Places
      <4>2. CASE i < count + n
        BY <2>2, <4>1, <4>2
      <4>3. CASE i >= count + n
        BY <1>1, <2>3, <3>1, <4>3 DEF InBuffer, Places
      <4> QED
        BY <4>1, <4>2, <4>3
    <3> QED
      BY <1>1, <3>1 DEF InBuffer, Places
  <2> QED
    BY <2>4, <2>5, <2>6
<1> QED
  BY <1>2, <1>3, <1>4

LEMMA DataStep ==
    ASSUME Types, Data, Next
    PROVE  Data'
<1>1. CASE Initialize \/ Tick \/ Host
  <2>1. UNCHANGED <<dataVars, callVars, pc>>
    BY <1>1 DEF Initialize, Tick, Host, SetConfiguration, SetControlLineState, LoseHost, HostByte
  <2> QED
    BY <2>1, DataSame
<1>2. CASE Invoke
  <2>1. /\ pc = "idle" /\ pc' = "isReady" /\ UNCHANGED dataVars
        /\ op' = "receive" => want' = 1
    BY <1>2 DEF Invoke
  <2> QED
    BY <2>1 DEF Data, Course, Before, Counted, Block, InBuffer, Places, dataVars
<1>3. CASE IsReady \/ Settled
  <2>1. CASE Returns
    BY <2>1, DataReturns DEF Returns, Return
  <2>2. CASE GoesOn
    <3>1. pc \in Before
      BY <1>3 DEF IsReady, Settled, Before
    <3> QED
      BY <2>2, <3>1, DataSame DEF GoesOn
  <2> QED
    BY <1>3, <2>1, <2>2, Answers
<1>4. CASE Polled
  BY <1>4, DataSame DEF Polled, Before
<1>5. CASE Write \/ Done
  BY <1>5, DataReturns DEF Write, Done
<1>6. CASE TakeByte
  BY <1>6, DataByte
<1>7. CASE NoByte \/ ReadEnd
  BY <1>7, DataSame DEF NoByte, ReadEnd
<1>8. CASE ReadRound
  BY <1>8, DataRound
<1> QED
  BY <1>1, <1>2, <1>3, <1>4, <1>5, <1>6, <1>7, <1>8 DEF Next, Running

LEMMA RetryStep ==
    ASSUME Types, Retry, Next
    PROVE  Retry'
<1> USE Constants DEF Types, lineVars, timeVars
<1>1. CASE Initialize
  BY <1>1 DEF Initialize, Retry
<1>2. CASE Tick
  <2>1. Min({quiet + 1, RetryWait}) = IF quiet + 1 <= RetryWait THEN quiet + 1 ELSE RetryWait
    <3>1. quiet + 1 \in Int /\ RetryWait \in Int
      OBVIOUS
    <3> QED
      BY <3>1, MinPair, Zenon
  <2> QED
    BY <1>2, <2>1 DEF Tick, Down, Retry
<1>3. CASE IsReady \/ Settled
  BY <1>3, Answers
<1>4. CASE Invoke \/ Polled \/ Write \/ Done \/ TakeByte \/ NoByte \/ ReadRound \/ ReadEnd
  <2>1. UNCHANGED <<state, deadline, quiet>> /\ pc # "settle"
    BY <1>4 DEF Invoke, Polled, Write, Done, TakeByte, NoByte, ReadRound, ReadEnd
  <2> QED
    BY <2>1 DEF Retry
<1>5. CASE Host
  <2>1. UNCHANGED <<state, deadline, quiet, pc>>
    BY <1>5 DEF Host, SetConfiguration, SetControlLineState, LoseHost, HostByte
  <2> QED
    BY <2>1 DEF Retry
<1> QED
  BY <1>1, <1>2, <1>3, <1>4, <1>5 DEF Next, Running

-----------------------------------------------------------------------------
(* The theorems.                                                           *)

LEMMA InitIInv == Init => IInv
<1> SUFFICES ASSUME Init PROVE IInv
  OBVIOUS
<1> USE Constants DEF Init
<1>1. Types
  BY DEF Types, Ops, Before, Places
<1>2. Course /\ Counted /\ Block /\ InBuffer
  BY DEF Course, Counted, Block, InBuffer, Places
<1>3. Retry
  BY DEF Retry
<1> QED
  BY <1>1, <1>2, <1>3 DEF IInv

LEMMA NextIInv == IInv /\ [Next]_vars => IInv'
<1> SUFFICES ASSUME IInv, [Next]_vars PROVE IInv'
  OBVIOUS
<1>1. CASE Next
  BY <1>1, TypesStep, DataStep, RetryStep DEF IInv, Data
<1>2. CASE UNCHANGED vars
  <2> USE <1>2 DEF vars, lineVars, timeVars, usbVars, callVars, dataVars
  <2>1. Types' /\ Retry'
    BY DEF IInv, Types, Retry
  <2>2. Data'
    BY DataSame DEF IInv, Data
  <2> QED
    BY <2>1, <2>2 DEF IInv, Data
<1> QED
  BY <1>1, <1>2

\* The invariant of the serial line: where a call is, what it has counted, taken
\* and written, and how long ago the port was asked for.
THEOREM Invariance == Spec => []IInv
BY InitIInv, NextIInv, PTL DEF Spec

\* A call hands its caller the bytes it took from the device, as many as it
\* says, in order, and of a block nothing behind its end.
THEOREM NoByteIsDropped == Spec => []BytesKept
<1>1. IInv => BytesKept
  BY DEF IInv, Course, Counted, Block, BytesKept
<1> QED
  BY <1>1, Invariance, PTL

\* No byte goes behind the caller's buffer, whatever is configured in between,
\* but the one that receiveBlock() of no bytes takes.
THEOREM BufferIsKept == Spec => []InBuffer
<1>1. IInv => InBuffer
  BY DEF IInv
<1> QED
  BY <1>1, Invariance, PTL

\* A line that has given up asks for the port again when the time of a retry is
\* over, and not before.
THEOREM RetriesArePutOff == Spec => RetryQuiet
<1>1. IInv /\ Next =>
          (state = "NoConnection" /\ pc = "isReady" /\ pc' = "settle" => quiet = RetryWait)
  <2> SUFFICES ASSUME IInv, Next, state = "NoConnection", pc = "isReady", pc' = "settle"
               PROVE  quiet = RetryWait
    OBVIOUS
  <2>1. IsReady
    BY DEF Next, Running, Initialize, Invoke, Tick, Host, SetConfiguration, SetControlLineState,
           LoseHost, HostByte, Settled, Polled, Write, TakeByte, NoByte, ReadRound, ReadEnd, Done
  <2>2. deadline = 0
    BY <2>1 DEF IsReady, TooEarly, Refuse, Return
  <2> QED
    BY <2>2, Constants DEF IInv, Retry, Types
<1>2. IInv /\ [Next]_vars =>
          [state = "NoConnection" /\ pc = "isReady" /\ pc' = "settle" => quiet = RetryWait]_vars
  BY <1>1
<1> QED
  BY <1>2, Invariance, PTL DEF Spec, RetryQuiet
=============================================================================
