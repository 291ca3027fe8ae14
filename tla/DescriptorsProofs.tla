------------------------- MODULE DescriptorsProofs -------------------------
(***************************************************************************)
(* Answers to GET_DESCRIPTOR, for any modules, any strings and any size of *)
(* the packets.  The pieces of an answer are counted by recursion over     *)
(* sequences of any length; what such a function computes is shown by      *)
(* induction, which is here a fact about sets of numbers: each has a least *)
(* element.                                                                *)
(***************************************************************************)
EXTENDS Descriptors, SequenceTheorems, FiniteSetTheorems, WellFoundedInduction, TLAPS

-----------------------------------------------------------------------------
(* Induction and recursion over 0 .. n.                                    *)

Less == {p \in Nat \X Nat : p[1] < p[2]}

LEMMA LessIsWellFounded == IsWellFoundedOn(Less, Nat)
BY NatLessThanWellFounded DEF OpToRel, Less

LEMMA Least ==
    ASSUME NEW T, T \subseteq Nat, T # {}
    PROVE  \E x \in T : \A y \in T : x <= y
<1>1. PICK x \in T : \A y \in T : ~(<<y, x>> \in Less)
  BY LessIsWellFounded, WFMin
<1>2. ASSUME NEW y \in T PROVE x <= y
  <2>1. x \in Nat /\ y \in Nat
    OBVIOUS
  <2>2. <<y, x>> \notin Less
    BY <1>1
  <2>3. <<y, x>> \in Nat \X Nat /\ <<y, x>>[1] = y /\ <<y, x>>[2] = x
    BY <2>1
  <2>4. ~(y < x)
    BY <2>2, <2>3 DEF Less
  <2> QED
    BY <2>1, <2>4
<1> QED
  BY <1>2

LEMMA Induction ==
    ASSUME NEW n \in Nat, NEW S, 0 \in S,
           \A i \in 1 .. n : i - 1 \in S => i \in S
    PROVE  0 .. n \subseteq S
<1> DEFINE T == (0 .. n) \ S
<1> SUFFICES ASSUME T # {} PROVE FALSE
  OBVIOUS
<1>1. PICK m \in T : \A y \in T : m <= y
  <2>1. T \subseteq Nat
    OBVIOUS
  <2> HIDE DEF T
  <2> QED
    BY <2>1, Least
<1>2. m # 0 /\ m \in 1 .. n /\ m - 1 \in 0 .. n
  OBVIOUS
<1>3. m - 1 \in S
  BY <1>1, <1>2
<1> QED
  BY <1>2, <1>3

\* The values a, step[1][a], step[2][step[1][a]], ...
Runs(f, n, a, step) == f[0] = a /\ \A i \in 1 .. n : f[i] = step[i][f[i - 1]]

LEMMA Recursion ==
    ASSUME NEW V, NEW n \in Nat, NEW a \in V, NEW step \in [1 .. n -> [V -> V]]
    PROVE  \E f \in [0 .. n -> V] : Runs(f, n, a, step)
<1> DEFINE S == {m \in 0 .. n : \E f \in [0 .. m -> V] : Runs(f, m, a, step)}
<1>1. 0 \in S
  <2> DEFINE g == [i \in 0 .. 0 |-> a]
  <2>1. g \in [0 .. 0 -> V] /\ Runs(g, 0, a, step)
    BY DEF Runs
  <2> HIDE DEF g
  <2>2. 0 \in 0 .. n
    OBVIOUS
  <2> QED
    BY <2>1, <2>2
<1>2. ASSUME NEW m \in 1 .. n, m - 1 \in S PROVE m \in S
  <2>1. PICK f \in [0 .. m - 1 -> V] : Runs(f, m - 1, a, step)
    BY <1>2
  <2> DEFINE g == [i \in 0 .. m |-> IF i = m THEN step[m][f[m - 1]] ELSE f[i]]
  <2>2. step[m][f[m - 1]] \in V
    OBVIOUS
  <2>3. g \in [0 .. m -> V]
    BY <2>2
  <2>4. Runs(g, m, a, step)
    BY <2>1 DEF Runs
  <2> HIDE DEF g
  <2>5. m \in 0 .. n
    OBVIOUS
  <2> QED
    BY <2>3, <2>4, <2>5
<1>3. n \in S
  <2> HIDE DEF S
  <2>1. 0 .. n \subseteq S
    BY <1>1, <1>2, Induction
  <2> QED
    BY <2>1
<1> QED
  BY <1>3

-----------------------------------------------------------------------------
(* Sums.                                                                   *)

\* SumOf() is the end of its partial sums.
LEMMA SumIs ==
    ASSUME NEW s \in Seq(Nat)
    PROVE  \E f \in [0 .. Len(s) -> Nat] :
              /\ f[0] = 0 /\ \A i \in 1 .. Len(s) : f[i] = f[i - 1] + s[i]
              /\ SumOf(s) = f[Len(s)]
<1> DEFINE n == Len(s)
           sum == CHOOSE sum : sum = [i \in 0 .. Len(s) |->
                                         IF i = 0 THEN 0 ELSE sum[i - 1] + s[i]]
<1>1. SumOf(s) = sum[Len(s)]
  BY DEF SumOf
<1>2. n \in Nat /\ \A i \in 1 .. n : s[i] \in Nat
  OBVIOUS
<1>3. PICK f \in [0 .. n -> Nat] : f[0] = 0 /\ \A i \in 1 .. n : f[i] = f[i - 1] + s[i]
  <2> DEFINE step == [i \in 1 .. n |-> [v \in Nat |-> v + s[i]]]
  <2>1. step \in [1 .. n -> [Nat -> Nat]]
    BY <1>2
  <2>2. \A i \in 1 .. n, v \in Nat : step[i][v] = v + s[i]
    OBVIOUS
  <2> HIDE DEF step, n
  <2>3. PICK f \in [0 .. n -> Nat] : Runs(f, n, 0, step)
    BY <1>2, <2>1, Recursion
  <2>4. \A i \in 1 .. n : f[i - 1] \in Nat
    BY <1>2
  <2>5. f[0] = 0 /\ \A i \in 1 .. n : f[i] = step[i][f[i - 1]]
    BY <2>3, Zenon DEF Runs
  <2>6. \A i \in 1 .. n : f[i] = f[i - 1] + s[i]
    BY <2>2, <2>4, <2>5
  <2> QED
    BY <2>5, <2>6, Zenon
<1>4. f = [i \in 0 .. Len(s) |-> IF i = 0 THEN 0 ELSE f[i - 1] + s[i]]
  BY <1>2, <1>3
<1>5. sum = [i \in 0 .. Len(s) |-> IF i = 0 THEN 0 ELSE sum[i - 1] + s[i]]
  BY <1>4
<1> HIDE DEF sum, n
<1>6. n = Len(s)
  BY DEF n
<1>7. \A i \in 0 .. n : sum[i] = f[i]
  <2> DEFINE S == {i \in 0 .. n : sum[i] = f[i]}
  <2>1. 0 \in S
    BY <1>2, <1>3, <1>5, <1>6
  <2>2. ASSUME NEW i \in 1 .. n, i - 1 \in S PROVE i \in S
    BY <1>2, <1>3, <1>5, <1>6, <2>2
  <2> HIDE DEF S
  <2>3. 0 .. n \subseteq S
    BY <1>2, <2>1, <2>2, Induction
  <2> QED
    BY <2>3 DEF S
<1>8. n \in 0 .. n
  BY <1>2
<1>9. SumOf(s) = f[n]
  BY <1>1, <1>6, <1>7, <1>8
<1> QED
  BY <1>3, <1>6, <1>9

LEMMA SumTypes ==
    ASSUME NEW s \in Seq(Nat)
    PROVE  SumOf(s) \in Nat
<1>1. PICK f \in [0 .. Len(s) -> Nat] : SumOf(s) = f[Len(s)]
  BY SumIs
<1> QED
  BY <1>1

\* A number in front is added.
LEMMA SumCons ==
    ASSUME NEW s \in Seq(Nat), NEW c \in Nat
    PROVE  SumOf(<<c>> \o s) = c + SumOf(s)
<1> DEFINE t == <<c>> \o s
           n == Len(s)
<1>1. /\ t \in Seq(Nat) /\ n \in Nat /\ Len(t) = n + 1 /\ t[1] = c
      /\ \A i \in 1 .. n : t[i + 1] = s[i] /\ s[i] \in Nat
      /\ c \in Nat
  OBVIOUS
<1> HIDE DEF t
<1>2. PICK f \in [0 .. n -> Nat] :
           /\ f[0] = 0 /\ \A i \in 1 .. n : f[i] = f[i - 1] + s[i]
           /\ SumOf(s) = f[n]
  BY SumIs
<1>3. PICK g \in [0 .. Len(t) -> Nat] :
           /\ g[0] = 0 /\ \A i \in 1 .. Len(t) : g[i] = g[i - 1] + t[i]
           /\ SumOf(t) = g[Len(t)]
  BY <1>1, SumIs
<1> HIDE DEF n
<1>4. ASSUME NEW i \in 0 .. n PROVE g[i + 1] = g[i] + t[i + 1]
  <2>1. i + 1 \in 1 .. Len(t) /\ (i + 1) - 1 = i
    BY <1>1
  <2> QED
    BY <1>3, <2>1
<1>5. g[1] = c
  <2>1. 0 \in 0 .. n /\ 0 + 1 = 1
    BY <1>1
  <2> QED
    BY <1>1, <1>3, <1>4, <2>1
<1> DEFINE S == {i \in 0 .. n : g[i + 1] = c + f[i]}
<1>6. 0 \in S
  BY <1>1, <1>2, <1>5
<1>7. ASSUME NEW i \in 1 .. n, i - 1 \in S PROVE i \in S
  <2>1. i \in Nat /\ i \in 0 .. n /\ i - 1 \in 0 .. n /\ (i - 1) + 1 = i
    BY <1>1
  <2>2. g[i] = c + f[i - 1]
    BY <1>7, <2>1
  <2>3. g[i + 1] = g[i] + s[i]
    BY <1>1, <1>4, <2>1
  <2>4. f[i] = f[i - 1] + s[i] /\ f[i - 1] \in Nat
    BY <1>2, <2>1
  <2>5. s[i] \in Nat
    BY <1>1
  <2>6. g[i + 1] = c + f[i]
    <3> HIDE DEF t
    <3>1. c \in Nat
      BY <1>1
    <3> QED
      BY <2>2, <2>3, <2>4, <2>5, <3>1
  <2> QED
    BY <2>1, <2>6
<1>8. n \in S
  <2> HIDE DEF S
  <2>1. 0 .. n \subseteq S
    BY <1>1, <1>6, <1>7, Induction
  <2> QED
    BY <1>1, <2>1
<1> QED
  BY <1>1, <1>2, <1>3, <1>8 DEF t

\* A number behind is added too.
LEMMA SumAppend ==
    ASSUME NEW s \in Seq(Nat), NEW c \in Nat
    PROVE  SumOf(Append(s, c)) = SumOf(s) + c
<1> DEFINE t == Append(s, c)
           n == Len(s)
<1>1. /\ t \in Seq(Nat) /\ n \in Nat /\ Len(t) = n + 1 /\ t[n + 1] = c
      /\ \A i \in 1 .. n : t[i] = s[i]
  OBVIOUS
<1> HIDE DEF t
<1>2. PICK f \in [0 .. n -> Nat] :
           /\ f[0] = 0 /\ \A i \in 1 .. n : f[i] = f[i - 1] + s[i]
           /\ SumOf(s) = f[n]
  BY SumIs
<1>3. PICK g \in [0 .. Len(t) -> Nat] :
           /\ g[0] = 0 /\ \A i \in 1 .. Len(t) : g[i] = g[i - 1] + t[i]
           /\ SumOf(t) = g[Len(t)]
  BY <1>1, SumIs
<1> HIDE DEF n
<1> DEFINE S == {i \in 0 .. n : g[i] = f[i]}
<1>4. 0 \in S
  BY <1>1, <1>2, <1>3
<1>5. ASSUME NEW i \in 1 .. n, i - 1 \in S PROVE i \in S
  <2>1. i \in 0 .. n /\ i \in 1 .. Len(t)
    BY <1>1
  <2> QED
    BY <1>1, <1>2, <1>3, <1>5, <2>1
<1>6. n \in S
  <2> HIDE DEF S
  <2>1. 0 .. n \subseteq S
    BY <1>1, <1>4, <1>5, Induction
  <2> QED
    BY <1>1, <2>1
<1>7. n + 1 \in 1 .. Len(t) /\ (n + 1) - 1 = n
  BY <1>1
<1>8. g[n + 1] = g[n] + c
  BY <1>1, <1>3, <1>7
<1> QED
  BY <1>1, <1>2, <1>3, <1>6, <1>8 DEF t

LEMMA SumEmpty == SumOf(<<>>) = 0
<1>1. <<>> \in Seq(Nat) /\ Len(<<>>) = 0
  OBVIOUS
<1>2. PICK f \in [0 .. Len(<<>>) -> Nat] : f[0] = 0 /\ SumOf(<<>>) = f[Len(<<>>)]
  BY <1>1, SumIs
<1> QED
  BY <1>1, <1>2

\* The length of a sequence of pieces.
Sizes(P) == \A p \in P : p.len \in Nat

LEMMA BytesTypes ==
    ASSUME NEW P, Sizes(P), NEW s \in Seq(P)
    PROVE  Bytes(s) \in Nat
<1>1. [i \in DOMAIN s |-> s[i].len] \in Seq(Nat)
  BY DEF Sizes
<1> QED
  BY <1>1, SumTypes DEF Bytes

\* A piece in front adds its length.
LEMMA BytesCons ==
    ASSUME NEW P, Sizes(P), NEW s \in Seq(P), NEW c \in P
    PROVE  Bytes(<<c>> \o s) = c.len + Bytes(s)
<1> DEFINE t == <<c>> \o s
           lens == [i \in DOMAIN s |-> s[i].len]
<1>1. lens \in Seq(Nat) /\ c.len \in Nat
  BY DEF Sizes
<1>2. [i \in DOMAIN t |-> t[i].len] = <<c.len>> \o lens
  OBVIOUS
<1> HIDE DEF lens
<1>3. SumOf(<<c.len>> \o lens) = c.len + SumOf(lens)
  BY <1>1, SumCons
<1> QED
  BY <1>2, <1>3 DEF Bytes, lens

LEMMA BytesOne ==
    ASSUME NEW c, c.len \in Nat
    PROVE  Bytes(<<c>>) = c.len
<1> DEFINE P == {c}
<1>1. Sizes(P) /\ c \in P /\ <<>> \in Seq(P)
  BY DEF Sizes
<1>2. SumOf(<<>>) = 0
  BY SumEmpty
<1>3. Bytes(<<>>) = 0
  <2>1. [i \in DOMAIN <<>> |-> <<>>[i].len] = <<>>
    OBVIOUS
  <2> QED
    BY <1>2, <2>1 DEF Bytes
<1>4. Bytes(<<c>> \o <<>>) = c.len + Bytes(<<>>)
  BY <1>1, BytesCons
<1>5. <<c>> \o <<>> = <<c>>
  OBVIOUS
<1> QED
  BY <1>3, <1>4, <1>5

-----------------------------------------------------------------------------
(* The pieces of a configuration.                                          *)

\* FlattenSeq() is the end of what it has put together.
LEMMA FlattenIs ==
    ASSUME NEW P, NEW ss \in Seq(Seq(P))
    PROVE  \E f \in [0 .. Len(ss) -> Seq(P)] :
              /\ f[0] = <<>> /\ \A i \in 1 .. Len(ss) : f[i] = f[i - 1] \o ss[i]
              /\ FlattenSeq(ss) = f[Len(ss)]
<1> DEFINE n == Len(ss)
           flat == CHOOSE flat : flat = [i \in 1 .. Len(ss) |->
                                    IF i = 1 THEN ss[i] ELSE flat[i - 1] \o ss[i]]
<1>1. n \in Nat /\ \A i \in 1 .. n : ss[i] \in Seq(P)
  OBVIOUS
<1>2. PICK f \in [0 .. n -> Seq(P)] :
           f[0] = <<>> /\ \A i \in 1 .. n : f[i] = f[i - 1] \o ss[i]
  <2> DEFINE step == [i \in 1 .. n |-> [v \in Seq(P) |-> v \o ss[i]]]
  <2>1. step \in [1 .. n -> [Seq(P) -> Seq(P)]]
    BY <1>1
  <2>2. \A i \in 1 .. n, v \in Seq(P) : step[i][v] = v \o ss[i]
    OBVIOUS
  <2>3. <<>> \in Seq(P)
    OBVIOUS
  <2> HIDE DEF step, n
  <2>4. PICK f \in [0 .. n -> Seq(P)] : Runs(f, n, <<>>, step)
    BY <1>1, <2>1, <2>3, Recursion
  <2>5. \A i \in 1 .. n : f[i - 1] \in Seq(P)
    BY <1>1
  <2>6. f[0] = <<>> /\ \A i \in 1 .. n : f[i] = step[i][f[i - 1]]
    BY <2>4, Zenon DEF Runs
  <2>7. \A i \in 1 .. n : f[i] = f[i - 1] \o ss[i]
    BY <2>2, <2>5, <2>6
  <2> QED
    BY <2>6, <2>7, Zenon
<1>3. CASE n = 0
  <2>1. ss = <<>> /\ FlattenSeq(ss) = ss
    BY <1>3 DEF FlattenSeq
  <2>2. f[n] = <<>>
    BY <1>2, <1>3
  <2> QED
    BY <1>2, <2>1, <2>2
<1>4. CASE n # 0
  <2>1. FlattenSeq(ss) = flat[n]
    BY <1>4 DEF FlattenSeq
  <2> DEFINE g == [i \in 1 .. Len(ss) |-> f[i]]
  <2>2. g = [i \in 1 .. Len(ss) |-> IF i = 1 THEN ss[i] ELSE g[i - 1] \o ss[i]]
    <3>1. ASSUME NEW i \in 1 .. Len(ss)
          PROVE  g[i] = IF i = 1 THEN ss[i] ELSE g[i - 1] \o ss[i]
      <4> HIDE DEF n
      <4>1. n = Len(ss)
        BY DEF n
      <4>2. i \in 1 .. n /\ f[i] = f[i - 1] \o ss[i]
        BY <1>2, <4>1
      <4>3. g[i] = f[i]
        OBVIOUS
      <4>4. CASE i = 1
        <5>1. i - 1 = 0
          BY <4>4
        <5>2. ss[i] \in Seq(P)
          BY <1>1, <4>2
        <5>3. f[i] = <<>> \o ss[i]
          BY <1>2, <4>2, <5>1
        <5> QED
          BY <4>4, <4>3, <5>2, <5>3
      <4>5. CASE i # 1
        <5>1. i - 1 \in 1 .. Len(ss)
          BY <1>1, <4>5, <4>1
        <5>2. g[i - 1] = f[i - 1]
          BY <5>1
        <5> QED
          BY <4>5, <4>2, <4>3, <5>2
      <4> QED
        BY <4>4, <4>5
    <3> QED
      BY <3>1
  <2> HIDE DEF g
  <2>3. flat = [i \in 1 .. Len(ss) |-> IF i = 1 THEN ss[i] ELSE flat[i - 1] \o ss[i]]
    BY <2>2
  <2> HIDE DEF flat
  <2> DEFINE S == {i \in 0 .. n : i = 0 \/ flat[i] = f[i]}
  <2>4. 0 \in S
    OBVIOUS
  <2>5. ASSUME NEW i \in 1 .. n, i - 1 \in S PROVE i \in S
    <3>1. i \in 1 .. Len(ss) /\ ss[i] \in Seq(P) /\ f[i] = f[i - 1] \o ss[i]
      BY <1>1, <1>2
    <3>2. flat[i] = IF i = 1 THEN ss[i] ELSE flat[i - 1] \o ss[i]
      BY <2>3, <3>1
    <3>3. CASE i = 1
      <4>1. i - 1 = 0
        BY <3>3
      <4>2. f[i] = <<>> \o ss[i]
        BY <1>2, <3>1, <4>1
      <4>3. flat[i] = f[i]
        BY <3>1, <3>2, <3>3, <4>2
      <4> QED
        BY <4>3
    <3>4. CASE i # 1
      <4>1. flat[i - 1] = f[i - 1]
        BY <2>5, <3>4
      <4>2. flat[i] = f[i]
        BY <3>1, <3>2, <3>4, <4>1
      <4> QED
        BY <4>2
    <3> QED
      BY <3>3, <3>4
  <2> HIDE DEF S
  <2>6. 0 .. n \subseteq S
    BY <1>1, <2>4, <2>5, Induction
  <2>7. n \in S
    BY <1>1, <2>6
  <2> QED
    BY <1>2, <1>4, <2>1, <2>7 DEF S
<1> QED
  BY <1>3, <1>4

LEMMA FlattenTypes ==
    ASSUME NEW P, NEW ss \in Seq(Seq(P))
    PROVE  FlattenSeq(ss) \in Seq(P)
<1>1. PICK f \in [0 .. Len(ss) -> Seq(P)] : FlattenSeq(ss) = f[Len(ss)]
  BY FlattenIs
<1> QED
  BY <1>1

\* A sequence behind the others comes behind them.
LEMMA FlattenAppend ==
    ASSUME NEW P, NEW ss \in Seq(Seq(P)), NEW c \in Seq(P)
    PROVE  FlattenSeq(Append(ss, c)) = FlattenSeq(ss) \o c
<1> DEFINE t == Append(ss, c)
           n == Len(ss)
<1>1. /\ t \in Seq(Seq(P)) /\ n \in Nat /\ Len(t) = n + 1 /\ t[n + 1] = c
      /\ \A i \in 1 .. n : t[i] = ss[i]
  OBVIOUS
<1> HIDE DEF t
<1>2. PICK f \in [0 .. n -> Seq(P)] :
           /\ f[0] = <<>> /\ \A i \in 1 .. n : f[i] = f[i - 1] \o ss[i]
           /\ FlattenSeq(ss) = f[n]
  BY FlattenIs
<1>3. PICK g \in [0 .. Len(t) -> Seq(P)] :
           /\ g[0] = <<>> /\ \A i \in 1 .. Len(t) : g[i] = g[i - 1] \o t[i]
           /\ FlattenSeq(t) = g[Len(t)]
  BY <1>1, FlattenIs
<1> HIDE DEF n
<1> DEFINE S == {i \in 0 .. n : g[i] = f[i]}
<1>4. 0 \in S
  BY <1>1, <1>2, <1>3
<1>5. ASSUME NEW i \in 1 .. n, i - 1 \in S PROVE i \in S
  <2>1. i \in 0 .. n /\ i \in 1 .. Len(t)
    BY <1>1
  <2>2. g[i] = g[i - 1] \o t[i] /\ f[i] = f[i - 1] \o ss[i]
    BY <1>2, <1>3, <2>1
  <2>3. g[i - 1] = f[i - 1] /\ t[i] = ss[i]
    BY <1>1, <1>5
  <2> QED
    BY <2>1, <2>2, <2>3
<1>6. n \in S
  <2> HIDE DEF S
  <2>1. 0 .. n \subseteq S
    BY <1>1, <1>4, <1>5, Induction
  <2> QED
    BY <1>1, <2>1
<1>7. n + 1 \in 1 .. Len(t) /\ (n + 1) - 1 = n
  <2>1. n \in Nat /\ Len(t) = n + 1
    BY <1>1
  <2> HIDE DEF S
  <2> QED
    BY <2>1
<1>8. g[n + 1] = g[n] \o c
  BY <1>1, <1>3, <1>7
<1> QED
  BY <1>1, <1>2, <1>3, <1>6, <1>8 DEF t

Piece ==
    {Iad(0, 2)} \cup {Interface(i, n) : i, n \in Nat}
    \cup {[what |-> "class", len |-> n] : n \in Nat}
    \cup {Endpoint(e, t) : e \in Nat, t \in EndpointTypes}

LEMMA PieceSizes == Sizes(Piece)
BY DEF Sizes, Piece, Iad, Interface, Endpoint

LEMMA CdcTypes == CdcInterface \in Seq(Piece)
<1>1. /\ Iad(0, 2) \in Piece /\ Interface(0, 1) \in Piece /\ Interface(1, 2) \in Piece
      /\ Endpoint(1, "interruptIn") \in Piece /\ Endpoint(2, "bulkOut") \in Piece
      /\ Endpoint(3, "bulkIn") \in Piece
  BY DEF Piece, EndpointTypes
<1>2. CdcCs \in Piece /\ Acm \in Piece /\ CallManagement \in Piece
  BY DEF Piece, CdcCs, Acm, CallManagement
<1> QED
  BY <1>1, <1>2 DEF CdcInterface

At == [interface : Nat, endpoint : Nat]

LEMMA ModuleTypes ==
    ASSUME NEW m \in Module, NEW at \in At
    PROVE  ModuleInterface(m, at) \in Seq(Piece)
<1> DEFINE head == <<Interface(at.interface, Len(m.endpoints)), [what |-> "class", len |-> m.extra]>>
           ends == [i \in 1 .. Len(m.endpoints) |-> Endpoint(at.endpoint + i - 1, m.endpoints[i])]
           rest == [i \in 1 .. m.interfaces - 1 |-> Interface(at.interface + i, 0)]
<1>1. /\ m.interfaces \in Nat \ {0} /\ m.extra \in Nat /\ m.endpoints \in Seq(EndpointTypes)
      /\ at.interface \in Nat /\ at.endpoint \in Nat
  BY ModuleAssumption DEF ModuleAssumption, At
<1>2. head \in Seq(Piece)
  <2>1. Interface(at.interface, Len(m.endpoints)) \in Piece
    BY <1>1 DEF Piece
  <2>2. [what |-> "class", len |-> m.extra] \in Piece
    BY <1>1 DEF Piece
  <2> QED
    BY <2>1, <2>2
<1>3. ends \in Seq(Piece)
  <2>1. Len(m.endpoints) \in Nat
    BY <1>1
  <2>2. ASSUME NEW i \in 1 .. Len(m.endpoints)
        PROVE  Endpoint(at.endpoint + i - 1, m.endpoints[i]) \in Piece
    <3>1. at.endpoint + i - 1 \in Nat /\ m.endpoints[i] \in EndpointTypes
      BY <1>1
    <3> QED
      BY <3>1 DEF Piece
  <2> QED
    BY <2>1, <2>2
<1>4. rest \in Seq(Piece)
  <2>1. m.interfaces - 1 \in Nat
    BY <1>1
  <2>2. ASSUME NEW i \in 1 .. m.interfaces - 1
        PROVE  Interface(at.interface + i, 0) \in Piece
    <3>1. at.interface + i \in Nat
      BY <1>1
    <3> QED
      BY <3>1 DEF Piece
  <2> QED
    BY <2>1, <2>2
<1> HIDE DEF head, ends, rest
<1>5. head \o ends \o rest \in Seq(Piece)
  BY <1>2, <1>3, <1>4
<1> QED
  BY <1>5 DEF ModuleInterface, head, ends, rest

LEMMA InterfaceTypes ==
    ASSUME plugged \in Seq(Module), numbers \in [Module -> At]
    PROVE  Interfaces \in Seq(Piece)
<1> DEFINE ss == [i \in 1 .. Len(plugged) |-> ModuleInterface(plugged[i], numbers[plugged[i]])]
<1>1. ASSUME NEW i \in 1 .. Len(plugged)
      PROVE  ModuleInterface(plugged[i], numbers[plugged[i]]) \in Seq(Piece)
  <2>1. plugged[i] \in Module
    OBVIOUS
  <2> QED
    BY <2>1, ModuleTypes
<1>2. ss \in Seq(Seq(Piece))
  BY <1>1
<1> HIDE DEF ss
<1>3. FlattenSeq(ss) \in Seq(Piece)
  BY <1>2, FlattenTypes
<1> QED
  BY <1>3, CdcTypes DEF Interfaces, ss

-----------------------------------------------------------------------------
(* The layout of a configuration.                                          *)

\* Interfaces up to nextIf and endpoints up to nextEp are laid out in s as a host
\* expects them.
Laid(s, nextIf, nextEp) ==
    /\ Numbers(s, "interface") = 0 .. nextIf - 1
    /\ Numbers(s, "endpoint") \subseteq 1 .. nextEp - 1
    /\ \A what \in {"interface", "endpoint"} : \A i, j \in Places(s, what) :
          s[i].number = s[j].number => i = j
    /\ \A i \in Places(s, "interface") : Cardinality(EndpointsOf(s, i)) = s[i].endpoints
    /\ \A j \in Places(s, "endpoint") :
          /\ \E i \in Places(s, "interface") : i < j
          /\ s[j].number \in DOMAIN EndPoints => s[j].type = EndPoints[s[j].number]

LEMMA CdcIsLaid == Laid(CdcInterface, 2, 4)
<1> DEFINE s == CdcInterface
<1>1. DOMAIN s = 1 .. 10
  BY DEF CdcInterface
<1>2. /\ s[1].what = "iad" /\ s[2].what = "interface" /\ s[3].what = "class"
      /\ s[4].what = "class" /\ s[5].what = "class" /\ s[6].what = "class"
      /\ s[7].what = "endpoint" /\ s[8].what = "interface" /\ s[9].what = "endpoint"
      /\ s[10].what = "endpoint"
  BY DEF CdcInterface, Iad, Interface, CdcCs, Acm, CallManagement, Endpoint
<1>3. /\ s[2].number = 0 /\ s[2].endpoints = 1 /\ s[8].number = 1 /\ s[8].endpoints = 2
      /\ s[7].number = 1 /\ s[7].type = "interruptIn" /\ s[9].number = 2
      /\ s[9].type = "bulkOut" /\ s[10].number = 3 /\ s[10].type = "bulkIn"
  BY DEF CdcInterface, Interface, Endpoint
<1> HIDE DEF s
<1>4. Places(s, "interface") = {2, 8} /\ Places(s, "endpoint") = {7, 9, 10}
  BY <1>1, <1>2 DEF Places
<1>5. Numbers(s, "interface") = 0 .. 1 /\ Numbers(s, "endpoint") \subseteq 1 .. 3
  BY <1>3, <1>4 DEF Numbers
<1>6. EndpointsOf(s, 2) = {7} /\ EndpointsOf(s, 8) = {9, 10}
  BY <1>4 DEF EndpointsOf
<1>7. Cardinality({7}) = 1 /\ Cardinality({9, 10}) = 2
  <2>1. Cardinality({7}) = 1 /\ IsFiniteSet({9}) /\ Cardinality({9}) = 1
    BY FS_Singleton
  <2>2. Cardinality({9} \cup {10}) = IF 10 \in {9} THEN Cardinality({9}) ELSE Cardinality({9}) + 1
    BY <2>1, FS_AddElement
  <2>3. {9} \cup {10} = {9, 10} /\ 10 \notin {9}
    OBVIOUS
  <2> QED
    BY <2>1, <2>2, <2>3
<1>8. DOMAIN EndPoints = 1 .. 3 /\ EndPoints[1] = "interruptIn" /\ EndPoints[2] = "bulkOut"
      /\ EndPoints[3] = "bulkIn"
  BY DEF EndPoints
<1>9. \A i \in Places(s, "interface") : Cardinality(EndpointsOf(s, i)) = s[i].endpoints
  BY <1>3, <1>4, <1>6, <1>7
<1>10. \A what \in {"interface", "endpoint"} : \A i, j \in Places(s, what) :
          s[i].number = s[j].number => i = j
  BY <1>3, <1>4
<1>11. \A j \in Places(s, "endpoint") :
          /\ \E i \in Places(s, "interface") : i < j
          /\ s[j].number \in DOMAIN EndPoints => s[j].type = EndPoints[s[j].number]
  BY <1>3, <1>4, <1>8
<1> QED
  BY <1>5, <1>9, <1>10, <1>11 DEF Laid, s

LEMMA Joined ==
    ASSUME NEW A, NEW s \in Seq(A), NEW t \in Seq(A)
    PROVE  /\ s \o t \in Seq(A) /\ Len(s \o t) = Len(s) + Len(t)
           /\ DOMAIN (s \o t) = 1 .. Len(s) + Len(t)
           /\ \A k \in 1 .. Len(s) : (s \o t)[k] = s[k]
           /\ \A k \in Len(s) + 1 .. Len(s) + Len(t) : (s \o t)[k] = t[k - Len(s)]
OBVIOUS

\* The pieces of a module, by their place.
LEMMA ModulePieces ==
    ASSUME NEW m \in Module, NEW at \in At
    PROVE  LET b == ModuleInterface(m, at)
               ends == Len(m.endpoints)
               more == m.interfaces - 1
           IN  /\ DOMAIN b = 1 .. 2 + ends + more
               /\ b[1] = Interface(at.interface, ends) /\ b[2].what = "class"
               /\ \A k \in 3 .. 2 + ends : b[k].what = "endpoint" /\ b[k].number = at.endpoint + k - 3
               /\ \A k \in 3 + ends .. 2 + ends + more :
                     b[k] = Interface(at.interface + k - 2 - ends, 0)
<1> DEFINE b == ModuleInterface(m, at)
           ends == Len(m.endpoints)
           more == m.interfaces - 1
           x == <<Interface(at.interface, ends), [what |-> "class", len |-> m.extra]>>
           y == [i \in 1 .. ends |-> Endpoint(at.endpoint + i - 1, m.endpoints[i])]
           z == [i \in 1 .. more |-> Interface(at.interface + i, 0)]
<1>1. /\ ends \in Nat /\ more \in Nat /\ at.interface \in Nat /\ at.endpoint \in Nat
  BY ModuleAssumption DEF ModuleAssumption, At
<1>2. b = x \o y \o z
  BY DEF ModuleInterface
<1> DEFINE A == {x[1], x[2]} \cup {y[i] : i \in 1 .. ends} \cup {z[i] : i \in 1 .. more}
<1>3. /\ x \in Seq(A) /\ Len(x) = 2 /\ x[1] = Interface(at.interface, ends) /\ x[2].what = "class"
  OBVIOUS
<1>4. /\ y \in Seq(A) /\ Len(y) = ends
      /\ \A i \in 1 .. ends : y[i] = Endpoint(at.endpoint + i - 1, m.endpoints[i])
  <2>1. ends \in Nat
    BY <1>1
  <2>2. \A i \in 1 .. ends : y[i] \in A /\ y[i] = Endpoint(at.endpoint + i - 1, m.endpoints[i])
    OBVIOUS
  <2>3. y = [i \in 1 .. ends |-> y[i]]
    OBVIOUS
  <2> HIDE DEF ends, y, A
  <2> QED
    BY <2>1, <2>2, <2>3
<1>5. /\ z \in Seq(A) /\ Len(z) = more
      /\ \A i \in 1 .. more : z[i] = Interface(at.interface + i, 0)
  <2>1. more \in Nat
    BY <1>1
  <2>2. \A i \in 1 .. more : z[i] \in A /\ z[i] = Interface(at.interface + i, 0)
    OBVIOUS
  <2>3. z = [i \in 1 .. more |-> z[i]]
    OBVIOUS
  <2> HIDE DEF more, z, A
  <2> QED
    BY <2>1, <2>2, <2>3
<1> HIDE DEF b, ends, more, x, y, z, A
<1>6. /\ x \o y \in Seq(A) /\ Len(x \o y) = 2 + ends
      /\ \A k \in 1 .. 2 : (x \o y)[k] = x[k]
      /\ \A k \in 3 .. 2 + ends : (x \o y)[k] = y[k - 2]
  <2>1. Len(x) = 2 /\ Len(y) = ends
    BY <1>3, <1>4
  <2>2. /\ x \o y \in Seq(A) /\ Len(x \o y) = Len(x) + Len(y)
        /\ \A k \in 1 .. Len(x) : (x \o y)[k] = x[k]
        /\ \A k \in Len(x) + 1 .. Len(x) + Len(y) : (x \o y)[k] = y[k - Len(x)]
    BY <1>3, <1>4, Joined
  <2> QED
    BY <2>1, <2>2
<1>7. /\ DOMAIN b = 1 .. 2 + ends + more
      /\ \A k \in 1 .. 2 + ends : b[k] = (x \o y)[k]
      /\ \A k \in 3 + ends .. 2 + ends + more : b[k] = z[k - 2 - ends]
  <2> DEFINE u == x \o y
  <2>1. u \in Seq(A) /\ Len(u) = 2 + ends
    BY <1>6
  <2> HIDE DEF u
  <2>2. /\ DOMAIN (u \o z) = 1 .. 2 + ends + more
        /\ \A k \in 1 .. 2 + ends : (u \o z)[k] = u[k]
        /\ \A k \in 3 + ends .. 2 + ends + more : (u \o z)[k] = z[k - 2 - ends]
    BY <1>1, <1>5, <2>1
  <2> QED
    BY <1>2, <2>2 DEF u
<1>8. b[1] = Interface(at.interface, ends) /\ b[2].what = "class"
  BY <1>1, <1>3, <1>6, <1>7
<1>9. ASSUME NEW k \in 3 .. 2 + ends
      PROVE  b[k].what = "endpoint" /\ b[k].number = at.endpoint + k - 3
  <2>1. k - 2 \in 1 .. ends /\ k \in 1 .. 2 + ends /\ at.endpoint + (k - 2) - 1 = at.endpoint + k - 3
    BY <1>1
  <2>2. b[k] = Endpoint(at.endpoint + (k - 2) - 1, m.endpoints[k - 2])
    BY <1>4, <1>6, <1>7, <2>1
  <2> QED
    BY <2>1, <2>2 DEF Endpoint
<1>10. ASSUME NEW k \in 3 + ends .. 2 + ends + more
       PROVE  b[k] = Interface(at.interface + k - 2 - ends, 0)
  <2>1. k - 2 - ends \in 1 .. more /\ at.interface + (k - 2 - ends) = at.interface + k - 2 - ends
    BY <1>1
  <2> QED
    BY <1>5, <1>7, <2>1
<1> QED
  BY <1>7, <1>8, <1>9, <1>10 DEF b, ends, more

\* A module behind others, with the next numbers, is laid out too.
LEMMA ModuleIsLaid ==
    ASSUME NEW s \in Seq(Piece), NEW f \in Nat, NEW e \in Nat, e >= 4, Laid(s, f, e),
           NEW m \in Module
    PROVE  Laid(s \o ModuleInterface(m, [interface |-> f, endpoint |-> e]),
                f + m.interfaces, e + Len(m.endpoints))
<1> DEFINE at == [interface |-> f, endpoint |-> e]
           b == ModuleInterface(m, at)
           t == s \o b
           L == Len(s)
           ends == Len(m.endpoints)
           more == m.interfaces - 1
           last == L + 2 + ends
<1>1. /\ L \in Nat /\ ends \in Nat /\ more \in Nat /\ m.interfaces = more + 1 /\ last \in Nat
      /\ at \in At /\ at.interface = f /\ at.endpoint = e /\ last = L + 2 + ends
  <2>1. m.interfaces \in Nat \ {0} /\ m.endpoints \in Seq(EndpointTypes)
    BY ModuleAssumption DEF ModuleAssumption
  <2>2. L \in Nat /\ ends \in Nat
    BY <2>1
  <2>3. at \in At /\ at.interface = f /\ at.endpoint = e
    BY DEF At
  <2> HIDE DEF L, ends, at
  <2> QED
    BY <2>1, <2>2, <2>3
<1>2. /\ DOMAIN b = 1 .. 2 + ends + more
      /\ b[1] = Interface(f, ends) /\ b[2].what = "class"
      /\ \A k \in 3 .. 2 + ends : b[k].what = "endpoint" /\ b[k].number = e + k - 3
      /\ \A k \in 3 + ends .. 2 + ends + more : b[k] = Interface(f + k - 2 - ends, 0)
  <2> HIDE DEF at
  <2> QED
    BY <1>1, ModulePieces
<1>3. b \in Seq(Piece) /\ Len(b) = 2 + ends + more
  <2>1. b \in Seq(Piece)
    <3> HIDE DEF at
    <3> QED
      BY <1>1, ModuleTypes
  <2> HIDE DEF b, ends, more
  <2> QED
    BY <1>1, <1>2, <2>1
<1>4. DOMAIN s = 1 .. L
  OBVIOUS
<1> HIDE DEF at, b, ends, more, last
<1>5. /\ DOMAIN t = 1 .. last + more
      /\ \A i \in 1 .. L : t[i] = s[i]
      /\ \A i \in L + 1 .. last + more : t[i] = b[i - L]
  <2>1. /\ DOMAIN t = 1 .. Len(s) + Len(b)
        /\ \A k \in 1 .. Len(s) : t[k] = s[k]
        /\ \A k \in Len(s) + 1 .. Len(s) + Len(b) : t[k] = b[k - Len(s)]
    BY <1>3, Joined
  <2>2. Len(s) + Len(b) = last + more
    BY <1>1, <1>3
  <2> QED
    BY <2>1, <2>2
<1> HIDE DEF t, L
<1>6. /\ t[L + 1].what = "interface" /\ t[L + 1].number = f /\ t[L + 1].endpoints = ends
      /\ t[L + 2].what = "class"
  <2>1. L + 1 \in L + 1 .. last + more /\ (L + 1) - L = 1
        /\ L + 2 \in L + 1 .. last + more /\ (L + 2) - L = 2
    BY <1>1
  <2> QED
    BY <1>2, <1>5, <2>1 DEF Interface
<1>7. \A i \in L + 3 .. last : t[i].what = "endpoint" /\ t[i].number = e + i - L - 3
  <2> SUFFICES ASSUME NEW i \in L + 3 .. last
               PROVE  t[i].what = "endpoint" /\ t[i].number = e + i - L - 3
    OBVIOUS
  <2>1. i \in L + 1 .. last + more /\ i - L \in 3 .. 2 + ends /\ e + (i - L) - 3 = e + i - L - 3
    BY <1>1
  <2> QED
    BY <1>2, <1>5, <2>1
<1>8. \A i \in last + 1 .. last + more :
         t[i].what = "interface" /\ t[i].number = f + i - last /\ t[i].endpoints = 0
  <2> SUFFICES ASSUME NEW i \in last + 1 .. last + more
               PROVE  t[i].what = "interface" /\ t[i].number = f + i - last /\ t[i].endpoints = 0
    OBVIOUS
  <2>1. i \in L + 1 .. last + more /\ i - L \in 3 + ends .. 2 + ends + more
        /\ f + (i - L) - 2 - ends = f + i - last
    BY <1>1
  <2>2. t[i] = Interface(f + i - last, 0)
    BY <1>2, <1>5, <2>1
  <2> QED
    BY <2>2 DEF Interface
<1>9. Places(t, "interface") = Places(s, "interface") \cup {L + 1} \cup (last + 1 .. last + more)
  <2>1. DOMAIN t = (1 .. L) \cup {L + 1, L + 2} \cup (L + 3 .. last) \cup (last + 1 .. last + more)
    <3>1. /\ 1 .. L \subseteq 1 .. last + more /\ {L + 1, L + 2} \subseteq 1 .. last + more
          /\ L + 3 .. last \subseteq 1 .. last + more
          /\ last + 1 .. last + more \subseteq 1 .. last + more
      BY <1>1
    <3>2. ASSUME NEW i \in 1 .. last + more
          PROVE  i \in 1 .. L \/ i = L + 1 \/ i = L + 2 \/ i \in L + 3 .. last
                 \/ i \in last + 1 .. last + more
      BY <1>1
    <3>3. DOMAIN t = 1 .. last + more
      BY <1>5
    <3> QED
      BY <3>1, <3>2, <3>3, Zenon
  <2>2. Places(s, "interface") = {i \in 1 .. L : t[i].what = "interface"}
    BY <1>4, <1>5 DEF Places
  <2> QED
    BY <1>6, <1>7, <1>8, <2>1, <2>2 DEF Places
<1>10. Places(t, "endpoint") = Places(s, "endpoint") \cup (L + 3 .. last)
  <2>1. DOMAIN t = (1 .. L) \cup {L + 1, L + 2} \cup (L + 3 .. last) \cup (last + 1 .. last + more)
    <3>1. /\ 1 .. L \subseteq 1 .. last + more /\ {L + 1, L + 2} \subseteq 1 .. last + more
          /\ L + 3 .. last \subseteq 1 .. last + more
          /\ last + 1 .. last + more \subseteq 1 .. last + more
      BY <1>1
    <3>2. ASSUME NEW i \in 1 .. last + more
          PROVE  i \in 1 .. L \/ i = L + 1 \/ i = L + 2 \/ i \in L + 3 .. last
                 \/ i \in last + 1 .. last + more
      BY <1>1
    <3>3. DOMAIN t = 1 .. last + more
      BY <1>5
    <3> QED
      BY <3>1, <3>2, <3>3, Zenon
  <2>2. Places(s, "endpoint") = {i \in 1 .. L : t[i].what = "endpoint"}
    BY <1>4, <1>5 DEF Places
  <2> QED
    BY <1>6, <1>7, <1>8, <2>1, <2>2 DEF Places
<1>11. \A what : Places(s, what) \subseteq 1 .. L
  BY <1>4 DEF Places
<1>12. \A i \in Places(s, "interface") : s[i].number \in 0 .. f - 1
  <2>1. Numbers(s, "interface") = 0 .. f - 1
    BY DEF Laid
  <2> QED
    BY <2>1, Zenon DEF Numbers
<1>13. \A i \in Places(s, "endpoint") : s[i].number \in 1 .. e - 1
  <2>1. Numbers(s, "endpoint") \subseteq 1 .. e - 1
    BY DEF Laid
  <2> QED
    BY <2>1, Zenon DEF Numbers
<1>14. Numbers(t, "interface") = 0 .. (f + m.interfaces) - 1
  <2>1. ASSUME NEW i \in Places(t, "interface") PROVE t[i].number \in 0 .. f + more
    <3>1. CASE i \in Places(s, "interface")
      BY <1>1, <1>5, <1>11, <1>12, <3>1
    <3>2. CASE i = L + 1
      BY <1>1, <1>6, <3>2
    <3>3. CASE i \in last + 1 .. last + more
      BY <1>1, <1>8, <3>3
    <3> QED
      BY <1>9, <3>1, <3>2, <3>3
  <2>2. ASSUME NEW n \in 0 .. f + more
        PROVE  \E i \in Places(t, "interface") : t[i].number = n
    <3>1. CASE n < f
      <4>1. n \in 0 .. f - 1
        BY <1>1, <3>1
      <4>2. Numbers(s, "interface") = 0 .. f - 1
        BY DEF Laid
      <4>3. PICK i \in Places(s, "interface") : s[i].number = n
        BY <4>1, <4>2, Zenon DEF Numbers
      <4>4. i \in Places(t, "interface") /\ t[i] = s[i]
        BY <1>5, <1>9, <1>11, <4>3
      <4> QED
        BY <4>3, <4>4
    <3>2. CASE n = f
      BY <1>6, <1>9, <3>2
    <3>3. CASE n > f
      <4>1. last + (n - f) \in last + 1 .. last + more /\ f + (last + (n - f)) - last = n
        BY <1>1, <3>3
      <4> QED
        BY <1>8, <1>9, <4>1
    <3> QED
      BY <1>1, <3>1, <3>2, <3>3
  <2>3. f + more = (f + m.interfaces) - 1
    BY <1>1
  <2>4. Numbers(t, "interface") = 0 .. f + more
    BY <2>1, <2>2, Zenon DEF Numbers
  <2> QED
    BY <2>3, <2>4
<1>15. Numbers(t, "endpoint") \subseteq 1 .. (e + ends) - 1
  <2>1. ASSUME NEW i \in Places(t, "endpoint") PROVE t[i].number \in 1 .. (e + ends) - 1
    <3>1. CASE i \in Places(s, "endpoint")
      BY <1>1, <1>5, <1>11, <1>13, <3>1
    <3>2. CASE i \in L + 3 .. last
      <4>1. t[i].number = e + i - L - 3
        BY <1>7, <3>2
      <4>2. e + i - L - 3 \in 1 .. (e + ends) - 1
        BY <1>1, <3>2
      <4> QED
        BY <4>1, <4>2
    <3> QED
      BY <1>10, <3>1, <3>2
  <2> QED
    BY <2>1 DEF Numbers
<1>16. \A i, j \in Places(t, "interface") : t[i].number = t[j].number => i = j
  <2>1. \A i, j \in Places(s, "interface") : s[i].number = s[j].number => i = j
    BY DEF Laid
  <2>2. \A i \in Places(s, "interface") : t[i].number \in 0 .. f - 1 /\ t[i].number = s[i].number
    BY <1>5, <1>11, <1>12
  <2> SUFFICES ASSUME NEW i \in Places(t, "interface"), NEW j \in Places(t, "interface"),
                      t[i].number = t[j].number
               PROVE  i = j
    OBVIOUS
  \* The number of a piece says which of the three it is.
  <2>3. \A k \in last + 1 .. last + more : t[k].number = f + k - last /\ f + k - last > f
    BY <1>1, <1>8
  <2>4. \A k \in Places(s, "interface") : t[k].number < f
    BY <2>2
  <2>5. t[L + 1].number = f
    BY <1>6
  <2>6. CASE t[i].number < f
    <3>1. i \in Places(s, "interface") /\ j \in Places(s, "interface")
      BY <1>1, <1>9, <2>3, <2>5, <2>6
    <3> QED
      BY <2>1, <2>2, <3>1
  <2>7. CASE t[i].number = f
    <3>1. ASSUME NEW k \in Places(t, "interface"), t[k].number = f
          PROVE  k = L + 1
      <4>1. k \notin Places(s, "interface")
        BY <2>4, <3>1
      <4>2. k \notin last + 1 .. last + more
        <5>1. ASSUME k \in last + 1 .. last + more PROVE FALSE
          <6>1. f + k - last = f /\ f + k - last > f
            BY <2>3, <3>1, <5>1
          <6> QED
            BY <6>1
        <5> QED
          BY <5>1
      <4> QED
        BY <1>9, <4>1, <4>2, Zenon
    <3>2. i = L + 1 /\ j = L + 1
      BY <2>7, <3>1
    <3> QED
      BY <3>2
  <2>8. CASE ~(t[i].number < f) /\ t[i].number # f
    <3>1. ASSUME NEW k \in Places(t, "interface"), t[k].number = t[i].number
          PROVE  k \in last + 1 .. last + more
      <4>1. k \notin Places(s, "interface") /\ k # L + 1
        BY <2>4, <2>5, <2>8, <3>1
      <4> QED
        BY <1>9, <4>1, Zenon
    <3>2. i \in last + 1 .. last + more /\ j \in last + 1 .. last + more
      BY <3>1
    <3>3. f + i - last = f + j - last
      BY <2>3, <3>2
    <3> QED
      BY <1>1, <3>2, <3>3
  <2> QED
    BY <2>6, <2>7, <2>8
<1>17. \A i, j \in Places(t, "endpoint") : t[i].number = t[j].number => i = j
  <2>1. \A i, j \in Places(s, "endpoint") : s[i].number = s[j].number => i = j
    BY DEF Laid
  <2>2. \A i \in Places(s, "endpoint") : t[i].number \in 1 .. e - 1 /\ t[i].number = s[i].number
    BY <1>5, <1>11, <1>13
  <2> SUFFICES ASSUME NEW i \in Places(t, "endpoint"), NEW j \in Places(t, "endpoint"),
                      t[i].number = t[j].number
               PROVE  i = j
    OBVIOUS
  <2>3. CASE i \in Places(s, "endpoint")
    BY <1>1, <1>7, <1>10, <2>1, <2>2, <2>3
  <2>4. CASE i \in L + 3 .. last
    <3>1. t[i].number = e + i - L - 3
      BY <1>7, <2>4
    <3>2. L \in Nat /\ last \in Nat
      BY <1>1
    <3>3. t[i].number \in Int /\ t[i].number >= e
      BY <2>4, <3>1, <3>2
    <3>4. ASSUME j \in Places(s, "endpoint") PROVE FALSE
      <4>1. t[j].number \in 1 .. e - 1
        BY <2>2, <3>4
      <4> QED
        BY <3>3, <4>1
    <3>5. j \in L + 3 .. last
      BY <1>10, <3>4
    <3>6. t[j].number = e + j - L - 3
      BY <1>7, <3>5
    <3>7. e + i - L - 3 = e + j - L - 3
      BY <3>1, <3>6
    <3>8. i \in Int /\ j \in Int
      BY <2>4, <3>2, <3>5
    <3> QED
      BY <3>2, <3>7, <3>8
  <2> QED
    BY <1>10, <2>3, <2>4
<1>18. ASSUME NEW i \in Places(t, "interface")
       PROVE  Cardinality(EndpointsOf(t, i)) = t[i].endpoints
  <2>1. CASE i \in Places(s, "interface")
    <3>1. i \in 1 .. L /\ t[i] = s[i]
      BY <1>5, <1>11, <2>1
    <3>2. EndpointsOf(t, i) \subseteq EndpointsOf(s, i)
      <4> SUFFICES ASSUME NEW j \in EndpointsOf(t, i) PROVE j \in EndpointsOf(s, i)
        OBVIOUS
      <4>1. j \in Places(t, "endpoint") /\ i < j /\ ~(i < L + 1 /\ L + 1 < j)
        BY <1>9 DEF EndpointsOf
      <4>2. j \in Places(s, "endpoint")
        BY <1>1, <1>10, <3>1, <4>1
      <4> QED
        BY <1>9, <4>1, <4>2 DEF EndpointsOf
    <3>3. EndpointsOf(s, i) \subseteq EndpointsOf(t, i)
      <4> SUFFICES ASSUME NEW j \in EndpointsOf(s, i) PROVE j \in EndpointsOf(t, i)
        OBVIOUS
      <4>1. /\ j \in Places(s, "endpoint") /\ i < j
            /\ \A k \in Places(s, "interface") : ~(i < k /\ k < j)
        BY DEF EndpointsOf
      <4>2. j \in 1 .. L /\ j \in Places(t, "endpoint")
        BY <1>10, <1>11, <4>1
      <4>3. ASSUME NEW k \in Places(t, "interface") PROVE ~(i < k /\ k < j)
        BY <1>1, <1>9, <4>1, <4>2
      <4> QED
        BY <4>1, <4>2, <4>3 DEF EndpointsOf
    <3>4. Cardinality(EndpointsOf(s, i)) = s[i].endpoints
      BY <2>1 DEF Laid
    <3>5. EndpointsOf(t, i) = EndpointsOf(s, i)
      BY <3>2, <3>3
    <3> QED
      BY <3>1, <3>4, <3>5
  <2>2. CASE i = L + 1
    <3>1. \A j \in L + 3 .. last : \A k \in Places(t, "interface") : ~(i < k /\ k < j)
      BY <1>1, <1>9, <1>11, <2>2
    <3>2. EndpointsOf(t, i) = L + 3 .. last
      BY <1>1, <1>10, <1>11, <2>2, <3>1 DEF EndpointsOf
    <3>3. \A x, y \in Int : Cardinality(x .. y) = IF x > y THEN 0 ELSE y - x + 1
      BY FS_Interval
    <3>4. Cardinality(L + 3 .. last) = ends
      BY <1>1, <3>3
    <3> QED
      BY <1>6, <2>2, <3>2, <3>4
  <2>3. CASE i \in last + 1 .. last + more
    <3>1. EndpointsOf(t, i) = {}
      BY <1>1, <1>10, <1>11, <2>3 DEF EndpointsOf
    <3> QED
      BY <1>8, <2>3, <3>1, FS_EmptySet
  <2> QED
    BY <1>9, <2>1, <2>2, <2>3
<1>19. ASSUME NEW j \in Places(t, "endpoint")
       PROVE  /\ \E i \in Places(t, "interface") : i < j
              /\ t[j].number \in DOMAIN EndPoints => t[j].type = EndPoints[t[j].number]
  <2>1. CASE j \in Places(s, "endpoint")
    <3>1. t[j] = s[j]
      BY <1>5, <1>11, <2>1
    <3>2. PICK i \in Places(s, "interface") : i < j
      BY <2>1 DEF Laid
    <3>3. s[j].number \in DOMAIN EndPoints => s[j].type = EndPoints[s[j].number]
      BY <2>1 DEF Laid
    <3> QED
      BY <1>9, <3>1, <3>2, <3>3
  <2>2. CASE j \in L + 3 .. last
    <3>1. t[j].number >= 4 /\ L + 1 < j
      BY <1>1, <1>7, <2>2
    <3>2. DOMAIN EndPoints = 1 .. 3
      BY DEF EndPoints
    <3> QED
      BY <1>9, <3>1, <3>2
  <2> QED
    BY <1>10, <2>1, <2>2
<1>20. Laid(t, f + m.interfaces, e + ends)
  <2>1. \A what \in {"interface", "endpoint"} : \A i, j \in Places(t, what) :
           t[i].number = t[j].number => i = j
    BY <1>16, <1>17
  <2>2. \A i \in Places(t, "interface") : Cardinality(EndpointsOf(t, i)) = t[i].endpoints
    BY <1>18
  <2>3. \A j \in Places(t, "endpoint") :
           /\ \E i \in Places(t, "interface") : i < j
           /\ t[j].number \in DOMAIN EndPoints => t[j].type = EndPoints[t[j].number]
    BY <1>19
  <2> QED
    BY <1>14, <1>15, <2>1, <2>2, <2>3 DEF Laid
<1> QED
  BY <1>20 DEF t, b, at, ends

-----------------------------------------------------------------------------
(* The answers.                                                            *)

Smaller(a, b) == IF a < b THEN a ELSE b

\* Where the loop over a string stops: at its end or at the length asked for.
LEMMA StringEnds ==
    ASSUME NEW n \in Nat, NEW length \in Nat, length >= 2
    PROVE  StringEnd(n, length) = Smaller(length, 2 * n + 2)
<1> DEFINE loop == CHOOSE loop : loop = [c \in 0 .. n |->
                       LET i == 2 + 2 * (n - c)
                       IN  IF i >= length \/ c = 0 THEN i
                           ELSE IF i + 1 = length THEN length ELSE loop[c - 1]]
           Index(c) == 2 + 2 * (n - c)
           End(c) == IF Index(c) >= length THEN Index(c) ELSE Smaller(length, 2 * n + 2)
           f == [c \in 0 .. n |-> End(c)]
<1>1. StringEnd(n, length) = loop[n]
  BY DEF StringEnd
<1>2. f = [c \in 0 .. n |->
               LET i == 2 + 2 * (n - c)
               IN  IF i >= length \/ c = 0 THEN i
                   ELSE IF i + 1 = length THEN length ELSE f[c - 1]]
  <2>1. ASSUME NEW c \in 0 .. n
        PROVE  End(c) = IF Index(c) >= length \/ c = 0 THEN Index(c)
                        ELSE IF Index(c) + 1 = length THEN length ELSE f[c - 1]
    <3>1. c # 0 => c - 1 \in 0 .. n /\ f[c - 1] = End(c - 1)
      OBVIOUS
    <3> HIDE DEF f
    <3> QED
      BY <3>1 DEF Smaller
  <2> QED
    BY <2>1
<1>3. loop = [c \in 0 .. n |->
               LET i == 2 + 2 * (n - c)
               IN  IF i >= length \/ c = 0 THEN i
                   ELSE IF i + 1 = length THEN length ELSE loop[c - 1]]
  <2> HIDE DEF f
  <2> QED
    BY <1>2
<1> HIDE DEF loop
<1> DEFINE S == {c \in 0 .. n : loop[c] = End(c)}
<1>4. 0 \in S
  <2>1. 0 \in 0 .. n
    OBVIOUS
  <2>2. loop[0] = Index(0)
    BY <1>3, <2>1
  <2> QED
    BY <2>1, <2>2 DEF Smaller
<1>5. ASSUME NEW c \in 1 .. n, c - 1 \in S PROVE c \in S
  <2>1. c \in 0 .. n /\ c # 0
    OBVIOUS
  <2>2. loop[c] = IF Index(c) >= length THEN Index(c)
                  ELSE IF Index(c) + 1 = length THEN length ELSE loop[c - 1]
    BY <1>3, <2>1
  <2>3. loop[c - 1] = End(c - 1)
    BY <1>5
  <2>4. loop[c] = End(c)
    BY <2>1, <2>2, <2>3 DEF Smaller
  <2> QED
    BY <2>1, <2>4
<1>6. n \in S
  <2> HIDE DEF S
  <2>1. 0 .. n \subseteq S
    BY <1>4, <1>5, Induction
  <2> QED
    BY <2>1
<1> QED
  BY <1>1, <1>6 DEF Smaller

\* The length of a whole descriptor.
Total(what) ==
    CASE what = "config"   -> Bytes(Interfaces) + 9
      [] what = "device"   -> 18
      [] what = "language" -> 4
      [] what \in Strings  -> 2 * Chars[what] + 2
      [] OTHER             -> 0

LEMMA TotalTypes ==
    ASSUME Interfaces \in Seq(Piece), NEW what \in What
    PROVE  Total(what) \in Nat
<1>1. Bytes(Interfaces) \in Nat
  BY BytesTypes, PieceSizes
<1>2. what \in Strings => 2 * Chars[what] + 2 \in Nat
  <2>1. \A n \in 0 .. 126 : 2 * n + 2 \in Nat
    OBVIOUS
  <2>2. what \in Strings => Chars[what] \in 0 .. 126
    BY ModuleAssumption DEF ModuleAssumption
  <2> QED
    BY <2>1, <2>2
<1>3. what = "config" => Total(what) = Bytes(Interfaces) + 9
  BY DEF Total, Strings
<1>4. what = "device" => Total(what) = 18
  BY DEF Total, Strings
<1>5. what = "language" => Total(what) = 4
  BY DEF Total, Strings
<1>6. what \in Strings => Total(what) = 2 * Chars[what] + 2
  BY DEF Total, Strings
<1>7. what = "unknown" => Total(what) = 0
  BY DEF Total, Strings
<1> QED
  BY <1>1, <1>2, <1>3, <1>4, <1>5, <1>6, <1>7 DEF What

\* The lengths a host asks for.
Lengths(what) == FirstLengths[what] \cup {MaxLength, Total(what)}

LEMMA ConfigurationAnswer ==
    ASSUME Interfaces \in Seq(Piece), NEW length \in Nat
    PROVE  /\ Configuration(length) # <<>>
           /\ Head(Configuration(length)).total = Total("config")
           /\ Bytes(Configuration(length)) = IF length = 9 THEN 9 ELSE Total("config")
<1> DEFINE config == Config(Bytes(Interfaces) + 9, InterfaceCount)
           P == Piece \cup {config}
<1>1. config.len = 9 /\ config.total = Total("config")
  BY DEF Config, Total, Strings
<1> HIDE DEF config
<1>2. Sizes(P) /\ config \in P
  BY <1>1, PieceSizes DEF Sizes
<1>3. Interfaces \in Seq(P) /\ Interfaces \in Seq(Piece)
  OBVIOUS
<1>4. Configuration(length) = IF length = 9 THEN <<config>> ELSE <<config>> \o Interfaces
  BY <1>1 DEF Configuration, config
<1>5. Bytes(<<config>>) = 9
  BY <1>1, BytesOne
<1>6. Bytes(<<config>> \o Interfaces) = Total("config")
  <2> HIDE DEF P
  <2>1. Bytes(<<config>> \o Interfaces) = config.len + Bytes(Interfaces)
    BY <1>2, <1>3, BytesCons
  <2>2. Bytes(Interfaces) \in Nat
    BY PieceSizes, BytesTypes
  <2> QED
    BY <1>1, <2>1, <2>2 DEF Total, Strings
<1>7. <<config>> \o Interfaces # <<>> /\ Head(<<config>> \o Interfaces) = config
  OBVIOUS
<1>8. <<config>> # <<>> /\ Head(<<config>>) = config
  OBVIOUS
<1> HIDE DEF P
<1>9. CASE length = 9
  BY <1>1, <1>4, <1>5, <1>8, <1>9
<1>10. CASE length # 9
  BY <1>1, <1>4, <1>6, <1>7, <1>10
<1> QED
  BY <1>9, <1>10

LEMMA CutAnswer ==
    ASSUME NEW piece \in [what : {"device", "language"}, len : Nat, total : Nat], NEW length \in Nat \ {0}
    PROVE  /\ Head(Cut(piece, length)).total = piece.total
           /\ Bytes(Cut(piece, length)) = Smaller(length, piece.len)
<1> DEFINE c == IF piece.len > length THEN [piece EXCEPT !.len = length] ELSE piece
<1>1. Cut(piece, length) = <<c>>
  BY DEF Cut
<1>2. c.total = piece.total /\ c.len = Smaller(length, piece.len) /\ c.len \in Nat
  BY DEF Smaller
<1> HIDE DEF c
<1> QED
  BY <1>1, <1>2, BytesOne

\* A request that is answered gets what was asked for or the whole descriptor;
\* the first piece says how long that is.
LEMMA Answered ==
    ASSUME Interfaces \in Seq(Piece), NEW what \in What,
           NEW length \in 1 .. MaxLength, length \in Lengths(what),
           Descriptor(what, length) # <<>>
    PROVE  /\ Bytes(Descriptor(what, length)) \in Nat
           /\ Head(Descriptor(what, length)).total = Total(what)
           /\ (what = "config" => Total(what) <= MaxLength)
                 => Bytes(Descriptor(what, length)) = Smaller(length, Total(what))
<1>1. length \in Nat \ {0} /\ length <= 255
  BY DEF MaxLength
<1>2. Total(what) \in Nat
  BY TotalTypes
<1>3. CASE what = "config"
  <2>1. length \in {9, 255, Total(what)}
    BY <1>3 DEF Lengths, FirstLengths, MaxLength
  <2>2. Descriptor(what, length) = Configuration(length)
    BY <1>3 DEF Descriptor, Strings
  <2>3. Total(what) >= 9
    <3>1. Bytes(Interfaces) \in Nat
      BY BytesTypes, PieceSizes
    <3> QED
      BY <1>3, <3>1 DEF Total, Strings
  <2> QED
    BY <1>1, <1>2, <1>3, <2>1, <2>2, <2>3, ConfigurationAnswer DEF Smaller, MaxLength
<1>4. CASE what = "device"
  <2>1. DeviceDescriptor \in [what : {"device", "language"}, len : Nat, total : Nat]
        /\ DeviceDescriptor.len = 18 /\ DeviceDescriptor.total = 18
    BY DEF DeviceDescriptor
  <2>2. Descriptor(what, length) = Cut(DeviceDescriptor, length) /\ Total(what) = 18
    BY <1>4 DEF Descriptor, Total, Strings
  <2> QED
    BY <1>1, <1>2, <2>1, <2>2, CutAnswer DEF Smaller
<1>5. CASE what = "language"
  <2>1. Language \in [what : {"device", "language"}, len : Nat, total : Nat]
        /\ Language.len = 4 /\ Language.total = 4
    BY DEF Language
  <2>2. Descriptor(what, length) = Cut(Language, length) /\ Total(what) = 4
    BY <1>5 DEF Descriptor, Total, Strings
  <2> QED
    BY <1>1, <1>2, <2>1, <2>2, CutAnswer DEF Smaller
<1>6. CASE what \in Strings
  <2> DEFINE n == Chars[what]
             string == [what |-> "string", len |-> StringEnd(n, length), total |-> 2 * n + 2]
  <2>1. n \in Nat
    <3>1. n \in 0 .. 126
      BY <1>6, ModuleAssumption DEF ModuleAssumption
    <3> HIDE DEF n
    <3> QED
      BY <3>1
  <2>2. length % 256 = length
    BY <1>1
  <2>3. Descriptor(what, length) = StringDescriptor(n, length)
    BY <1>6 DEF Descriptor, Strings
  <2>4. length >= 2 /\ Descriptor(what, length) = <<string>>
    BY <1>1, <2>2, <2>3 DEF StringDescriptor
  <2>5. Total(what) = 2 * n + 2
    BY <1>6 DEF Total, Strings
  <2>6. string.len = Smaller(length, Total(what)) /\ string.total = Total(what)
    BY <1>1, <2>1, <2>4, <2>5, StringEnds
  <2>7. string.len \in Nat
    BY <1>1, <1>2, <2>6 DEF Smaller
  <2> HIDE DEF string
  <2> QED
    BY <2>4, <2>6, <2>7, BytesOne
<1>7. CASE what = "unknown"
  BY <1>7 DEF Descriptor, Strings
<1> QED
  BY <1>3, <1>4, <1>5, <1>6, <1>7 DEF What

-----------------------------------------------------------------------------
(* The invariant.                                                          *)

Types ==
    /\ plugged \in Seq(Module) /\ lastIf \in Nat /\ lastEp \in Nat
    /\ numbers \in [Module -> At] /\ attached \in BOOLEAN
    /\ stage \in {"idle", "data", "done", "stalled"}
    /\ request \in [what : What, length : Nat] /\ known \in [What -> Nat]
    /\ armed \in Nat /\ multi \in Nat /\ received \in Nat

\* Before the device is attached, while descriptors change, the host knows nothing.
Unattached == ~attached => stage = "idle" /\ known = [w \in What |-> 0]

\* What it knows later is what a descriptor still has.
KnownIsTotal == \A w \in What : known[w] \in {0, Total(w)}

\* A configuration that is not longer than the largest length a host asks for.
Fits == request.what = "config" => Total("config") <= MaxLength

Sending ==
    stage \in {"data", "done"} =>
        /\ Head(answer).total = Total(request.what)
        /\ Fits => armed = Smaller(request.length, Total(request.what))
        /\ multi = received /\ received <= armed

Finished == stage = "done" => received = armed \/ received >= request.length

\* What the next module goes behind.
Layout ==
    /\ Laid(Interfaces, lastIf, lastEp)
    /\ lastIf = InterfaceCount /\ lastEp \in 4 .. Endpoints

WholeConfiguration == <<Config(Bytes(Interfaces) + 9, InterfaceCount)>> \o Interfaces

\* An answer of more than one piece is the configuration as it still is.
AnswerIsCurrent ==
    /\ ~attached => answer = <<>>
    /\ answer # <<>> /\ Len(answer) > 1 => answer = WholeConfiguration

IInv ==
    Types /\ Unattached /\ KnownIsTotal /\ Sending /\ Finished /\ Layout /\ AnswerIsCurrent

LEMMA InitIInv == Init => IInv
<1> SUFFICES ASSUME Init PROVE IInv
  OBVIOUS
<1>1. Types
  <2>1. [interface |-> 0, endpoint |-> 0] \in At /\ [what |-> "device", length |-> 0] \in [what : What, length : Nat]
    BY DEF At, What
  <2>2. numbers \in [Module -> At] /\ known \in [What -> Nat]
    BY <2>1 DEF Init
  <2>3. plugged \in Seq(Module)
    BY DEF Init
  <2> QED
    BY <2>1, <2>2, <2>3 DEF Init, Types
<1>2. Unattached /\ KnownIsTotal /\ Sending /\ Finished /\ AnswerIsCurrent
  BY DEF Init, Unattached, KnownIsTotal, Sending, Finished, AnswerIsCurrent
<1>3. Layout
  <2>1. plugged = <<>> /\ lastIf = 2 /\ lastEp = 4
    BY DEF Init
  <2>2. Interfaces = CdcInterface
    <3> DEFINE ss == [i \in 1 .. Len(plugged) |-> ModuleInterface(plugged[i], numbers[plugged[i]])]
    <3>1. ss = <<>>
      BY <2>1
    <3> HIDE DEF ss
    <3>2. FlattenSeq(ss) = <<>>
      BY <3>1 DEF FlattenSeq
    <3>3. CdcInterface \o <<>> = CdcInterface
      BY CdcTypes
    <3> QED
      BY <3>2, <3>3 DEF Interfaces, ss
  <2>3. InterfaceCount = 2
    <3>1. [i \in DOMAIN plugged |-> plugged[i].interfaces] = <<>>
      BY <2>1
    <3> QED
      BY <3>1, SumEmpty DEF InterfaceCount
  <2> QED
    BY <2>1, <2>2, <2>3, CdcIsLaid DEF Layout, Endpoints
<1> QED
  BY <1>1, <1>2, <1>3 DEF IInv

\* The descriptors stay as they are when no module is plugged in.
LEMMA DescriptorsStay ==
    ASSUME UNCHANGED <<plugged, numbers>>
    PROVE  /\ \A w \in What : Total(w)' = Total(w)
           /\ Interfaces' = Interfaces /\ InterfaceCount' = InterfaceCount
           /\ WholeConfiguration' = WholeConfiguration
BY DEF Total, Interfaces, InterfaceCount, WholeConfiguration

LEMMA LayoutStays ==
    ASSUME IInv, UNCHANGED plugVars
    PROVE  Layout'
BY DescriptorsStay DEF IInv, Layout, plugVars

LEMMA AnswerStays ==
    ASSUME IInv, UNCHANGED <<plugVars, answer>>
    PROVE  AnswerIsCurrent'
BY DescriptorsStay DEF IInv, AnswerIsCurrent, plugVars

LEMMA Shift == \A a, b \in Nat : 2 + (a + b) = (2 + a) + b
OBVIOUS

\* The pieces of a module that is plugged in come behind those of the others.
LEMMA PlugInterfaces ==
    ASSUME Types, NEW m \in Module, m \notin ToSet(plugged), NEW at \in At,
           plugged' = Append(plugged, m), numbers' = [numbers EXCEPT ![m] = at]
    PROVE  /\ Interfaces' = Interfaces \o ModuleInterface(m, at)
           /\ InterfaceCount' = InterfaceCount + m.interfaces
<1> DEFINE ss == [i \in 1 .. Len(plugged) |-> ModuleInterface(plugged[i], numbers[plugged[i]])]
           tt == [i \in 1 .. Len(plugged') |-> ModuleInterface(plugged'[i], numbers'[plugged'[i]])]
           new == ModuleInterface(m, at)
           counts == [i \in DOMAIN plugged |-> plugged[i].interfaces]
<1>1. /\ Len(plugged) \in Nat /\ Len(plugged') = Len(plugged) + 1
      /\ plugged'[Len(plugged) + 1] = m /\ numbers'[m] = at
      /\ \A i \in 1 .. Len(plugged) :
            /\ plugged[i] \in Module /\ plugged'[i] = plugged[i]
            /\ numbers'[plugged[i]] = numbers[plugged[i]]
  <2>1. plugged \in Seq(Module) /\ numbers \in [Module -> At]
    BY DEF Types
  <2>2. \A i \in 1 .. Len(plugged) : plugged[i] \in Module /\ plugged[i] # m
    BY <2>1 DEF ToSet
  <2> QED
    BY <2>1, <2>2
<1>2. ss \in Seq(Seq(Piece)) /\ new \in Seq(Piece)
  <2>1. ASSUME NEW i \in 1 .. Len(plugged)
        PROVE  ModuleInterface(plugged[i], numbers[plugged[i]]) \in Seq(Piece)
    BY <1>1, ModuleTypes DEF Types
  <2>2. Len(plugged) \in Nat
    BY <1>1
  <2>3. new \in Seq(Piece)
    BY ModuleTypes
  <2> QED
    BY <2>1, <2>2, <2>3
<1>3. tt = Append(ss, new)
  <2>1. Len(ss) = Len(plugged)
    BY <1>1
  <2>2. Append(ss, new) = [i \in 1 .. Len(plugged) + 1 |->
                              IF i = Len(plugged) + 1 THEN new ELSE ss[i]]
    BY <1>1, <1>2, <2>1
  <2>3. ASSUME NEW i \in 1 .. Len(plugged) + 1
        PROVE  ModuleInterface(plugged'[i], numbers'[plugged'[i]])
                   = IF i = Len(plugged) + 1 THEN new ELSE ss[i]
    <3>1. CASE i = Len(plugged) + 1
      BY <1>1, <3>1
    <3>2. CASE i # Len(plugged) + 1
      <4>1. i \in 1 .. Len(plugged)
        BY <1>1, <3>2
      <4> QED
        BY <1>1, <3>2, <4>1
    <3> QED
      BY <3>1, <3>2
  <2> HIDE DEF ss, new
  <2> QED
    BY <1>1, <2>2, <2>3
<1>4. Interfaces' = CdcInterface \o FlattenSeq(tt)
  BY DEF Interfaces
<1>5. Interfaces = CdcInterface \o FlattenSeq(ss)
  BY DEF Interfaces
<1> HIDE DEF ss, tt, new
<1>6. Interfaces' = Interfaces \o new
  <2>1. FlattenSeq(tt) = FlattenSeq(ss) \o new /\ FlattenSeq(ss) \in Seq(Piece)
    BY <1>2, <1>3, FlattenAppend, FlattenTypes
  <2> DEFINE flat == FlattenSeq(ss)
  <2>2. flat \in Seq(Piece) /\ CdcInterface \in Seq(Piece) /\ new \in Seq(Piece)
    BY <1>2, <2>1, CdcTypes
  <2>3. Interfaces' = CdcInterface \o (flat \o new) /\ Interfaces = CdcInterface \o flat
    BY <1>4, <1>5, <2>1
  <2> HIDE DEF flat
  <2>4. CdcInterface \o (flat \o new) = (CdcInterface \o flat) \o new
    BY <2>2
  <2> QED
    BY <2>3, <2>4
<1>7. InterfaceCount' = InterfaceCount + m.interfaces
  <2>1. \A n \in Module : n.interfaces \in Nat
    BY ModuleAssumption DEF ModuleAssumption
  <2>2. counts \in Seq(Nat) /\ DOMAIN plugged = 1 .. Len(plugged)
    BY <1>1, <2>1 DEF Types
  <2>3. [i \in DOMAIN plugged' |-> plugged'[i].interfaces] = Append(counts, m.interfaces)
    BY <1>1, <2>2 DEF Types
  <2>4. InterfaceCount = 2 + SumOf(counts)
    BY DEF InterfaceCount
  <2>5. InterfaceCount' = 2 + SumOf([i \in DOMAIN plugged' |-> plugged'[i].interfaces])
    BY DEF InterfaceCount
  <2> HIDE DEF counts
  <2>6. InterfaceCount' = 2 + SumOf(Append(counts, m.interfaces))
    BY <2>3, <2>5
  <2>7. m.interfaces \in Nat
    BY <2>1
  <2>8. SumOf(Append(counts, m.interfaces)) = SumOf(counts) + m.interfaces
    BY <2>2, <2>7, SumAppend
  <2>9. SumOf(counts) \in Nat
    BY <2>2, SumTypes
  <2> QED
    BY <2>4, <2>6, <2>7, <2>8, <2>9, Shift, Zenon
<1> QED
  BY <1>6, <1>7 DEF new

LEMMA PlugKeeps ==
    ASSUME IInv, NEW m \in Module, Plug(m)
    PROVE  IInv'
<1>1. ~attached /\ stage = "idle" /\ known = [w \in What |-> 0]
  BY DEF Plug, IInv, Unattached
<1>2. UNCHANGED <<attached, bankVars, hostVars>>
  BY DEF Plug
<1>3. /\ plugged' \in Seq(Module) /\ lastIf' \in Nat /\ lastEp' \in Nat
      /\ numbers' \in [Module -> At]
  <2>1. m.interfaces \in Nat /\ Len(m.endpoints) \in Nat
    BY ModuleAssumption DEF ModuleAssumption
  <2>2. CASE UNCHANGED <<plugged, lastIf, lastEp, numbers>>
    BY <2>2 DEF IInv, Types
  <2>3. CASE plugged' = Append(plugged, m) /\ TakeNumbers(m)
    <3>1. plugged' \in Seq(Module)
      BY <2>3 DEF IInv, Types
    <3>2. lastIf' \in Nat /\ lastEp' \in Nat
      BY <2>1, <2>3 DEF TakeNumbers, IInv, Types
    <3>3. [interface |-> lastIf, endpoint |-> lastEp] \in At
      BY DEF IInv, Types, At
    <3>4. numbers' \in [Module -> At]
      BY <2>3, <3>3 DEF TakeNumbers, IInv, Types
    <3> QED
      BY <3>1, <3>2, <3>4
  <2> QED
    BY <2>2, <2>3 DEF Plug
<1>4. Types'
  BY <1>2, <1>3 DEF IInv, Types, bankVars, hostVars
<1>5. (Unattached /\ KnownIsTotal /\ Sending /\ Finished)'
  BY <1>1, <1>2 DEF Unattached, KnownIsTotal, Sending, Finished, bankVars, hostVars
<1>6. AnswerIsCurrent'
  BY <1>1, <1>2 DEF IInv, AnswerIsCurrent, bankVars
<1>7. Layout'
  <2>1. CASE UNCHANGED <<plugged, lastIf, lastEp, numbers>>
    BY <2>1, DescriptorsStay DEF IInv, Layout
  <2>2. CASE /\ lastEp + Len(m.endpoints) <= Endpoints
             /\ plugged' = Append(plugged, m) /\ TakeNumbers(m)
    <3> DEFINE at == [interface |-> lastIf, endpoint |-> lastEp]
    <3>1. /\ Types /\ m \notin ToSet(plugged) /\ at \in At
          /\ numbers' = [numbers EXCEPT ![m] = at]
      BY <2>2 DEF Plug, TakeNumbers, IInv, Types, At
    <3>2. /\ Interfaces' = Interfaces \o ModuleInterface(m, at)
          /\ InterfaceCount' = InterfaceCount + m.interfaces
      <4> HIDE DEF at
      <4> QED
        BY <2>2, <3>1, PlugInterfaces
    <3>3. Interfaces \in Seq(Piece)
      BY InterfaceTypes DEF IInv, Types
    <3>4. /\ lastIf \in Nat /\ lastEp \in Nat /\ lastEp >= 4 /\ Laid(Interfaces, lastIf, lastEp)
          /\ lastIf = InterfaceCount
      BY DEF IInv, Types, Layout
    <3>5. Laid(Interfaces \o ModuleInterface(m, at), lastIf + m.interfaces, lastEp + Len(m.endpoints))
      BY <3>3, <3>4, ModuleIsLaid
    <3>6. lastIf' = lastIf + m.interfaces /\ lastEp' = lastEp + Len(m.endpoints)
      BY <2>2 DEF TakeNumbers
    <3>7. Len(m.endpoints) \in Nat
      BY ModuleAssumption DEF ModuleAssumption
    <3>8. lastEp' \in 4 .. Endpoints
      BY <2>2, <3>4, <3>6, <3>7 DEF Endpoints
    <3>9. Laid(Interfaces', lastIf', lastEp') /\ lastIf' = InterfaceCount'
      BY <3>2, <3>4, <3>5, <3>6
    <3> QED
      BY <3>8, <3>9 DEF Layout
  <2>3. lastEp + Len(m.endpoints) \in Nat /\ Endpoints \in Nat
    BY ModuleAssumption DEF ModuleAssumption, IInv, Types, Endpoints
  <2> QED
    BY <2>1, <2>2, <2>3 DEF Plug
<1> QED
  BY <1>4, <1>5, <1>6, <1>7 DEF IInv

LEMMA AttachKeeps ==
    ASSUME IInv, Attach
    PROVE  IInv'
<1>1. /\ stage' = "idle" /\ known' = [w \in What |-> 0] /\ attached'
      /\ UNCHANGED <<plugged, lastIf, lastEp, numbers, refused, bankVars, hostVars>>
  BY DEF Attach, IInv, Unattached, hostVars
<1>2. Types'
  BY <1>1 DEF IInv, Types, bankVars, hostVars
<1>3. (Unattached /\ KnownIsTotal /\ Sending /\ Finished)'
  BY <1>1 DEF Unattached, KnownIsTotal, Sending, Finished
<1>4. Layout' /\ AnswerIsCurrent'
  BY <1>1, DescriptorsStay DEF Attach, IInv, Layout, AnswerIsCurrent, bankVars
<1> QED
  BY <1>2, <1>3, <1>4 DEF IInv

LEMMA LongIsNotSingle == \A d, piece : Len(d) > 1 => d # <<piece>>
<1>1. \A piece : Len(<<piece>>) = 1
  OBVIOUS
<1>2. ~(1 > 1)
  OBVIOUS
<1> QED
  BY <1>1, <1>2, Zenon

\* Only a configuration has more than one piece.
LEMMA LongAnswers ==
    ASSUME NEW what \in What, NEW length \in Nat, Len(Descriptor(what, length)) > 1
    PROVE  Descriptor(what, length) = WholeConfiguration
<1> DEFINE config == Config(Bytes(Interfaces) + 9, InterfaceCount)
<1>1. \A piece : Len(<<piece>>) = 1 /\ Len(<<>>) = 0
  OBVIOUS
<1>2. CASE what = "config"
  <2>1. Descriptor(what, length) = Configuration(length)
    BY <1>2 DEF Descriptor, Strings
  <2>2. Configuration(length) \in {<<config>>, <<config>> \o Interfaces}
    BY DEF Configuration
  <2>3. WholeConfiguration = <<config>> \o Interfaces
    BY DEF WholeConfiguration
  <2>5. Descriptor(what, length) # <<config>>
    BY LongIsNotSingle, Zenon
  <2> QED
    BY <2>1, <2>2, <2>3, <2>5
<1>3. CASE what = "device"
  BY <1>1, <1>3 DEF Descriptor, Cut, Strings
<1>4. CASE what = "language"
  BY <1>1, <1>4 DEF Descriptor, Cut, Strings
<1>5. CASE what \in Strings
  <2>1. Descriptor(what, length) = StringDescriptor(Chars[what], length)
    BY <1>5 DEF Descriptor, Strings
  <2> QED
    BY <1>1, <2>1 DEF StringDescriptor
<1>6. CASE what = "unknown"
  BY <1>1, <1>6 DEF Descriptor, Strings
<1> QED
  BY <1>2, <1>3, <1>4, <1>5, <1>6 DEF What

LEMMA HostAsksKeeps ==
    ASSUME IInv, NEW what \in What, NEW length \in 0 .. MaxLength, HostAsks(what, length)
    PROVE  IInv'
<1> DEFINE pieces == Descriptor(what, length)
<1>1. /\ attached /\ stage = "idle" /\ IsrDescriptor(what, length)
      /\ length \in FirstLengths[what] \cup {MaxLength} \cup ({known[what]} \ {0})
      /\ request' = [what |-> what, length |-> length] /\ received' = 0
      /\ UNCHANGED <<plugVars, known>>
  BY DEF HostAsks
<1>2. \A w \in What : Total(w)' = Total(w)
  BY <1>1, DescriptorsStay DEF plugVars
<1>3. length \in 1 .. MaxLength /\ length \in Lengths(what)
  <2>1. 0 \notin FirstLengths[what]
    BY DEF FirstLengths, What, Strings
  <2>2. known[what] \in {0, Total(what)}
    BY DEF IInv, KnownIsTotal
  <2> QED
    BY <1>1, <2>1, <2>2 DEF Lengths, MaxLength
<1>4. Interfaces \in Seq(Piece)
  BY InterfaceTypes DEF IInv, Types
<1>5. request' \in [what : What, length : Nat] /\ request'.what = what /\ request'.length = length
  BY <1>1
<1>6. CASE pieces = <<>>
  <2>1. stage' = "stalled" /\ UNCHANGED bankVars
    BY <1>1, <1>6 DEF IsrDescriptor
  <2>2. Types'
    BY <1>1, <1>5, <2>1 DEF IInv, Types, plugVars, bankVars
  <2>3. Layout' /\ AnswerIsCurrent'
    BY <1>1, <2>1, LayoutStays, AnswerStays DEF bankVars
  <2> QED
    BY <1>1, <1>2, <2>1, <2>2, <2>3 DEF IInv, Unattached, KnownIsTotal, Sending, Finished, plugVars
<1>7. CASE pieces # <<>>
  <2>1. /\ Bytes(pieces) \in Nat /\ Head(pieces).total = Total(what)
        /\ (what = "config" => Total(what) <= MaxLength)
              => Bytes(pieces) = Smaller(length, Total(what))
    BY <1>3, <1>4, <1>7, Answered
  <2>2. /\ stage' = "data" /\ answer' = pieces /\ armed' = Bytes(pieces) /\ multi' = 0
    BY <1>1, <1>7 DEF IsrDescriptor, SendControl
  <2> HIDE DEF pieces
  <2>3. Types'
    BY <1>1, <1>5, <2>1, <2>2 DEF IInv, Types, plugVars
  <2>4. Unattached' /\ KnownIsTotal' /\ Finished'
    BY <1>1, <1>2, <2>2 DEF IInv, Unattached, KnownIsTotal, Finished, plugVars
  <2>5. Sending'
    <3>1. "config" \in What
      BY DEF What
    <3>2. Fits' => (what = "config" => Total(what) <= MaxLength)
      BY <1>2, <1>5, <3>1 DEF Fits
    <3> QED
      BY <1>1, <1>2, <1>5, <2>1, <2>2, <3>2 DEF Sending
  <2>6. Layout'
    BY <1>1, LayoutStays
  <2>7. AnswerIsCurrent'
    <3>1. Len(pieces) > 1 => pieces = WholeConfiguration
      BY <1>3, LongAnswers DEF pieces
    <3>2. WholeConfiguration' = WholeConfiguration
      BY <1>1, DescriptorsStay DEF plugVars
    <3> QED
      BY <1>1, <2>2, <3>1, <3>2 DEF AnswerIsCurrent, plugVars
  <2> QED
    BY <2>3, <2>4, <2>5, <2>6, <2>7 DEF IInv
<1> QED
  BY <1>6, <1>7

LEMMA HostInKeeps ==
    ASSUME IInv, HostIn
    PROVE  IInv'
<1> DEFINE n == Smaller(armed - multi, MaxPacket)
<1>1. /\ stage = "data" /\ received' = received + n /\ multi' = multi + n
      /\ stage' = IF n < MaxPacket \/ received' >= request.length THEN "done" ELSE stage
      /\ known' = IF stage' = "done" THEN [known EXCEPT ![request.what] = Head(answer).total]
                                     ELSE known
      /\ UNCHANGED <<plugVars, request, answer, armed>>
  BY DEF HostIn, Smaller
<1>2. /\ armed \in Nat /\ multi \in Nat /\ received \in Nat /\ multi = received /\ received <= armed
      /\ request.what \in What /\ known \in [What -> Nat]
      /\ Head(answer).total = Total(request.what) /\ attached
      /\ Fits => armed = Smaller(request.length, Total(request.what))
  BY <1>1 DEF IInv, Types, Sending, Unattached
<1>3. n \in Nat /\ multi + n <= armed /\ (n < MaxPacket => multi + n = armed)
  BY <1>2, ModuleAssumption DEF ModuleAssumption, Smaller
<1> HIDE DEF n
<1>4. \A w \in What : Total(w)' = Total(w)
  BY <1>1, DescriptorsStay DEF plugVars
<1>5. Interfaces \in Seq(Piece)
  BY InterfaceTypes DEF IInv, Types
<1>6. known' \in [What -> Nat] /\ KnownIsTotal'
  <2>1. Total(request.what) \in Nat
    BY <1>2, <1>5, TotalTypes
  <2> QED
    BY <1>1, <1>2, <1>4, <2>1 DEF IInv, KnownIsTotal
<1>7. stage' \in {"data", "done"} /\ multi' \in Nat /\ received' \in Nat
  BY <1>1, <1>2, <1>3
<1>8. Types'
  BY <1>1, <1>6, <1>7 DEF IInv, Types, plugVars
<1>9. Unattached'
  BY <1>1, <1>2 DEF Unattached, plugVars
<1>10. Sending'
  <2>1. "config" \in What
    BY DEF What
  <2>2. Fits' = Fits /\ Total(request.what)' = Total(request.what)
    BY <1>1, <1>2, <1>4, <2>1 DEF Fits
  <2> QED
    BY <1>1, <1>2, <1>3, <2>2 DEF Sending
<1>11. Finished'
  BY <1>1, <1>2, <1>3 DEF Finished
<1>12. Layout' /\ AnswerIsCurrent'
  BY <1>1, LayoutStays, AnswerStays
<1> QED
  BY <1>6, <1>8, <1>9, <1>10, <1>11, <1>12 DEF IInv

\* The ends of a request, for which nothing moves but the host.
LEMMA EndKeeps ==
    ASSUME IInv, stage' = "idle", UNCHANGED <<plugVars, bankVars, request, known, received>>
    PROVE  IInv'
<1>1. Types'
  BY DEF IInv, Types, plugVars, bankVars
<1>2. \A w \in What : Total(w)' = Total(w)
  BY DescriptorsStay DEF plugVars
<1>3. (Unattached /\ KnownIsTotal /\ Sending /\ Finished)'
  BY <1>2 DEF IInv, Unattached, KnownIsTotal, Sending, Finished, plugVars
<1>4. Layout' /\ AnswerIsCurrent'
  BY LayoutStays, AnswerStays DEF bankVars
<1> QED
  BY <1>1, <1>3, <1>4 DEF IInv

LEMMA StepIInv == IInv /\ [Next]_vars => IInv'
<1> SUFFICES ASSUME IInv, [Next]_vars PROVE IInv'
  OBVIOUS
<1>1. ASSUME NEW m \in Module, Plug(m) PROVE IInv'
  BY <1>1, PlugKeeps
<1>2. CASE Attach
  BY <1>2, AttachKeeps
<1>3. ASSUME NEW what \in What, NEW length \in 0 .. MaxLength, HostAsks(what, length)
      PROVE  IInv'
  BY <1>3, HostAsksKeeps
<1>4. CASE HostIn
  BY <1>4, HostInKeeps
<1>5. CASE HostStalled \/ HostDone \/ HostDrops
  BY <1>5, EndKeeps DEF HostStalled, HostDone, HostDrops
<1>6. CASE UNCHANGED vars
  <2>1. \A w \in What : Total(w)' = Total(w)
    BY <1>6, DescriptorsStay DEF vars, plugVars
  <2>2. Types' /\ Unattached'
    BY <1>6 DEF IInv, Types, Unattached, vars, plugVars, bankVars, hostVars
  <2>3. KnownIsTotal' /\ Finished'
    BY <1>6, <2>1 DEF IInv, KnownIsTotal, Finished, vars, plugVars, bankVars, hostVars
  <2>4. Sending'
    <3>1. "config" \in What /\ request.what \in What
      BY DEF What, IInv, Types
    <3> QED
      BY <1>6, <2>1, <3>1 DEF IInv, Sending, Fits, vars, plugVars, bankVars, hostVars
  <2>5. Layout' /\ AnswerIsCurrent'
    BY <1>6, LayoutStays, AnswerStays DEF vars, bankVars
  <2> QED
    BY <2>2, <2>3, <2>4, <2>5 DEF IInv
<1> QED
  BY <1>1, <1>2, <1>3, <1>4, <1>5, <1>6 DEF Next

THEOREM Invariance == Spec => []IInv
<1>1. Init => IInv
  BY InitIInv
<1>2. IInv /\ [Next]_vars => IInv'
  BY StepIInv
<1> QED
  BY <1>1, <1>2, PTL DEF Spec

\* A host that asks for a descriptor, with a length hosts use, gets the bytes it
\* asked for or, when there are fewer, the whole descriptor, and its first piece
\* says how long it is.  This is for any modules that are plugged in, any strings
\* of sendStringDescriptor() and any size of the packets, as long as the
\* configuration has no more bytes than the host asks for at once:
\* sendConfiguration() sends all of it whatever was asked for.
THEOREM AnswersAreWhole == Spec => [](Fits => AnswerWhole)
<1>1. IInv => (Fits => AnswerWhole)
  <2> SUFFICES ASSUME IInv, Fits, stage = "done"
               PROVE  received = Smaller(request.length, Head(answer).total)
    BY DEF AnswerWhole, Smaller
  <2>1. /\ Head(answer).total = Total(request.what)
        /\ armed = Smaller(request.length, Total(request.what))
        /\ received <= armed /\ (received = armed \/ received >= request.length)
    BY DEF IInv, Sending, Finished
  <2>2. received \in Nat /\ request.length \in Nat /\ Total(request.what) \in Nat
    <3>1. Interfaces \in Seq(Piece) /\ request.what \in What
      BY InterfaceTypes DEF IInv, Types
    <3> QED
      BY <3>1, TotalTypes DEF IInv, Types
  <2> QED
    BY <2>1, <2>2 DEF Smaller
<1> QED
  BY <1>1, Invariance, PTL

\* A configuration that is sent whole makes sense to the host, for any modules, in
\* whatever order plug() was called for them and whichever it refused: interfaces
\* and endpoints are numbered without gap or overlap, announced as they are
\* sent, and there are no more endpoints than the device has.
THEOREM ConfigurationsParse == Spec => []ConfigurationParses
<1>1. IInv => ConfigurationParses
  <2> SUFFICES ASSUME IInv, answer # <<>>, Len(answer) > 1
               PROVE  /\ Numbers(Tail(answer), "interface") = 0 .. Head(answer).interfaces - 1
                      /\ Numbers(Tail(answer), "endpoint") \subseteq 1 .. Endpoints - 1
                      /\ Laid(Tail(answer), lastIf, lastEp)
    BY DEF ConfigurationParses, Laid
  <2>1. Interfaces \in Seq(Piece)
    BY InterfaceTypes DEF IInv, Types
  <2>2. answer = <<Config(Bytes(Interfaces) + 9, InterfaceCount)>> \o Interfaces
    BY DEF IInv, AnswerIsCurrent, WholeConfiguration
  <2>3. Head(answer) = Config(Bytes(Interfaces) + 9, InterfaceCount) /\ Tail(answer) = Interfaces
    BY <2>1, <2>2
  <2>4. Head(answer).interfaces = lastIf
    BY <2>3 DEF Config, IInv, Layout
  <2>5. Laid(Interfaces, lastIf, lastEp) /\ lastEp \in 4 .. Endpoints
    BY DEF IInv, Layout
  <2>6. 1 .. lastEp - 1 \subseteq 1 .. Endpoints - 1
    BY <2>5 DEF Endpoints
  <2>7. Numbers(Interfaces, "interface") = 0 .. lastIf - 1
        /\ Numbers(Interfaces, "endpoint") \subseteq 1 .. lastEp - 1
    BY <2>5 DEF Laid
  <2> QED
    BY <2>3, <2>4, <2>5, <2>6, <2>7
<1> QED
  BY <1>1, Invariance, PTL
=============================================================================
