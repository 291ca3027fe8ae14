----------------------------- MODULE GpioProofs -----------------------------
(***************************************************************************)
(* The pins, for ports of every even width and any set of functions, as    *)
(* long as the program uses pins of port A only: for port B the theorems   *)
(* are false, see GpioPortB.                                               *)
(***************************************************************************)
EXTENDS Gpio, TLAPS

PortAOnly == UsedPins \subseteq 0 .. Width - 1

Byte == 0 .. 255
Masks == {PMUXEN, INEN, PULLEN}

-----------------------------------------------------------------------------
(* Bits and halves of a byte.                                              *)

\* Writing a bit changes that bit and no other.
LEMMA WriteBit ==
    ASSUME NEW b \in Byte, NEW k \in Masks, NEW j \in Masks, NEW v \in 0 .. 1
    PROVE  /\ WithBit(b, k, v) \in Byte
           /\ Bit(WithBit(b, k, v), j) = IF j = k THEN v ELSE Bit(b, j)
<1> USE DEF Byte, Masks, PMUXEN, INEN, PULLEN
<1>1. PICK h \in 0 .. 31, x \in 0 .. 1, y \in 0 .. 1, z \in 0 .. 1 :
         b = 8 * h + 4 * z + 2 * y + x
  <2>1. b = 8 * (b \div 8) + 4 * ((b \div 4) % 2) + 2 * ((b \div 2) % 2) + (b % 2)
    OBVIOUS
  <2>2. /\ b \div 8 \in 0 .. 31 /\ (b \div 4) % 2 \in 0 .. 1
        /\ (b \div 2) % 2 \in 0 .. 1 /\ b % 2 \in 0 .. 1
    OBVIOUS
  <2> QED
    BY <2>1, <2>2
<1>2. \A g \in 0 .. 31, s \in 0 .. 1, t \in 0 .. 1, u \in 0 .. 1 :
         LET c == 8 * g + 4 * u + 2 * t + s
         IN  Bit(c, 1) = s /\ Bit(c, 2) = t /\ Bit(c, 4) = u
  BY DEF Bit
<1>3. /\ WithBit(b, 1, v) = 8 * h + 4 * z + 2 * y + v
      /\ WithBit(b, 2, v) = 8 * h + 4 * z + 2 * v + x
      /\ WithBit(b, 4, v) = 8 * h + 4 * v + 2 * y + x
  <2>1. Bit(b, 1) = x /\ Bit(b, 2) = y /\ Bit(b, 4) = z
    BY <1>1, <1>2
  <2> QED
    BY <1>1, <2>1 DEF WithBit
<1> QED
  BY <1>1, <1>2, <1>3

\* Writing half a byte changes that half.
LEMMA WriteHalf ==
    ASSUME NEW b \in Byte, NEW v \in 0 .. 15
    PROVE  /\ \A high \in BOOLEAN : WithHalf(b, high, v) \in Byte
           /\ \A high \in BOOLEAN : Half(WithHalf(b, high, v), high) = v
           /\ \A high \in BOOLEAN, h \in BOOLEAN :
                 h # high => Half(WithHalf(b, high, v), h) = Half(b, h)
BY DEF WithHalf, Half, Byte

-----------------------------------------------------------------------------
(* The places of the registers.                                            *)

\* The PMUX register of a pin, and the half of it that is the pin's.
Pmux(pin) == mem[PortOf(pin)][PmuxCell(IndexOf(pin) \div 2)]
Odd(pin) == IndexOf(pin) % 2 = 1

LEMMA Places ==
    ASSUME NEW q \in Pin
    PROVE  /\ PortOf(q) \in Port
           /\ IndexOf(q) = q - Width * PortOf(q)
           /\ PincfgCell(IndexOf(q)) \in Cell
           /\ PmuxCell(IndexOf(q) \div 2) \in Cell
           /\ Odd(q) \in BOOLEAN
<1> USE GpioAssumption DEF PortOf, IndexOf
<1>1. /\ PortOf(q) \in Port /\ IndexOf(q) \in 0 .. Width - 1
      /\ IndexOf(q) = q - Width * PortOf(q)
  <2>1. CASE q < Width
    <3>1. q \in 0 .. Width - 1
      BY <2>1 DEF Pin
    <3>2. q \div Width = 0 /\ q % Width = q
      BY <3>1
    <3> QED
      BY <3>1, <3>2 DEF Port
  <2>2. CASE q >= Width
    <3>1. Ports = 2 /\ q \in Width .. 2 * Width - 1
      BY <2>2 DEF Pin
    <3>2. q \div Width = 1 /\ q % Width = q - Width
      BY <3>1
    <3> QED
      BY <3>1, <3>2 DEF Port
  <2> QED
    BY <2>1, <2>2 DEF Pin
<1>2. ASSUME NEW i \in 0 .. Width - 1
      PROVE  PincfgCell(i) \in Cell /\ PmuxCell(i \div 2) \in Cell
  BY DEF PincfgCell, PmuxCell, Cell
<1> QED
  BY <1>1, <1>2, Zenon DEF Odd

LEMMA PlacesA ==
    ASSUME PortAOnly, NEW p \in UsedPins
    PROVE  /\ p \in Pin /\ PortOf(p) = 0 /\ IndexOf(p) = p /\ 0 \in Port
           /\ p \in 0 .. Width - 1
<1>1. p \in 0 .. Width - 1
  BY DEF PortAOnly
<1>2. p \in Pin
  BY GpioAssumption DEF Pin
<1>3. p \div Width = 0 /\ p % Width = p
  BY <1>1, GpioAssumption
<1> QED
  BY <1>1, <1>2, <1>3, GpioAssumption DEF PortOf, IndexOf, Port

\* Two pins share no PINCFG register and no half of a PMUX register, and no
\* register is both.
LEMMA PlacesApart ==
    ASSUME PortAOnly, NEW p \in UsedPins, NEW q \in Pin, PortOf(q) = 0
    PROVE  /\ PincfgCell(IndexOf(p)) = PincfgCell(IndexOf(q)) => p = q
           /\ PmuxCell(p \div 2) = PmuxCell(IndexOf(q) \div 2) /\ Odd(p) = Odd(q) => p = q
           /\ PincfgCell(IndexOf(p)) # PmuxCell(IndexOf(q) \div 2)
           /\ PmuxCell(p \div 2) # PincfgCell(IndexOf(q))
           /\ PmuxCell(p \div 2) # PincfgCell(IndexOf(p))
<1>1. IndexOf(p) = p /\ p \in 0 .. Width - 1
  BY PlacesA
<1>2. IndexOf(q) = q /\ q \in 0 .. Width - 1
  <2>1. IndexOf(q) = q - Width * 0
    BY Places
  <2>2. PincfgCell(IndexOf(q)) \in Cell
    BY Places
  <2> QED
    BY <2>1, <2>2, GpioAssumption DEF PincfgCell, Cell, Pin
<1>3. p \div 2 < Width \div 2 /\ q \div 2 < Width \div 2
  BY <1>1, <1>2, GpioAssumption
<1>4. p \div 2 = q \div 2 /\ p % 2 = q % 2 => p = q
  BY <1>1, <1>2
<1>5. (p % 2 = 1) = (q % 2 = 1) => p % 2 = q % 2
  BY <1>1, <1>2
<1> QED
  BY <1>1, <1>2, <1>3, <1>4, <1>5, GpioAssumption DEF PincfgCell, PmuxCell, Odd

-----------------------------------------------------------------------------
(* The registers of a pin are changed by calls for that pin only.          *)

Types ==
    /\ dir \in [Pin -> BOOLEAN] /\ out \in [Pin -> BOOLEAN]
    /\ mem \in [Port -> [Cell -> Byte]]
    /\ mode \in [Pin -> Modes]
    /\ function \in [Pin -> Functions \cup {Disabled}]

LEMMA PincfgByte ==
    ASSUME Types, NEW q \in Pin
    PROVE  Pincfg(q) \in Byte /\ Pmux(q) \in Byte
BY Places DEF Types, Pincfg, Pmux

LEMMA PincfgWritten ==
    ASSUME Types, PortAOnly, NEW p \in UsedPins, NEW v \in Byte, SetPincfg(p, v)
    PROVE  /\ mem' \in [Port -> [Cell -> Byte]]
           /\ Pincfg(p)' = v
           /\ \A q \in Pin : Pmux(q)' = Pmux(q)
           /\ \A q \in Pin \ {p} : Pincfg(q)' = Pincfg(q)
<1>1. /\ PortOf(p) = 0 /\ 0 \in Port /\ PincfgCell(IndexOf(p)) \in Cell /\ p \in Pin
  BY PlacesA, Places
<1>2. mem' = [mem EXCEPT ![0] = [mem[0] EXCEPT ![PincfgCell(IndexOf(p))] = v]]
  BY <1>1 DEF SetPincfg
<1>3. /\ mem' \in [Port -> [Cell -> Byte]]
      /\ Pincfg(p)' = v
  BY <1>1, <1>2 DEF Types, Pincfg
<1>4. ASSUME NEW q \in Pin
      PROVE  Pmux(q)' = Pmux(q) /\ (q # p => Pincfg(q)' = Pincfg(q))
  <2>1. /\ PortOf(q) \in Port /\ PincfgCell(IndexOf(q)) \in Cell
        /\ PmuxCell(IndexOf(q) \div 2) \in Cell
    BY Places
  <2>2. CASE PortOf(q) = 0
    BY <1>1, <1>2, <2>1, <2>2, PlacesApart DEF Types, Pmux, Pincfg
  <2>3. CASE PortOf(q) # 0
    BY <1>1, <1>2, <2>1, <2>3 DEF Types, Pmux, Pincfg
  <2> QED
    BY <2>2, <2>3
<1> QED
  BY <1>3, <1>4

\* What SetInput() and EnableMux() do to the three bits of their pin.
LEMMA InputWritten ==
    ASSUME Types, PortAOnly, NEW p \in UsedPins, NEW in \in 0 .. 1, NEW pull \in 0 .. 1,
           SetInput(p, in, pull)
    PROVE  /\ mem' \in [Port -> [Cell -> Byte]]
           /\ \A q \in Pin : Pmux(q)' = Pmux(q)
           /\ \A q \in Pin \ {p} : Pincfg(q)' = Pincfg(q)
           /\ Bit(Pincfg(p)', PULLEN) = pull /\ Bit(Pincfg(p)', INEN) = in
           /\ Bit(Pincfg(p)', PMUXEN) = Bit(Pincfg(p), PMUXEN)
<1> DEFINE pulled == WithBit(Pincfg(p), PULLEN, pull)
           v == WithBit(pulled, INEN, in)
<1>1. Pincfg(p) \in Byte /\ PULLEN \in Masks /\ INEN \in Masks /\ PMUXEN \in Masks
  BY PlacesA, PincfgByte DEF Masks
<1>2. PULLEN # INEN /\ PULLEN # PMUXEN /\ INEN # PMUXEN
  BY DEF PULLEN, INEN, PMUXEN
<1>3. pulled \in Byte /\ Bit(pulled, PULLEN) = pull
      /\ Bit(pulled, PMUXEN) = Bit(Pincfg(p), PMUXEN)
  BY <1>1, <1>2, WriteBit
<1> HIDE DEF pulled
<1>4. v \in Byte /\ Bit(v, INEN) = in /\ Bit(v, PULLEN) = pull
      /\ Bit(v, PMUXEN) = Bit(Pincfg(p), PMUXEN)
  BY <1>1, <1>2, <1>3, WriteBit
<1>5. SetPincfg(p, v)
  BY DEF SetInput, pulled
<1> HIDE DEF v
<1> QED
  BY <1>4, <1>5, PincfgWritten

LEMMA MuxWritten ==
    ASSUME Types, PortAOnly, NEW p \in UsedPins, NEW v \in 0 .. 1, mem' = EnableMux(mem, p, v)
    PROVE  /\ mem' \in [Port -> [Cell -> Byte]]
           /\ \A q \in Pin : Pmux(q)' = Pmux(q)
           /\ \A q \in Pin \ {p} : Pincfg(q)' = Pincfg(q)
           /\ Bit(Pincfg(p)', PMUXEN) = v
           /\ Bit(Pincfg(p)', INEN) = Bit(Pincfg(p), INEN)
           /\ Bit(Pincfg(p)', PULLEN) = Bit(Pincfg(p), PULLEN)
<1> DEFINE w == WithBit(Pincfg(p), PMUXEN, v)
<1>1. Pincfg(p) \in Byte /\ PULLEN \in Masks /\ INEN \in Masks /\ PMUXEN \in Masks
  BY PlacesA, PincfgByte DEF Masks
<1>2. PULLEN # INEN /\ PULLEN # PMUXEN /\ INEN # PMUXEN
  BY DEF PULLEN, INEN, PMUXEN
<1>3. w \in Byte /\ Bit(w, PMUXEN) = v /\ Bit(w, INEN) = Bit(Pincfg(p), INEN)
      /\ Bit(w, PULLEN) = Bit(Pincfg(p), PULLEN)
  BY <1>1, <1>2, WriteBit
<1>4. SetPincfg(p, w)
  BY DEF EnableMux, SetPincfg, Pincfg
<1> HIDE DEF w
<1> QED
  BY <1>3, <1>4, PincfgWritten

\* SetFunction() with a function writes the pin's half of PMUX, and PMUXEN.
LEMMA FunctionWritten ==
    ASSUME Types, PortAOnly, NEW p \in UsedPins, NEW f \in Functions,
           mem' = EnableMux(SelectFunction(p, f), p, 1)
    PROVE  /\ mem' \in [Port -> [Cell -> Byte]]
           /\ \A q \in Pin \ {p} : /\ Pincfg(q)' = Pincfg(q)
                                   /\ Half(Pmux(q)', Odd(q)) = Half(Pmux(q), Odd(q))
           /\ Half(Pmux(p)', Odd(p)) = f
           /\ Bit(Pincfg(p)', PMUXEN) = 1
           /\ Bit(Pincfg(p)', INEN) = Bit(Pincfg(p), INEN)
           /\ Bit(Pincfg(p)', PULLEN) = Bit(Pincfg(p), PULLEN)
<1> DEFINE cfg == PincfgCell(IndexOf(p))
           mux == PmuxCell(p \div 2)
           w == WithBit(mem[0][cfg], PMUXEN, 1)
           h == WithHalf(mem[0][mux], Odd(p), f)
<1>1. /\ PortOf(p) = 0 /\ 0 \in Port /\ p \in Pin /\ IndexOf(p) = p
      /\ cfg \in Cell /\ mux \in Cell /\ mux # cfg /\ Odd(p) \in BOOLEAN
  BY PlacesA, Places, PlacesApart
<1>2. mem[0][cfg] \in Byte /\ mem[0][mux] \in Byte
  BY <1>1 DEF Types
<1>3. /\ w \in Byte /\ Bit(w, PMUXEN) = 1 /\ Bit(w, INEN) = Bit(mem[0][cfg], INEN)
      /\ Bit(w, PULLEN) = Bit(mem[0][cfg], PULLEN)
  <2>1. PULLEN \in Masks /\ INEN \in Masks /\ PMUXEN \in Masks
    BY DEF Masks
  <2>2. PULLEN # INEN /\ PULLEN # PMUXEN /\ INEN # PMUXEN
    BY DEF PULLEN, INEN, PMUXEN
  <2> QED
    BY <1>2, <2>1, <2>2, WriteBit
<1>4. f \in 0 .. 15
  BY GpioAssumption
<1>5. /\ h \in Byte /\ Half(h, Odd(p)) = f
      /\ \A odd \in BOOLEAN : odd # Odd(p) => Half(h, odd) = Half(mem[0][mux], odd)
  BY <1>1, <1>2, <1>4, WriteHalf, ZenonT(80)
<1>6. SelectFunction(p, f) = [mem EXCEPT ![0] = [mem[0] EXCEPT ![mux] = h]]
  BY <1>1 DEF SelectFunction, Odd
<1> DEFINE m1 == [mem EXCEPT ![0] = [mem[0] EXCEPT ![mux] = h]]
<1>7. mem' = [m1 EXCEPT ![0] = [m1[0] EXCEPT ![cfg] = WithBit(m1[0][cfg], PMUXEN, 1)]]
  BY <1>1, <1>6 DEF EnableMux
<1> HIDE DEF cfg, mux, h, w
<1>8. m1[0] = [mem[0] EXCEPT ![mux] = h] /\ m1[0][cfg] = mem[0][cfg]
  BY <1>1 DEF Types
<1>9. /\ mem' \in [Port -> [Cell -> Byte]]
      /\ mem'[0][mux] = h /\ mem'[0][cfg] = w
      /\ \A c \in Cell : c # mux /\ c # cfg => mem'[0][c] = mem[0][c]
      /\ \A g \in Port : g # 0 => mem'[g] = mem[g]
  <2>1. m1 \in [Port -> [Cell -> Byte]]
    BY <1>1, <1>5 DEF Types
  <2>2. mem' = [m1 EXCEPT ![0] = [m1[0] EXCEPT ![cfg] = w]]
    BY <1>7, <1>8 DEF w
  <2> QED
    BY <1>1, <1>3, <1>5, <1>8, <2>1, <2>2 DEF Types
<1>10. ASSUME NEW q \in Pin, q # p
       PROVE  Pincfg(q)' = Pincfg(q) /\ Half(Pmux(q)', Odd(q)) = Half(Pmux(q), Odd(q))
  <2>1. /\ PortOf(q) \in Port /\ PincfgCell(IndexOf(q)) \in Cell
        /\ PmuxCell(IndexOf(q) \div 2) \in Cell /\ Odd(q) \in BOOLEAN
    BY Places
  <2>2. CASE PortOf(q) = 0
    <3>1. /\ PincfgCell(IndexOf(q)) # cfg /\ PincfgCell(IndexOf(q)) # mux
          /\ PmuxCell(IndexOf(q) \div 2) # cfg
          /\ PmuxCell(IndexOf(q) \div 2) = mux => Odd(q) # Odd(p)
      BY <1>10, <2>2, PlacesApart DEF cfg, mux
    <3> QED
      BY <1>5, <1>9, <2>1, <2>2, <3>1 DEF Pincfg, Pmux
  <2>3. CASE PortOf(q) # 0
    BY <1>9, <2>1, <2>3 DEF Pincfg, Pmux
  <2> QED
    BY <2>2, <2>3
<1>11. Pincfg(p)' = w /\ Pincfg(p) = mem[0][cfg] /\ Pmux(p)' = h
  BY <1>1, <1>9 DEF Pincfg, Pmux, cfg, mux
<1> QED
  BY <1>3, <1>5, <1>9, <1>10, <1>11, <1>1

-----------------------------------------------------------------------------
(* The invariant.                                                          *)

IInv == Types /\ FunctionAssigned /\ ModeHeld

LEMMA PadsOf ==
    /\ \A q \in Pin : PadFunction(q) = IF Bit(Pincfg(q), PMUXEN) = 0 THEN Disabled
                                       ELSE Half(Pmux(q), Odd(q))
    /\ \A q \in Pin : (PadFunction(q) = IF Bit(Pincfg(q), PMUXEN) = 0 THEN Disabled
                                       ELSE Half(Pmux(q), Odd(q)))'
BY DEF PadFunction, Pmux, Odd

LEMMA InitInv == Init => IInv
<1> SUFFICES ASSUME Init PROVE IInv
  OBVIOUS
<1>1. Types
  BY DEF Init, Types, Modes, Byte
<1>2. ASSUME NEW q \in Pin
      PROVE  PadFunction(q) = function[q] /\ PadMode(q) = mode[q]
  <2>1. Pincfg(q) = 0
    BY Places DEF Init, Pincfg
  <2>2. Bit(0, PMUXEN) = 0 /\ Bit(0, INEN) = 0 /\ Bit(0, PULLEN) = 0
    BY DEF Bit, PMUXEN, INEN, PULLEN
  <2>3. PadFunction(q) = Disabled /\ function[q] = Disabled
    BY <2>1, <2>2 DEF Init, PadFunction
  <2>4. ~dir[q] /\ mode[q] = "HighImpedance"
    BY DEF Init
  <2>5. PadMode(q) = "HighImpedance"
    BY <2>1, <2>2, <2>4 DEF PadMode
  <2> QED
    BY <2>3, <2>4, <2>5
<1> QED
  BY <1>1, <1>2 DEF IInv, FunctionAssigned, ModeHeld

\* A call that leaves the function of every pin and the PMUXEN of its own.
LEMMA FunctionsKept ==
    ASSUME IInv, PortAOnly, NEW p \in UsedPins, UNCHANGED function,
           \A q \in Pin : Pmux(q)' = Pmux(q),
           \A q \in Pin \ {p} : Pincfg(q)' = Pincfg(q),
           Bit(Pincfg(p)', PMUXEN) = Bit(Pincfg(p), PMUXEN)
    PROVE  FunctionAssigned'
BY PadsOf DEF IInv, FunctionAssigned

\* A call that leaves the mode of every pin but its own.
LEMMA ModesKept ==
    ASSUME IInv, NEW p \in Pin,
           \A q \in Pin \ {p} :
              /\ dir'[q] = dir[q] /\ out'[q] = out[q] /\ mode'[q] = mode[q]
              /\ Bit(Pincfg(q)', PULLEN) = Bit(Pincfg(q), PULLEN)
              /\ Bit(Pincfg(q)', INEN) = Bit(Pincfg(q), INEN),
           PadMode(p)' = mode'[p]
    PROVE  ModeHeld'
<1>1. ASSUME NEW q \in Pin, q # p PROVE PadMode(q)' = mode'[q]
  BY <1>1 DEF IInv, ModeHeld, PadMode
<1> QED
  BY <1>1 DEF ModeHeld

LEMMA SetModeInv ==
    ASSUME IInv, PortAOnly, NEW p \in UsedPins, NEW m \in Modes, SetMode(p, m)
    PROVE  IInv'
<1>1. p \in Pin /\ Types
  BY PlacesA DEF IInv
<1> DEFINE in == IF m \in {"Input", "PullUp", "PullDown"} THEN 1 ELSE 0
           pull == IF m \in {"PullUp", "PullDown"} THEN 1 ELSE 0
<1>2. SetInput(p, in, pull) /\ UNCHANGED function
  BY DEF SetMode, Modes
<1>3. in \in 0 .. 1 /\ pull \in 0 .. 1
  OBVIOUS
<1> HIDE DEF in, pull
<1>4. /\ mem' \in [Port -> [Cell -> Byte]]
      /\ \A q \in Pin : Pmux(q)' = Pmux(q)
      /\ \A q \in Pin \ {p} : Pincfg(q)' = Pincfg(q)
      /\ Bit(Pincfg(p)', PULLEN) = pull /\ Bit(Pincfg(p)', INEN) = in
      /\ Bit(Pincfg(p)', PMUXEN) = Bit(Pincfg(p), PMUXEN)
  BY <1>1, <1>2, <1>3, InputWritten
<1>5. Types'
  <2>1. dir' \in [Pin -> BOOLEAN]
    BY <1>1 DEF SetMode, Types
  <2>2. out' \in [Pin -> BOOLEAN]
    <3>1. CASE m = "Input"
      BY <1>1, <3>1 DEF SetMode, Types
    <3>2. CASE m # "Input"
      <4>1. out' = [out EXCEPT ![p] = m \in {"PullUp", "High"}]
        BY <3>2 DEF SetMode
      <4> QED
        BY <1>1, <4>1 DEF Types
    <3> QED
      BY <3>1, <3>2
  <2>3. mode' \in [Pin -> Modes]
    BY <1>1 DEF SetMode, Types
  <2> QED
    BY <1>1, <1>2, <1>4, <2>1, <2>2, <2>3, Zenon DEF Types
<1>6. FunctionAssigned'
  BY <1>2, <1>4, FunctionsKept
<1>7. PadMode(p)' = mode'[p]
  <2>1. mode'[p] = m
    BY <1>1 DEF SetMode, Types
  <2>2. dir'[p] <=> m \in {"High", "Low"}
    BY <1>1 DEF SetMode, Types
  <2>3. m # "Input" => (out'[p] <=> m \in {"PullUp", "High"})
    BY <1>1 DEF SetMode, Types
  <2> QED
    BY <1>4, <2>1, <2>2, <2>3 DEF PadMode, Level, PullLevel, Modes, in, pull
<1>8. ModeHeld'
  <2>1. ASSUME NEW q \in Pin, q # p
        PROVE  dir'[q] = dir[q] /\ out'[q] = out[q] /\ mode'[q] = mode[q]
    BY <1>1, <2>1 DEF SetMode, Types
  <2> QED
    BY <1>1, <1>4, <1>7, <2>1, ModesKept
<1> QED
  BY <1>5, <1>6, <1>8 DEF IInv

LEMMA ConfigureAsOutputInv ==
    ASSUME IInv, PortAOnly, NEW p \in UsedPins, ConfigureAsOutput(p)
    PROVE  IInv'
<1>1. p \in Pin /\ Types
  BY PlacesA DEF IInv
<1>2. SetInput(p, 0, 0) /\ UNCHANGED <<out, function>>
  BY DEF ConfigureAsOutput
<1>3. /\ mem' \in [Port -> [Cell -> Byte]]
      /\ \A q \in Pin : Pmux(q)' = Pmux(q)
      /\ \A q \in Pin \ {p} : Pincfg(q)' = Pincfg(q)
      /\ Bit(Pincfg(p)', PMUXEN) = Bit(Pincfg(p), PMUXEN)
  BY <1>1, <1>2, InputWritten
<1>4. Types'
  <2>1. dir' \in [Pin -> BOOLEAN]
    BY <1>1 DEF ConfigureAsOutput, Types
  <2>2. mode' \in [Pin -> Modes]
    BY <1>1 DEF ConfigureAsOutput, Types, Level, Modes
  <2> QED
    BY <1>1, <1>2, <1>3, <2>1, <2>2, Zenon DEF Types
<1>5. FunctionAssigned'
  BY <1>2, <1>3, FunctionsKept
<1>6. PadMode(p)' = mode'[p]
  BY <1>1 DEF ConfigureAsOutput, Types, PadMode
<1>7. ModeHeld'
  <2>1. ASSUME NEW q \in Pin, q # p
        PROVE  dir'[q] = dir[q] /\ out'[q] = out[q] /\ mode'[q] = mode[q]
    BY <1>1, <2>1 DEF ConfigureAsOutput, Types
  <2> QED
    BY <1>1, <1>3, <1>6, <2>1, ModesKept
<1> QED
  BY <1>4, <1>5, <1>7 DEF IInv

\* OUT is the level of an output and the direction of a pull.
LEMMA SetOutputInv ==
    ASSUME IInv, PortAOnly, NEW p \in UsedPins, NEW high \in BOOLEAN, SetOutput(p, high)
    PROVE  IInv'
<1>1. p \in Pin /\ Types
  BY PlacesA DEF IInv
<1>2. UNCHANGED <<dir, mem, function>>
  BY DEF SetOutput
<1>3. \A q \in Pin : Pmux(q)' = Pmux(q) /\ Pincfg(q)' = Pincfg(q)
  BY <1>2 DEF Pmux, Pincfg
<1>4. Types'
  <2>1. out' \in [Pin -> BOOLEAN]
    BY <1>1 DEF SetOutput, Types
  <2>2. mode' \in [Pin -> Modes]
    BY <1>1 DEF SetOutput, Types, Level, PullLevel, Modes
  <2> QED
    BY <1>1, <1>2, <2>1, <2>2, Zenon DEF Types
<1>5. FunctionAssigned'
  BY <1>1, <1>2, <1>3, FunctionsKept
<1>6. PadMode(p)' = mode'[p]
  <2>1. PadMode(p) = mode[p]
    BY <1>1 DEF IInv, ModeHeld
  <2>2. out'[p] <=> high
    BY <1>1 DEF SetOutput, Types
  <2>3. mode'[p] = IF mode[p] \in {"High", "Low"} THEN Level(high)
                   ELSE IF mode[p] \in {"PullUp", "PullDown"} THEN PullLevel(high)
                   ELSE mode[p]
    BY <1>1 DEF SetOutput, Types
  <2> QED
    BY <1>1, <1>2, <1>3, <2>1, <2>2, <2>3 DEF PadMode, Level, PullLevel
<1>7. ModeHeld'
  <2>1. ASSUME NEW q \in Pin, q # p
        PROVE  dir'[q] = dir[q] /\ out'[q] = out[q] /\ mode'[q] = mode[q]
    BY <1>1, <2>1 DEF SetOutput, Types
  <2> QED
    BY <1>1, <1>3, <1>6, <2>1, ModesKept
<1> QED
  BY <1>4, <1>5, <1>7 DEF IInv

LEMMA SetFunctionInv ==
    ASSUME IInv, PortAOnly, NEW p \in UsedPins, NEW f \in Functions \cup {Disabled},
           SetFunction(p, f)
    PROVE  IInv'
<1>1. p \in Pin /\ Types
  BY PlacesA DEF IInv
<1>2. /\ UNCHANGED <<dir, out, mode>>
      /\ function' = [function EXCEPT ![p] = f]
  BY DEF SetFunction
<1>3. /\ mem' \in [Port -> [Cell -> Byte]]
      /\ \A q \in Pin \ {p} : /\ Pincfg(q)' = Pincfg(q)
                              /\ Half(Pmux(q)', Odd(q)) = Half(Pmux(q), Odd(q))
      /\ PadFunction(p)' = f
      /\ Bit(Pincfg(p)', INEN) = Bit(Pincfg(p), INEN)
      /\ Bit(Pincfg(p)', PULLEN) = Bit(Pincfg(p), PULLEN)
  <2>1. CASE f = Disabled
    <3>1. mem' = EnableMux(mem, p, 0)
      BY <2>1 DEF SetFunction
    <3> QED
      BY <1>1, <2>1, <3>1, MuxWritten, PadsOf
  <2>2. CASE f # Disabled
    <3>1. mem' = EnableMux(SelectFunction(p, f), p, 1) /\ f \in Functions
      BY <2>2 DEF SetFunction
    <3> QED
      BY <1>1, <3>1, FunctionWritten, PadsOf
  <2> QED
    BY <2>1, <2>2
<1>4. Types'
  <2>1. function' \in [Pin -> Functions \cup {Disabled}]
    BY <1>1, <1>2 DEF Types
  <2> QED
    BY <1>1, <1>2, <1>3, <2>1, Zenon DEF Types
<1>5. FunctionAssigned'
  <2>1. ASSUME NEW q \in Pin PROVE PadFunction(q)' = function'[q]
    <3>1. CASE q = p
      BY <1>1, <1>2, <1>3, <3>1 DEF Types
    <3>2. CASE q # p
      BY <1>1, <1>2, <1>3, <3>2, PadsOf DEF Types, IInv, FunctionAssigned
    <3> QED
      BY <3>1, <3>2
  <2> QED
    BY <2>1 DEF FunctionAssigned
<1>6. PadMode(p)' = mode'[p]
  <2>1. PadMode(p) = mode[p]
    BY <1>1 DEF IInv, ModeHeld
  <2> QED
    BY <1>2, <1>3, <2>1 DEF PadMode
<1>7. ModeHeld'
  BY <1>1, <1>2, <1>3, <1>6, ModesKept
<1> QED
  BY <1>4, <1>5, <1>7 DEF IInv

LEMMA NextInv ==
    ASSUME PortAOnly
    PROVE  IInv /\ [Next]_vars => IInv'
<1> SUFFICES ASSUME IInv, [Next]_vars PROVE IInv'
  OBVIOUS
<1>1. CASE UNCHANGED vars
  BY <1>1 DEF IInv, Types, FunctionAssigned, PadFunction, ModeHeld, PadMode, Pincfg, vars
<1>2. ASSUME NEW p \in UsedPins, NEW m \in Modes, SetMode(p, m) PROVE IInv'
  BY <1>2, SetModeInv
<1>3. ASSUME NEW p \in UsedPins, ConfigureAsOutput(p) PROVE IInv'
  BY <1>3, ConfigureAsOutputInv
<1>4. ASSUME NEW p \in UsedPins, NEW high \in BOOLEAN, SetOutput(p, high) PROVE IInv'
  BY <1>4, SetOutputInv
<1>5. ASSUME NEW p \in UsedPins, NEW f \in Functions \cup {Disabled}, SetFunction(p, f)
      PROVE  IInv'
  BY <1>5, SetFunctionInv
<1> QED
  BY <1>1, <1>2, <1>3, <1>4, <1>5, Zenon DEF Next

LEMMA Invariance ==
    ASSUME PortAOnly
    PROVE  Spec => []IInv
BY InitInv, NextInv, PTL DEF Spec

-----------------------------------------------------------------------------

\* Every pin has the function it was given last, or none: no call for the pin
\* that shares its PMUX register, and no change of its mode, takes it away.
THEOREM FunctionsAreAssigned ==
    ASSUME PortAOnly
    PROVE  Spec => []FunctionAssigned
<1>1. IInv => FunctionAssigned
  BY DEF IInv
<1> QED
  BY <1>1, Invariance, PTL

\* Every pin is in the mode it was given last, whatever is called for others
\* and whatever function it is given.
THEOREM ModesAreHeld ==
    ASSUME PortAOnly
    PROVE  Spec => []ModeHeld
<1>1. IInv => ModeHeld
  BY DEF IInv
<1> QED
  BY <1>1, Invariance, PTL
=============================================================================
