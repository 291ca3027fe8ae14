-------------------------------- MODULE Gpio --------------------------------
(***************************************************************************)
(* The pins of the chip (GPIO_SAMD21.cpp, GPIO_Pin_SAMD21.hpp).  Two pins  *)
(* share a PMUX register, one for each half of it, and the bits of a       *)
(* PINCFG register belong to different calls: a call must change what is   *)
(* its own and keep the rest.                                              *)
(*                                                                         *)
(* The registers of a port lie one behind the other in its memory, first   *)
(* PMUX, then PINCFG, so an index that is too large for the one meets the  *)
(* other.                                                                  *)
(***************************************************************************)
EXTENDS Naturals

CONSTANTS
    Width,       \* pins of a port, 32 in the chip
    Ports,       \* number of ports, 2 in the chip
    UsedPins,    \* pins the program uses
    Functions    \* peripheral functions, numbers below 16

ASSUME GpioAssumption ==
    /\ Width \in Nat \ {0} /\ Width % 2 = 0
    /\ Ports \in {1, 2}
    /\ UsedPins \subseteq 0 .. Width * Ports - 1
    /\ Functions \subseteq 0 .. 15

Pin == 0 .. Width * Ports - 1
Port == 0 .. Ports - 1
Disabled == 255

VARIABLES
    dir, out,   \* of each pin, the bits of DIR and OUT
    mem,        \* of each port, PMUX and PINCFG
    mode,       \* of each pin, what setMode() was asked for last
    function    \* of each pin, what setFunction() was asked for last

vars == <<dir, out, mem, mode, function>>

\* port and pinPortIndex
PortOf(pin) == pin \div Width
IndexOf(pin) == pin % Width

PmuxCell(k) == k
PincfgCell(i) == Width \div 2 + i
Cell == 0 .. Width \div 2 + Width - 1

Bit(byte, mask) == (byte \div mask) % 2
WithBit(byte, mask, v) == byte - Bit(byte, mask) * mask + v * mask
WithHalf(byte, high, v) ==
    IF high THEN (byte % 16) + 16 * v ELSE (byte \div 16) * 16 + v
Half(byte, high) == IF high THEN byte \div 16 ELSE byte % 16

\* The bits of PINCFG.
PMUXEN == 1
INEN   == 2
PULLEN == 4

Modes == {"Input", "PullUp", "PullDown", "HighImpedance", "High", "Low"}

\* After a reset of the chip.
Init ==
    /\ dir = [p \in Pin |-> FALSE] /\ out = [p \in Pin |-> FALSE]
    /\ mem = [g \in Port |-> [c \in Cell |-> 0]]
    /\ mode = [p \in Pin |-> "HighImpedance"]
    /\ function = [p \in Pin |-> Disabled]

-----------------------------------------------------------------------------

Pincfg(pin) == mem[PortOf(pin)][PincfgCell(IndexOf(pin))]

SetPincfg(pin, v) == mem' = [mem EXCEPT ![PortOf(pin)][PincfgCell(IndexOf(pin))] = v]

\* Mutant: an input without a pull keeps the pull it had.
SetInputKeepsPull(pin, in, pull) ==
    SetPincfg(pin, WithBit(IF pull = 0 THEN Pincfg(pin) ELSE WithBit(Pincfg(pin), PULLEN, pull),
                           INEN, in))

\* The input buffer and the pull of a pin.
SetInput(pin, in, pull) ==
    SetPincfg(pin, WithBit(WithBit(Pincfg(pin), PULLEN, pull), INEN, in))

\* setMode() and PinBase::configureAsInput(), configureAsHighImpendance().
SetMode(pin, m) ==
    /\ dir' = [dir EXCEPT ![pin] = m \in {"High", "Low"}]
    /\ out' = [out EXCEPT ![pin] = IF m = "Input" THEN @ ELSE m \in {"PullUp", "High"}]
    /\ CASE m = "Input" -> SetInput(pin, 1, 0)
         [] m \in {"PullUp", "PullDown"} -> SetInput(pin, 1, 1)
         [] OTHER -> SetInput(pin, 0, 0)
    /\ mode' = [mode EXCEPT ![pin] = m]
    /\ UNCHANGED function

Level(high) == IF high THEN "High" ELSE "Low"

\* PinBase::configureAsOutput(): the pin drives what OUT holds.
ConfigureAsOutput(pin) ==
    /\ dir' = [dir EXCEPT ![pin] = TRUE]
    /\ SetInput(pin, 0, 0)
    /\ mode' = [mode EXCEPT ![pin] = Level(out[pin])]
    /\ UNCHANGED <<out, function>>

PullLevel(high) == IF high THEN "PullUp" ELSE "PullDown"

\* PinBase::setOutputLow(), setOutputHigh(), toggleOutput(): the level of an
\* output, the direction of a pull, and nothing a pin without either shows.
SetOutput(pin, high) ==
    /\ out' = [out EXCEPT ![pin] = high]
    /\ mode' = [mode EXCEPT ![pin] =
          IF @ \in {"High", "Low"} THEN Level(high)
          ELSE IF @ \in {"PullUp", "PullDown"} THEN PullLevel(high) ELSE @]
    /\ UNCHANGED <<dir, mem, function>>

\* Mutant: the old function is not masked out.
SelectFunctionOr(pin, f) ==
    LET odd == IndexOf(pin) % 2 = 1
        old == mem[PortOf(pin)][PmuxCell(pin \div 2)]
    IN  [mem EXCEPT ![PortOf(pin)][PmuxCell(pin \div 2)] =
            IF Half(old, odd) % 2 = 1 THEN old ELSE WithHalf(old, odd, f)]

\* The half of PMUX[pin >> 1] that the pin has.
SelectFunction(pin, f) ==
    LET odd == IndexOf(pin) % 2 = 1
        old == mem[PortOf(pin)][PmuxCell(pin \div 2)]
    IN  [mem EXCEPT ![PortOf(pin)][PmuxCell(pin \div 2)] = WithHalf(old, odd, f)]

EnableMux(m, pin, v) ==
    [m EXCEPT ![PortOf(pin)][PincfgCell(IndexOf(pin))] = WithBit(@, PMUXEN, v)]

SetFunction(pin, f) ==
    /\ mem' = IF f = Disabled THEN EnableMux(mem, pin, 0)
                              ELSE EnableMux(SelectFunction(pin, f), pin, 1)
    /\ function' = [function EXCEPT ![pin] = f]
    /\ UNCHANGED <<dir, out, mode>>

Next ==
    \E pin \in UsedPins :
        \/ \E m \in Modes : SetMode(pin, m)
        \/ ConfigureAsOutput(pin)
        \/ \E high \in BOOLEAN : SetOutput(pin, high)
        \/ \E f \in Functions \cup {Disabled} : SetFunction(pin, f)

Spec == Init /\ [][Next]_vars

-----------------------------------------------------------------------------
(* What the chip makes of the registers.                                   *)

PadFunction(pin) ==
    IF Bit(Pincfg(pin), PMUXEN) = 0 THEN Disabled
    ELSE Half(mem[PortOf(pin)][PmuxCell(IndexOf(pin) \div 2)], IndexOf(pin) % 2 = 1)

PadMode(pin) ==
    IF dir[pin] THEN Level(out[pin])
    ELSE IF Bit(Pincfg(pin), PULLEN) = 1 THEN PullLevel(out[pin])
    ELSE IF Bit(Pincfg(pin), INEN) = 1 THEN "Input" ELSE "HighImpedance"

\* "@param function The function to assign to the pin", GPIO_SAMD21.hpp line
\* 62: each pin has the function it was given last, whatever calls for other
\* pins came after it, and one that was given none has none.
FunctionAssigned == \A pin \in Pin : PadFunction(pin) = function[pin]

\* Each pin is in the mode it was given last, and no call for another pin and
\* no change of the function disturbs it.
ModeHeld == \A pin \in Pin : PadMode(pin) = mode[pin]
=============================================================================
