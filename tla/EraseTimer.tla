----------------------------- MODULE EraseTimer -----------------------------
(***************************************************************************)
(* The "1200 bps touch" that erases the application: the CDC class         *)
(* requests of the host (usb/CDC.cpp) start and cancel a countdown         *)
(* (Reset_SAMD21.cpp) that the SysTick interrupt advances                  *)
(* (Timer_SAMD21.cpp).                                                     *)
(*                                                                         *)
(* The USB interrupt has priority 0, the highest, so it can interrupt      *)
(* SysTick_Handler.  Disabling the interrupts in eraseDelayed() and        *)
(* cancelErase() does not protect the counter then: eraseTick() reads it,  *)
(* writes it back and erases in three steps.  A request that falls between *)
(* two of them is lost.                                                    *)
(***************************************************************************)
EXTENDS Naturals

CONSTANTS
    WordMax,     \* largest value of the counter, 2^32 - 1 in the code
    EraseDelay,  \* ticks from the touch to the erase, 250 in the code
    Uptime       \* bound: ticks until the board is switched off

ASSUME EraseTimerAssumption ==
    /\ WordMax \in Nat /\ Uptime \in Nat
    /\ EraseDelay \in 1 .. WordMax

VARIABLES
    gEraseDelay,   \* the countdown, volatile uint32_t
    loaded,        \* what eraseTick() has read and not yet written back
    tickPc,        \* "idle", or inside eraseTick(): "store" before it writes
                   \* the counter back, "erase" from there to __disable_irq()
    gTickCounter,  \* ticks since power on
    rate1200,      \* _lineInfo.dwDTERate = 1200
    dtr,           \* bit 0 of _lineInfo.lineState: the host has the port open
    erased,        \* erase() was called, which never returns
    scheduled,     \* the last request called eraseDelayed()
    touches,       \* ages in ticks of the calls of eraseDelayed()
    torn           \* the last request came inside eraseTick()

timerVars == <<gEraseDelay, loaded, tickPc, gTickCounter, erased>>
lineVars  == <<rate1200, dtr>>
ghosts    == <<scheduled, touches, torn>>
vars      == <<timerVars, lineVars, ghosts>>

TypeOK ==
    /\ gEraseDelay \in 0 .. WordMax /\ loaded \in 0 .. WordMax
    /\ tickPc \in {"idle", "store", "erase"} /\ gTickCounter \in 0 .. Uptime
    /\ rate1200 \in BOOLEAN /\ dtr \in BOOLEAN /\ erased \in BOOLEAN
    /\ scheduled \in BOOLEAN /\ torn \in BOOLEAN
    /\ touches \subseteq 0 .. EraseDelay

\* "-1 = disabled", converted to the unsigned type of the counter.
Disabled == WordMax

Init ==
    /\ gEraseDelay = Disabled /\ loaded = 0 /\ tickPc = "idle"
    /\ gTickCounter = 0
    /\ rate1200 = FALSE /\ dtr = FALSE /\ erased = FALSE
    /\ scheduled = FALSE /\ touches = {} /\ torn = FALSE

-----------------------------------------------------------------------------
(* The USB interrupt.                                                      *)

\* Mutant: opening the port again does not stop the countdown.
LineChangedNoCancel(rate, open) ==
    IF rate /\ ~open
    THEN gEraseDelay' = EraseDelay /\ scheduled' = TRUE
    ELSE UNCHANGED gEraseDelay /\ scheduled' = FALSE

\* Mutant: an open port is no reason against the erase.
LineChangedIgnoresDtr(rate, open) ==
    IF rate \/ open
    THEN gEraseDelay' = EraseDelay /\ scheduled' = (rate /\ ~open)
    ELSE gEraseDelay' = Disabled /\ scheduled' = FALSE

\* Mutant: the test of DTR has the wrong polarity.
LineChangedWrongPolarity(rate, open) ==
    /\ gEraseDelay' = IF rate /\ open THEN EraseDelay ELSE Disabled
    /\ scheduled' = (rate /\ ~open)

\* What both requests end with: eraseDelayed() or cancelErase().
LineChanged(rate, open) ==
    IF rate /\ ~open
    THEN gEraseDelay' = EraseDelay /\ scheduled' = TRUE
    ELSE gEraseDelay' = Disabled /\ scheduled' = FALSE

\* CDC_Setup(): SET_LINE_CODING or SET_CONTROL_LINE_STATE.
CdcSetup(rate, open) ==
    /\ ~erased
    /\ rate = rate1200 \/ open = dtr
    /\ rate1200' = rate /\ dtr' = open
    /\ LineChanged(rate, open)
    /\ touches' = IF rate /\ ~open THEN touches \cup {0} ELSE touches
    /\ torn' = (tickPc # "idle")
    /\ UNCHANGED <<loaded, tickPc, gTickCounter, erased>>

-----------------------------------------------------------------------------
(* The SysTick interrupt.                                                  *)

\* ++gTickCounter, and eraseTick() reads the counter.
TickLoad ==
    /\ ~erased /\ tickPc = "idle"
    /\ gTickCounter < Uptime
    /\ gTickCounter' = gTickCounter + 1
    /\ ~(gEraseDelay < 0)           \* the early return, never taken: unsigned
    /\ loaded' = gEraseDelay
    /\ tickPc' = "store"
    /\ UNCHANGED <<gEraseDelay, erased, lineVars, ghosts>>

Decrement(n) == IF n = 0 THEN WordMax ELSE n - 1

Expired(n) == n = 0

\* eraseTick() writes the counter back and calls erase() when it has reached
\* zero.
TickStore ==
    /\ ~erased /\ tickPc = "store"
    /\ gEraseDelay' = Decrement(loaded)
    /\ tickPc' = IF Expired(gEraseDelay') THEN "erase" ELSE "idle"
    /\ loaded' = 0
    /\ touches' = {age + 1 : age \in touches \ {EraseDelay}}
    /\ UNCHANGED <<gTickCounter, erased, lineVars, scheduled, torn>>

\* erase() turns the interrupts off.  The standard has the test read the volatile
\* counter once more and GCC takes the value it has stored, so a request that
\* came after the store stops the erase in the one build and not in the other.
TickErase ==
    /\ ~erased /\ tickPc = "erase"
    /\ erased' = TRUE \/ (~Expired(gEraseDelay) /\ erased' = FALSE)
    /\ tickPc' = "idle"
    /\ UNCHANGED <<gEraseDelay, loaded, gTickCounter, lineVars, ghosts>>

Tick == TickLoad \/ TickStore \/ TickErase

Next == Tick \/ \E rate, open \in BOOLEAN : CdcSetup(rate, open)

\* The timer interrupt is taken.
Spec == Init /\ [][Next]_vars /\ WF_vars(Tick)

-----------------------------------------------------------------------------

\* "-1 = disabled": the application is erased only if somebody asked for it.
DisabledNeverErases == erased => touches # {}

\* Even a torn update erases nothing out of the blue: the erase comes exactly
\* EraseDelay ticks after some touch.
EraseFollowsTouch == erased => EraseDelay \in touches

\* The last request decides: with the port open again, or the rate changed,
\* nothing is erased, whatever was torn before.  The exception is a last request
\* that comes inside eraseTick(), before the counter is written back or between
\* that and the __disable_irq() of erase(): it is too late, or overwritten.
CancelHolds == erased /\ ~torn => scheduled /\ rate1200 /\ ~dtr

\* A touch that does not fall inside eraseTick() leads to the erase, unless the
\* host takes it back, touches again or asks again inside eraseTick(), or the
\* board is switched off before.
TouchErases ==
    (scheduled /\ ~torn /\ 0 \notin touches /\ gTickCounter + EraseDelay < Uptime)
        ~> (erased \/ ~scheduled \/ torn \/ 0 \in touches)
=============================================================================
