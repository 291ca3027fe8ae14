----------------------------- MODULE WireMaster -----------------------------
(***************************************************************************)
(* WireMaster_SAMD21, the I2C master (WireMaster_SAMD21.cpp): blocking     *)
(* calls of the main program on a SERCOM, one slave that answers when it   *)
(* likes, or never, and another master that may take an idle bus.          *)
(*                                                                         *)
(* A call is a script of steps.  A step starts something on the bus and    *)
(* then waits for a flag, for the bus or for a synchronisation, and each   *)
(* wait can time out.  The first step that fails ends the call.            *)
(*                                                                         *)
(* The i-th byte of a write is the number i, and so is the i-th byte the   *)
(* slave sends.  Not modelled: a bus error, and two masters that start at  *)
(* the same time.                                                          *)
(***************************************************************************)
EXTENDS Integers, Sequences

CONSTANTS
    MaxCount,    \* bound: bytes of one transfer
    Speeds,      \* the speeds the program sets, by their place in enum Speed
    RiseTime     \* the rise time of the bus in ns

ASSUME WireAssumption ==
    /\ MaxCount \in Nat \ {0}
    /\ Speeds \subseteq 1 .. 4 /\ 1 \in Speeds
    /\ RiseTime \in 0 .. 5000

VARIABLES
    enabled,   \* CTRLA.ENABLE
    baud,      \* the field BAUD of the register BAUD
    busState,  \* STATUS.BUSSTATE
    mb, sb,    \* INTFLAG.MB and INTFLAG.SB
    rxnack,    \* STATUS.RXNACK
    doing,     \* what the SERCOM has been told to do and has not done
    slave,     \* the slave: not addressed, or addressed for "write" or "read"
    got,       \* bytes the slave has acknowledged since its address
    sent       \* bytes the slave has sent since its address

hwVars == <<enabled, baud, busState, mb, sb, rxnack, doing, slave, got, sent>>

VARIABLES
    frequencyHz,   \* _frequencyHz, as one of Speeds
    call,          \* the call that runs, or ran last
    script,        \* its steps that are left
    waiting,       \* the first of them has been started
    status,        \* "running", or what the call returned
    data,          \* bytes read
    stopped,       \* a stop condition was commanded since the last address
    unsure         \* no reset() since a setSpeed() or reset() failed

mainVars == <<frequencyHz, call, script, waiting, status, data, stopped, unsure>>
vars == <<hwVars, mainVars>>

-----------------------------------------------------------------------------
(* The speed.                                                              *)

\* Standard, Fast, FastPlus and HighSpeed.
KiloHertz == <<100, 400, 1000, 3400>>

\* halfClock * riseTime / 10^9 in 32 bits, with 2^6 taken out of the product
\* and of the divisor.
RiseTerm == ((375000 * RiseTime) % 2^26) \div 15625000

\* Mutant: the constant of the formula is forgotten.
BaudNoConstant(speed) == ((24000 \div KiloHertz[speed]) - RiseTerm) % 256

\* setBaudRegister(), in a field of eight bits.
Baud(speed) == ((24000 \div KiloHertz[speed]) - 5 - RiseTerm) % 256

-----------------------------------------------------------------------------
(* Calls and their scripts.                                                *)

Step(do, v) == [do |-> do, v |-> v]
Bytes(n)  == [i \in 1 .. n |-> Step("byte", i)]
Reading(n) ==
    <<Step("addressRead", 0)>> \o
    IF n = 0 THEN <<Step("busIdle", 0)>>
             ELSE [i \in 1 .. n |-> Step(IF i = n THEN "lastByte" ELSE "nextByte", i)]

Call(op, n) == [op |-> op, n |-> n]

Script(c) ==
    CASE c.op = "writeBegin" -> <<Step("address", 0)>>
      [] c.op = "writeByte" -> Bytes(1)
      [] c.op = "writeEndAndStop" -> <<Step("stop", 0)>>
      [] c.op = "writeEndAndStart" -> <<Step("restart", 0)>>
      [] c.op = "writeBytes" -> <<Step("address", 0)>> \o Bytes(c.n) \o <<Step("stop", 0)>>
      [] c.op = "readBytes" -> Reading(c.n)
      [] c.op = "readRegisterData" -> <<Step("address", 0)>> \o Bytes(1) \o Reading(c.n)
      [] c.op = "setSpeed" -> IF c.n = frequencyHz THEN <<>>
                              ELSE <<Step("waitIdle", 0), Step("disable", 0),
                                     Step("setBaud", c.n), Step("forceIdle", c.n)>>
      [] c.op = "reset" -> <<Step("softReset", 0)>>
      [] c.op = "initialize" -> <<Step("clock", 0), Step("softReset", 0)>>

\* writeRegisterData() is writeBytes() with the register as the first byte.
Transfers == {Call(op, n) : op \in {"writeBytes", "readBytes", "readRegisterData"},
                            n \in 0 .. MaxCount}
Parts == {Call(op, 1) : op \in {"writeByte", "writeEndAndStop", "writeEndAndStart"}}
Setups == {Call("setSpeed", f) : f \in Speeds}
          \cup {Call("reset", 0), Call("initialize", 0)}
Calls == Transfers \cup Parts \cup Setups \cup {Call("writeBegin", 0)}

Nothing == Step("nothing", 0)

\* The object, before initialize() has called reset().
Init ==
    /\ enabled = FALSE /\ baud = 0 /\ busState = "unknown"
    /\ mb = FALSE /\ sb = FALSE /\ rxnack = FALSE /\ doing = Nothing
    /\ slave = "off" /\ got = <<>> /\ sent = 0
    /\ frequencyHz = 1
    /\ call = Call("none", 0) /\ script = <<>> /\ waiting = FALSE
    /\ status = "Error" /\ data = <<>> /\ stopped = TRUE /\ unsure = TRUE

-----------------------------------------------------------------------------
(* The bus.                                                                *)

OtherMaster ==
    /\ enabled
    /\ \/ busState = "idle" /\ doing = Nothing /\ busState' = "busy"
       \/ busState = "busy" /\ busState' = "idle"
    /\ UNCHANGED <<enabled, baud, mb, sb, rxnack, doing, slave, got, sent, mainVars>>

\* The slave answers its address or a byte, yes or no.
HwWrite(nack) ==
    /\ doing.do \in {"address", "byte"}
    /\ doing' = Nothing
    /\ mb' = TRUE /\ rxnack' = nack
    /\ slave' = IF nack THEN "off" ELSE "write"
    /\ got' = IF doing.do = "address" THEN <<>>
              ELSE IF nack THEN got ELSE Append(got, doing.v)
    /\ UNCHANGED <<enabled, baud, busState, sb, sent, mainVars>>

\* The slave is addressed for a read and sends its first byte, or refuses.
HwReadAddress(nack) ==
    /\ doing.do = "addressRead"
    /\ doing' = Nothing
    /\ mb' = nack /\ sb' = ~nack /\ rxnack' = nack
    /\ slave' = IF nack THEN "off" ELSE "read"
    /\ sent' = IF nack THEN 0 ELSE 1
    /\ UNCHANGED <<enabled, baud, busState, got, mainVars>>

HwReadByte ==
    /\ doing.do = "nextByte"
    /\ doing' = Nothing
    /\ sb' = TRUE
    /\ sent' = sent + 1
    /\ UNCHANGED <<enabled, baud, busState, mb, rxnack, slave, got, mainVars>>

HwStop ==
    /\ doing.do = "stop"
    /\ doing' = Nothing
    /\ busState' = "idle"
    /\ slave' = "off"
    /\ UNCHANGED <<enabled, baud, mb, sb, rxnack, got, sent, mainVars>>

-----------------------------------------------------------------------------
(* The main program.                                                       *)

\* writeBytes() and readBytes() refuse to transfer nothing; readRegisterData()
\* does not, and waits behind the address for a stop it has not sent.
Refused(c) == c.op \in {"writeBytes", "readBytes"} /\ c.n = 0

\* A new call.  Parts of a write are called behind a part that succeeded.
Invoke(c) ==
    /\ status # "running"
    /\ c \in Parts => status = "Success" /\ call.op \in {"writeBegin", "writeByte"}
    /\ c.op = "writeByte" => Len(got) < MaxCount
    /\ call' = c
    /\ script' = IF Refused(c) THEN <<>> ELSE Script(c)
    /\ status' = IF Refused(c) THEN "Error"
                 ELSE IF script' = <<>> THEN "Success" ELSE "running"
    /\ data' = <<>>
    /\ UNCHANGED <<hwVars, frequencyHz, waiting, stopped, unsure>>

At(do) == script # <<>> /\ Head(script).do = do
Return(s) == status' = s /\ script' = <<>> /\ waiting' = FALSE
NextStep ==
    IF Len(script) = 1 THEN Return("Success")
                       ELSE script' = Tail(script) /\ waiting' = FALSE /\ status' = status

\* What a step tells the SERCOM to do; it clears the flags.
Do(step) ==
    /\ doing' = step
    /\ mb' = FALSE /\ sb' = FALSE
    /\ waiting' = TRUE
    /\ UNCHANGED <<enabled, baud, rxnack, slave, got, sent, status, data,
                   frequencyHz, call, unsure>>

IsBusReady == busState \in {"idle", "owner"}

\* writeBegin() or the read address: a start, or a repeated start.
SendAddress ==
    /\ ~waiting /\ (At("address") \/ At("addressRead"))
    /\ IsBusReady
    /\ Do(Head(script))
    /\ busState' = "owner"
    /\ stopped' = FALSE
    /\ UNCHANGED script

SendByte ==
    /\ ~waiting /\ At("byte")
    /\ Do(Head(script))
    /\ UNCHANGED <<busState, stopped, script>>

\* Mutant: nobody looks at RXNACK.
AcknowledgedAlways ==
    /\ waiting /\ (At("address") \/ At("byte"))
    /\ mb
    /\ NextStep
    /\ UNCHANGED <<hwVars, data, frequencyHz, call, stopped, unsure>>

\* Mutant: a write that is not acknowledged just returns.
AcknowledgedNoStop ==
    /\ waiting /\ (At("address") \/ At("byte"))
    /\ mb
    /\ IF rxnack THEN Return("NoAcknowledge") ELSE NextStep
    /\ UNCHANGED <<hwVars, data, frequencyHz, call, stopped, unsure>>

\* Without an acknowledge a write is stopped.  The result waits as a step of
\* its own: 0 for the address, else a byte.
Acknowledged ==
    /\ waiting /\ (At("address") \/ At("byte"))
    /\ mb
    /\ IF rxnack
       THEN /\ Do(Step("stop", 0))
            /\ stopped' = TRUE
            /\ script' = <<Step("nack", Head(script).v)>>
            /\ UNCHANGED busState
       ELSE NextStep /\ UNCHANGED <<hwVars, data, frequencyHz, call, stopped, unsure>>

\* waitForBusIdle() behind that stop; a timeout is ignored.
ReturnNack ==
    /\ waiting /\ At("nack")
    /\ Return(IF Head(script).v = 0 THEN "AddressNotFound" ELSE "NoAcknowledge")
    /\ UNCHANGED <<hwVars, data, frequencyHz, call, stopped, unsure>>

SendStop ==
    /\ ~waiting /\ At("stop")
    /\ Do(Step("stop", 0))
    /\ stopped' = TRUE
    /\ UNCHANGED <<busState, script>>

Idle ==
    /\ (waiting /\ At("stop")) \/ At("busIdle") \/ At("waitIdle")
    /\ busState = "idle"
    /\ NextStep
    /\ UNCHANGED <<hwVars, data, frequencyHz, call, stopped, unsure>>

\* A repeated start: the slave is addressed anew.
Restart ==
    /\ At("restart")
    /\ NextStep
    /\ slave' = "off"
    /\ UNCHANGED <<enabled, baud, busState, mb, sb, rxnack, doing, got, sent, data,
                   frequencyHz, call, stopped, unsure>>

\* waitForSlaveOnBus() behind the address.
SlaveOnBus ==
    /\ waiting /\ At("addressRead")
    /\ \/ sb /\ NextStep
       \/ ~sb /\ mb /\ Return("NoAcknowledge")
    /\ UNCHANGED <<hwVars, data, frequencyHz, call, stopped, unsure>>

\* Mutant: the first byte is asked for once more.
AskByteAlways ==
    /\ ~waiting /\ (At("nextByte") \/ At("lastByte"))
    /\ Do([Head(script) EXCEPT !.do = "nextByte"])
    /\ UNCHANGED <<busState, stopped, script>>

\* Command::ByteRead.  The first byte has come with the address.
AskByte ==
    /\ ~waiting /\ (At("nextByte") \/ At("lastByte"))
    /\ Head(script).v # 1
    /\ Do([Head(script) EXCEPT !.do = "nextByte"])
    /\ UNCHANGED <<busState, stopped, script>>

\* The byte is taken, and the last one is answered with NACK and stop.
TakeByte ==
    /\ At("nextByte") \/ At("lastByte")
    /\ waiting \/ Head(script).v = 1
    /\ sb
    /\ data' = Append(data, sent)
    /\ IF At("lastByte")
       THEN /\ doing' = Step("stop", 0)
            /\ stopped' = TRUE
            /\ script' = <<Step("stop", 0)>> /\ waiting' = TRUE /\ status' = status
       ELSE NextStep /\ UNCHANGED <<doing, stopped>>
    /\ sb' = FALSE
    /\ UNCHANGED <<enabled, baud, busState, mb, rxnack, slave, got, sent, frequencyHz,
                   call, unsure>>

\* The SERCOM stops what it does.
Halt ==
    /\ busState' = "unknown"
    /\ mb' = FALSE /\ sb' = FALSE /\ doing' = Nothing
    /\ slave' = "off"

\* setSpeed() switches the SERCOM off, ...
Disable ==
    /\ At("disable")
    /\ enabled' = FALSE
    /\ Halt
    /\ \/ NextStep /\ unsure' = unsure
       \/ Return("Error") /\ unsure' = TRUE
    /\ UNCHANGED <<baud, rxnack, got, sent, data, frequencyHz, call, stopped>>

\* ... sets the register and switches it on, ...
SetBaud ==
    /\ At("setBaud")
    /\ baud' = Baud(Head(script).v)
    /\ enabled' = TRUE
    /\ \/ NextStep /\ unsure' = unsure
       \/ Return("Error") /\ unsure' = TRUE
    /\ UNCHANGED <<busState, mb, sb, rxnack, doing, slave, got, sent, data, frequencyHz,
                   call, stopped>>

\* Mutant: the frequency is not noted.
ForceIdleForgets ==
    /\ At("forceIdle")
    /\ busState' = "idle"
    /\ \/ NextStep /\ unsure' = unsure
       \/ Return("Error") /\ unsure' = TRUE
    /\ UNCHANGED <<enabled, baud, mb, sb, rxnack, doing, slave, got, sent, data, call,
                   frequencyHz, stopped>>

\* ... and notes the frequency.
ForceIdle ==
    /\ At("forceIdle")
    /\ frequencyHz' = Head(script).v
    /\ busState' = "idle"
    /\ \/ NextStep /\ unsure' = unsure
       \/ Return("Error") /\ unsure' = TRUE
    /\ UNCHANGED <<enabled, baud, mb, sb, rxnack, doing, slave, got, sent, data, call,
                   stopped>>

\* initialize() gives the SERCOM its clock, behind a wait of its own.  The pins
\* it assigns after reset() change nothing here.
SetClock ==
    /\ At("clock")
    /\ NextStep
    /\ UNCHANGED <<hwVars, data, frequencyHz, call, stopped, unsure>>

\* reset(), done or broken off at one of its waits.
SoftReset ==
    /\ At("softReset")
    /\ mb' = FALSE /\ sb' = FALSE /\ doing' = Nothing
    /\ slave' = "off"
    /\ \/ /\ baud' = Baud(frequencyHz) /\ enabled' = TRUE /\ busState' = "idle"
          /\ unsure' = FALSE
          /\ Return("Success")
       \/ /\ \/ baud' = 0 /\ enabled' = FALSE
             \/ baud' = Baud(frequencyHz) /\ enabled' \in BOOLEAN
          /\ busState' = "unknown"
          /\ unsure' = TRUE
          /\ Return("Error")
    /\ UNCHANGED <<rxnack, got, sent, data, frequencyHz, call, stopped>>

\* Mutant: waitForBusIdle() has no timeout.
TimeoutNotIdle ==
    /\ script # <<>> /\ ~At("nack") /\ ~At("stop")
    /\ ~(At("disable") \/ At("setBaud") \/ At("forceIdle") \/ At("softReset"))
    /\ Return(IF At("waitIdle") THEN "Error" ELSE "Timeout")
    /\ UNCHANGED <<hwVars, data, frequencyHz, call, stopped, unsure>>

\* A wait that takes too long ends the call.  Every step has one.
Timeout ==
    /\ script # <<>> /\ ~At("nack")
    /\ ~(At("disable") \/ At("setBaud") \/ At("forceIdle") \/ At("softReset"))
    /\ Return(IF At("waitIdle") THEN "Error" ELSE "Timeout")
    /\ UNCHANGED <<hwVars, data, frequencyHz, call, stopped, unsure>>

Main ==
    \/ SendAddress \/ SendByte \/ Acknowledged \/ ReturnNack \/ SendStop \/ Idle
    \/ Restart \/ SlaveOnBus \/ AskByte \/ TakeByte
    \/ Disable \/ SetBaud \/ ForceIdle \/ SetClock \/ SoftReset
    \/ Timeout

Bus ==
    \/ OtherMaster \/ HwReadByte \/ HwStop
    \/ \E nack \in BOOLEAN : HwWrite(nack) \/ HwReadAddress(nack)

Next == Bus \/ Main \/ \E c \in Calls : Invoke(c)

\* The main program runs on: a wait ends with its flag or with its timeout.
\* The slave and the other master need not do anything.
Spec == Init /\ [][Next]_vars /\ WF_vars(Main)

-----------------------------------------------------------------------------
(* Properties.                                                             *)

TypeOK ==
    /\ enabled \in BOOLEAN /\ baud \in 0 .. 255
    /\ busState \in {"unknown", "idle", "owner", "busy"}
    /\ {mb, sb, rxnack, waiting, stopped, unsure} \subseteq BOOLEAN
    /\ slave \in {"off", "write", "read"}
    /\ sent \in 0 .. MaxCount + 1 /\ Len(data) <= MaxCount
    /\ frequencyHz \in Speeds
    /\ status \in {"running", "Success", "Error", "Timeout", "NoAcknowledge",
                   "AddressNotFound"}

OneTo(n) == [i \in 1 .. n |-> i]

\* A write that reports success has put every byte into the slave, in order and
\* once, whatever calls timed out before it.
WriteDelivered ==
    status = "Success" /\ call.op = "writeBytes" => got = OneTo(call.n)

\* A read that reports success returns what the slave has sent, and the slave
\* was told after the last byte that it may not go on.
ReadComplete ==
    status = "Success" /\ call.op \in {"readBytes", "readRegisterData"} =>
        data = OneTo(call.n) /\ sent = call.n /\ stopped

\* A write that is not acknowledged gives the bus back.
WriteReleases ==
    /\ status \in {"AddressNotFound", "NoAcknowledge"}
    /\ call.op \in {"writeBegin", "writeByte", "writeBytes"}
    => stopped

\* The register and the frequency the object remembers differ only behind a
\* call that failed: else setSpeed() is right to ignore a frequency it has.
SpeedKnown == ~unsure /\ status # "running" => enabled /\ baud = Baud(frequencyHz)

\* "f_SCL = f_GCLK / (10 + 2*BAUD + f_GCLK * T_RISE)", line 355: with what is in
\* the register the bus is not faster than the program has asked for, and at
\* least nine tenths as fast.
RateAsAsked ==
    ~unsure /\ status # "running" =>
        LET cycles == KiloHertz[frequencyHz] * (1000 * (10 + 2 * baud) + 48 * RiseTime)
        IN  48000000 <= cycles /\ 9 * cycles <= 480000000

\* Each call returns, with a slave that never answers, and with a bus that
\* another master never leaves.
CallReturns == status = "running" ~> status # "running"

\* "Check if an acknowledge was received.  No... send a stop", lines 599 to 603:
\* a read that the slave does not acknowledge stops the transfer.
NackedReadStops == status = "NoAcknowledge" /\ call.op = "readBytes" => stopped
=============================================================================
