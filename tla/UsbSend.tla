------------------------------- MODULE UsbSend -------------------------------
(***************************************************************************)
(* USBDeviceClass::send(), the blocking sender of a USB bulk IN endpoint   *)
(* (usb/DeviceClass.cpp).  The main program cuts the data into chunks of   *)
(* one packet and hands them to the peripheral through one buffer.  The    *)
(* host fetches a packet when it likes, or never: its serial port may be   *)
(* closed, and then send() gives up after a timeout.  The USB interrupt    *)
(* may take the configuration away, or set the endpoint up again, between  *)
(* any two steps of send().                                                *)
(*                                                                         *)
(* A chunk is its number.  The number 0 is a buffer nobody has filled.     *)
(***************************************************************************)
EXTENDS Naturals, FiniteSets

CONSTANTS
    MaxCall,     \* bound: chunks of one call of send()
    MaxChunks,   \* bound: chunks the program sends altogether
    Timeout      \* rounds of the wait loop, 70 ms in the code

ASSUME UsbSendAssumption ==
    MaxCall \in Nat \ {0} /\ MaxChunks \in Nat /\ Timeout \in Nat

VARIABLES
    bk1rdy,      \* EPSTATUS.BK1RDY: the packet in the buffer may be fetched
    trcpt1,      \* EPINTFLAG.TRCPT1: a packet was fetched
    hasBytes,    \* PCKSIZE.BYTE_COUNT # 0: the packet is not a ZLP
    buffer,      \* the chunk in udd_ep_in_cache_buffer[ep]
    enabled,     \* the endpoint has been set up since the last bus reset
    configured,  \* _usbConfiguration # 0
    timedOut,    \* LastTransmitTimedOut[ep]
    pc,          \* where send() is
    left,        \* chunks of this call still to be sent
    timeout,     \* rounds left in the wait loop
    queued,      \* chunks handed to the peripheral so far
    received,    \* chunks the host has got
    reports,     \* failed sends, and resets and set-ups that took a packet
                 \* back, capped
    spins        \* rounds waited since the last packet was handed over, capped

hwVars   == <<bk1rdy, trcpt1, hasBytes, buffer>>
ctrlVars == <<enabled, configured>>
mainVars == <<timedOut, pc, left, timeout>>
ghosts   == <<queued, received, reports, spins>>
vars     == <<hwVars, ctrlVars, mainVars, ghosts>>

TypeOK ==
    /\ bk1rdy \in BOOLEAN /\ trcpt1 \in BOOLEAN /\ hasBytes \in BOOLEAN
    /\ enabled \in BOOLEAN /\ configured \in BOOLEAN /\ timedOut \in BOOLEAN
    /\ buffer \in 0 .. MaxChunks /\ queued \in 0 .. MaxChunks
    /\ received \subseteq 1 .. MaxChunks
    /\ pc \in {"idle", "check", "wait", "giveUp", "fill", "arm"}
    /\ left \in 0 .. MaxCall /\ timeout \in 0 .. Timeout
    /\ reports \in 0 .. MaxChunks /\ spins \in 0 .. Timeout + 1

Init ==
    /\ bk1rdy = FALSE /\ trcpt1 = FALSE /\ hasBytes = FALSE /\ buffer = 0
    /\ enabled = FALSE /\ configured = FALSE
    /\ timedOut = FALSE /\ pc = "idle" /\ left = 0 /\ timeout = 0
    /\ queued = 0 /\ received = {} /\ reports = 0 /\ spins = 0

Report == reports' = IF reports < MaxChunks THEN reports + 1 ELSE reports

-----------------------------------------------------------------------------
(* The host and the USB interrupt.                                         *)

\* The host fetches the packet.
HostIn ==
    /\ enabled /\ bk1rdy
    /\ bk1rdy' = FALSE /\ trcpt1' = TRUE
    /\ received' = IF hasBytes THEN received \cup {buffer} ELSE received
    /\ UNCHANGED <<hasBytes, buffer, ctrlVars, mainVars, queued, reports, spins>>

\* A bus reset, by the peripheral: it clears the configuration of the endpoint
\* and its interrupt flags, and it may or may not take the packet back.
BusReset ==
    /\ enabled' = FALSE
    /\ trcpt1' = FALSE
    /\ bk1rdy' \in {FALSE, bk1rdy}
    /\ IF bk1rdy /\ ~bk1rdy' THEN Report ELSE UNCHANGED reports
    /\ UNCHANGED <<hasBytes, buffer, configured, mainVars, queued, received, spins>>

\* The interrupt of a bus reset has not been taken yet.
ResetPending == configured /\ ~enabled

\* The end of a bus reset in ISRHandler(): the configuration is gone.
EndOfReset ==
    /\ ResetPending
    /\ configured' = FALSE
    /\ UNCHANGED <<hwVars, enabled, mainVars, ghosts>>

\* SET_CONFIGURATION: initEP() takes the packet back.  A reset that is pending
\* is met by the same interrupt before the request.
SetConfiguration(value) ==
    /\ ~ResetPending
    /\ enabled' = TRUE /\ configured' = value
    /\ bk1rdy' = FALSE
    /\ IF bk1rdy THEN Report ELSE UNCHANGED reports
    /\ UNCHANGED <<trcpt1, hasBytes, buffer, mainVars, queued, received, spins>>

-----------------------------------------------------------------------------
(* send() of n chunks.                                                     *)

\* Without a configuration send() returns -1 and nothing changes.
SendCall(n) ==
    /\ pc = "idle" /\ configured
    /\ queued + n <= MaxChunks
    /\ left' = n
    /\ pc' = "check"
    /\ UNCHANGED <<hwVars, ctrlVars, timedOut, timeout, ghosts>>

\* Mutant: the buffer is filled without a look at the bank.
CheckReadyNever ==
    /\ pc = "check"
    /\ pc' = "fill" /\ timeout' = timeout
    /\ UNCHANGED <<hwVars, ctrlVars, timedOut, left, ghosts>>

\* Is the previous packet still there?
CheckReady ==
    /\ pc = "check"
    /\ IF bk1rdy THEN pc' = "wait" /\ timeout' = Timeout
                 ELSE pc' = "fill" /\ timeout' = timeout
    /\ UNCHANGED <<hwVars, ctrlVars, timedOut, left, ghosts>>

\* Mutant: each call waits anew.
GiveUpNow == timeout = 0

\* LastTransmitTimedOut[ep] || timeout-- == 0
MustGiveUp == timedOut \/ timeout = 0

\* Mutant: the loop does not count down.
CountDownNot == timeout' = timeout

CountDown == timeout' = timeout - 1

\* One round of the wait loop.
WaitRound ==
    /\ pc = "wait"
    /\ \/ /\ trcpt1
          /\ pc' = "fill"
          /\ UNCHANGED <<timedOut, timeout, spins>>
       \/ /\ ~trcpt1 /\ MustGiveUp
          /\ timedOut' = TRUE
          /\ pc' = "giveUp"
          /\ UNCHANGED <<timeout, spins>>
       \/ /\ ~trcpt1 /\ ~MustGiveUp
          /\ CountDown
          /\ spins' = IF spins <= Timeout THEN spins + 1 ELSE spins
          /\ UNCHANGED <<timedOut, pc>>
    /\ UNCHANGED <<hwVars, ctrlVars, left, queued, received, reports>>

\* Mutant: the packet that was not fetched stays in the bank.
MakeZlpNot == UNCHANGED hasBytes

\* "set byte count to zero, so that ZLP is sent instead of stale data"
MakeZlp == hasBytes' = FALSE

\* The timeout: send() returns -1.
GiveUp ==
    /\ pc = "giveUp"
    /\ MakeZlp
    /\ pc' = "idle" /\ left' = 0
    /\ Report
    /\ UNCHANGED <<bk1rdy, trcpt1, buffer, ctrlVars, timedOut, timeout, queued,
                   received, spins>>

\* Mutant: the flag of the packet before is left standing.
AckTransferCompleteNot == trcpt1' = trcpt1

AckTransferComplete == trcpt1' = FALSE

\* The next chunk goes into the buffer.
Fill ==
    /\ pc = "fill"
    /\ timedOut' = FALSE
    /\ queued' = queued + 1
    /\ buffer' = queued'
    /\ hasBytes' = TRUE
    /\ AckTransferComplete
    /\ pc' = "arm"
    /\ UNCHANGED <<bk1rdy, ctrlVars, left, timeout, received, reports, spins>>

\* epBank1SetReady(ep), and on with the next chunk or back to the caller.
Arm ==
    /\ pc = "arm"
    /\ bk1rdy' = TRUE
    /\ left' = left - 1
    /\ pc' = IF left = 1 THEN "idle" ELSE "check"
    /\ spins' = 0
    /\ UNCHANGED <<trcpt1, hasBytes, buffer, ctrlVars, timedOut, timeout, queued,
                   received, reports>>

Step == CheckReady \/ WaitRound \/ GiveUp \/ Fill \/ Arm

Next ==
    \/ HostIn \/ BusReset \/ EndOfReset
    \/ \E value \in BOOLEAN : SetConfiguration(value)
    \/ \E n \in 1 .. MaxCall : SendCall(n)
    \/ Step

\* The main program runs on.  The host need not fetch anything.
Spec == Init /\ [][Next]_vars /\ WF_vars(Step)

-----------------------------------------------------------------------------

\* A packet the host may fetch is not touched, although host and interrupt
\* change the state of the bank while send() is deciding on it.
PacketIntact == [][bk1rdy /\ bk1rdy' => buffer' = buffer]_vars

\* The packet in the port, which is about to be ready while send() is in pc = "arm".
Packet == IF bk1rdy \/ pc = "arm" THEN {IF hasBytes THEN buffer ELSE 0} ELSE {}
Port == INSTANCE SendPort WITH offered <- Packet

\* send() is a port for one packet at a time: chunks are offered in order, each
\* until the host fetches it or it is taken back with a report, and what was
\* taken back or fetched never comes again.
PortSpec == Port!Spec

\* Chunks handed over that the host neither has nor can fetch.
Pending(c) == c = buffer /\ hasBytes /\ (bk1rdy \/ pc = "arm")
Missing == {c \in 1 .. queued : c \notin received /\ ~Pending(c)}

\* No silent loss: each chunk that was handed over and never arrives is matched
\* by a send() of its own that fails, or by a bus reset or a new set-up of the
\* endpoint.
LossReported == Cardinality(Missing) <= reports

\* Lines 560-561: from a timeout to the next chunk the bank offers nothing but
\* an empty packet in place of the one that was not fetched.
StaleNotSent == timedOut /\ bk1rdy /\ pc # "giveUp" => ~hasBytes

\* A packet that the host does not fetch costs the program one timeout, not one
\* for each call: the flag of the endpoint makes later calls fail at once.
OneTimeout == spins <= Timeout

\* send() returns, with a host or without.
SendReturns == pc # "idle" ~> pc = "idle"
=============================================================================
