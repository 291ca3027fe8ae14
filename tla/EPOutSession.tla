---------------------------- MODULE EPOutSession ----------------------------
(***************************************************************************)
(* The life of the bulk OUT receiver in the device (usb/DeviceClass.cpp):  *)
(* a bus reset turns the endpoint off, the interrupt it causes takes the   *)
(* configuration away, and every SET_CONFIGURATION of the host deletes the *)
(* handler and makes a new one, inside the USB interrupt, whatever the     *)
(* main program is doing with the old one.                                 *)
(*                                                                         *)
(* A new configuration starts a new stream: the ghost variables sent, got  *)
(* and lastByte begin again, and the cells of the banks hold no byte of    *)
(* the new stream.  malloc() gives the new handler the memory of the old   *)
(* one, which was freed just before in blocks of the same sizes, so a      *)
(* recv() that was interrupted goes on in the new handler.                 *)
(***************************************************************************)
EXTENDS DoubleBufferedEPOut

CONSTANT MidCall   \* SET_CONFIGURATION may interrupt recv() and available()

ASSUME MidCallAssumption == MidCall \in BOOLEAN

VARIABLES
    configured,    \* _usbConfiguration # 0
    enabled        \* the endpoint has been set up since the last bus reset

sessionVars == <<configured, enabled>>

SessionInit ==
    /\ Init
    /\ configured = FALSE /\ enabled = FALSE

\* A bus reset, by the peripheral: it clears the endpoint's configuration and
\* its interrupt flags, a completion that nobody has seen yet included.  The
\* data sheet does not list the status of the banks among what it clears.
BusReset ==
    /\ enabled' = FALSE
    /\ trcpt0' = FALSE
    /\ UNCHANGED <<bk0rdy, byteCount, address, sent, bankVars, mainVars, configured>>

\* The interrupt of a bus reset has not been taken yet.
ResetPending == configured /\ ~enabled

\* The end of a bus reset in ISRHandler(): the configuration is gone, the
\* handler and what it holds stay.
EndOfReset ==
    /\ ResetPending
    /\ configured' = FALSE
    /\ UNCHANGED <<vars, enabled>>

\* Mutant: the new handler goes on in the bank where the old one stopped.
NewHandlerKeepsCurrent ==
    /\ Release
    /\ address' = 0 /\ incoming' = 0 /\ notify' = FALSE
    /\ current' = current
    /\ first' = [b \in Bank |-> 0] /\ last' = [b \in Bank |-> 0]
    /\ ready' = [b \in Bank |-> FALSE]

\* Mutant: the flags of the banks survive.
NewHandlerKeepsReady ==
    /\ Release
    /\ address' = 0 /\ incoming' = 0 /\ notify' = FALSE /\ current' = 0
    /\ first' = [b \in Bank |-> 0] /\ last' = [b \in Bank |-> 0]
    /\ ready' = ready

\* Mutant: the constructor does not release the endpoint.
NewHandlerNotReleased ==
    /\ UNCHANGED <<byteCount, bk0rdy>>
    /\ address' = 0 /\ incoming' = 0 /\ notify' = FALSE /\ current' = 0
    /\ first' = [b \in Bank |-> 0] /\ last' = [b \in Bank |-> 0]
    /\ ready' = [b \in Bank |-> FALSE]

\* delete and new in initEP(): the members the constructor sets.
NewHandler ==
    /\ Release
    /\ address' = 0 /\ incoming' = 0 /\ notify' = FALSE /\ current' = 0
    /\ first' = [b \in Bank |-> 0] /\ last' = [b \in Bank |-> 0]
    /\ ready' = [b \in Bank |-> FALSE]

\* SET_CONFIGURATION with a value that is zero or not.  A completion of the
\* old configuration that is pending is met by the same interrupt, after the
\* request, with a byte counter of zero: the new handler just acknowledges it.
\* A reset that is pending is met by the same interrupt before the request.
SetConfiguration(value) ==
    /\ ~ResetPending
    /\ MidCall \/ pc = "idle"
    /\ NewHandler
    /\ trcpt0' = FALSE
    /\ data' = [b \in Bank |-> [k \in Index |-> 0]]
    /\ sent' = 0 /\ got' = 0 /\ lastByte' = 0 /\ promise' = 0
    /\ configured' = value
    /\ enabled' = TRUE
    /\ UNCHANGED <<pc, bank, want>>

\* USBDeviceClass::recv(ep, data, len) asks for a configuration first.
DeviceRecv(len) == configured /\ RecvCall(len)

SessionMain ==
    \/ \E len \in 0 .. MaxLen : DeviceRecv(len)
    \/ RecvCopy \/ RecvLoopEnd \/ RecvClear
    \/ AvailableCall \/ AvailableReturn

SessionNext ==
    \/ SessionMain /\ UNCHANGED sessionVars
    \/ HandleEndpoint /\ UNCHANGED sessionVars
    \/ enabled /\ UNCHANGED sessionVars /\ \E n \in 0 .. PacketSize : HwPacket(n)
    \/ BusReset \/ EndOfReset
    \/ \E value \in BOOLEAN : SetConfiguration(value)

SessionSafety == SessionInit /\ [][SessionNext]_<<vars, sessionVars>>

\* An enabled interrupt is taken and the main program runs on.  Strong
\* fairness says that the application does not stop calling recv() with a
\* buffer while the device is configured and there is something to read; it may
\* call available() and recv() with len = 0 in between.  The host owes nothing.
SessionFairness ==
    /\ WF_<<vars, sessionVars>>(HandleEndpoint /\ UNCHANGED sessionVars)
    /\ WF_<<vars, sessionVars>>(EndOfReset)
    /\ WF_<<vars, sessionVars>>(
           /\ RecvCopy \/ RecvLoopEnd \/ RecvClear \/ AvailableReturn
           /\ UNCHANGED sessionVars)
    /\ SF_<<vars, sessionVars>>(
           (\E len \in 1 .. MaxLen : DeviceRecv(len)) /\ UNCHANGED sessionVars)

SessionSpec == SessionSafety /\ SessionFairness

-----------------------------------------------------------------------------

Sessions == INSTANCE ByteStreamSessions WITH
    Capacity <- 2 * Size, complete <- Complete, open <- configured

\* The receiver is a sequence of byte streams: what the application reads after
\* a new configuration is the new stream from its first byte on, nothing of the
\* old one, nothing twice and nothing left out, although the configuration may
\* change between any two calls and the bus may be reset inside one.
SessionStream == Sessions!SessionsSpec

\* As long as the endpoint is enabled no wake-up is lost: when it refuses
\* packets and no interrupt is pending, both banks are full and recv() knows
\* that it has to release.  A bus reset may take the pending interrupt away;
\* the endpoint is off then, and a new handler begins with a released one.
SessionNoLostWakeup == enabled => NoLostWakeup

\* available() tells the truth.  What it reported stays readable as long as the
\* device keeps its configuration; when it has lost it, recv() answers -1
\* (DeviceClass.cpp:462) and takes the report back.  And it reports something
\* whenever a bank waits to be read: an empty bank handed over before a full one
\* would stop an application that reads only what is available.
AvailableTrue ==
    configured => /\ PromiseKept
                  /\ pc = "idle" /\ (\E b \in Bank : ready[b]) =>
                         ready[current] /\ Remaining(current) > 0

\* An endpoint that refuses the host takes packets again, unless the device
\* loses its configuration and nobody may read any more.
SessionHostServed == bk0rdy ~> ~bk0rdy \/ ~configured

\* "when ready0==true the buffer is not being filled and last0 is constant",
\* line 82 of the handler: the copy loop of recv() has its bank to itself.
CopyLoopUndisturbed == pc = "copy" => bk0rdy \/ address # bank
=============================================================================
