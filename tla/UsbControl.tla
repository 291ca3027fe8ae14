----------------------------- MODULE UsbControl -----------------------------
(***************************************************************************)
(* Control transfers on endpoint 0 (usb/DeviceClass.cpp, usb/CDC.cpp): the *)
(* host enumerates and configures the device, and every request is handled *)
(* inside the USB interrupt, ISRHandler().  Two requests keep the handler  *)
(* waiting for the host: SET_ADDRESS waits until its status packet has     *)
(* been fetched, SET_LINE_CODING for the data packet.                      *)
(*                                                                         *)
(* The host is one that keeps to the protocol: it completes a transfer     *)
(* before it begins the next one, it asks only for what its state allows,  *)
(* and only a bus reset takes a transfer back.  One packet holds all the   *)
(* data of a transfer.  The peripheral answers NAK while a setup packet    *)
(* waits for the handler, and a setup packet ends a stall.                 *)
(*                                                                         *)
(* The handler acknowledges a setup packet before it makes the answer.  In *)
(* between, the host may fetch what an earlier request has left in the IN  *)
(* bank.  Two moments are taken as too short for a packet of the bus: from *)
(* the first register that armSend() or sendZlp() writes to the bank made  *)
(* ready, and from the OUT bank emptied for the handler (line 764) to the  *)
(* same again in armRecvCtrlOUT() (line 514).  The next setup packet comes *)
(* after the handler has returned, unless it waits for the host.           *)
(***************************************************************************)
EXTENDS Naturals, FiniteSets

CONSTANTS
    Addresses,       \* what SET_ADDRESS gives the device
    Configurations,  \* values of SET_CONFIGURATION
    Settings,        \* values of SET_INTERFACE
    Lines,           \* values of SET_LINE_CODING; 1 stands for 1200 bps
    MaxSettings      \* bound: things a host sets, address and configuration apart

ASSUME UsbControlAssumption ==
    /\ Addresses \subseteq Nat \ {0}
    /\ Configurations \subseteq Nat
    /\ Settings \subseteq Nat
    /\ Lines \subseteq Nat
    /\ MaxSettings \in Nat

VARIABLES
    attached,    \* CTRLB.DETACH is off
    ep0,         \* endpoint 0 is set up
    endpoints,   \* the other endpoints are set up
    addr,        \* DADD, the address the peripheral answers to
    eorst, rxstp,          \* interrupt flags: end of reset, setup received
    bk0rdy, trcpt0,        \* OUT bank: full, a transfer is complete
    bk1rdy, trcpt1, stallrq,  \* IN bank: full, a transfer is complete, refused
    outBuf,      \* udd_ep_out_cache_buffer[0]: a request or its data, until it is
                 \* handled; nothing reads it after that
    in1          \* the packet of the IN bank, until it is fetched

hwVars == <<attached, ep0, endpoints, addr, eorst, rxstp, bk0rdy, trcpt0, bk1rdy,
            trcpt1, stallrq, outBuf, in1>>

VARIABLES
    initialized,    \* init() has been called
    isr,            \* "idle", or what the handler waits for
    configuration,  \* _usbConfiguration
    setInterface,   \* _usbSetInterface
    halt,           \* isEndpointHalt
    wakeUp,         \* isRemoteWakeUpEnabled
    line,           \* the first seven bytes of _lineInfo
    lineState,      \* _lineInfo.lineState, bit 0
    countdown       \* Reset::eraseDelayed() was called, not cancelErase()

devVars == <<initialized, isr, configuration, setInterface, halt, wakeUp, line, lineState,
             countdown>>

VARIABLES
    connected,   \* the host has reset the bus since the device is attached
    stage,       \* the host's next step in the transfer
    req,         \* the request of the transfer
    answer,      \* the packet the host got last
    told,        \* what the host has set, or may have set, of each kind
    reattached   \* attach() of an attached device has dropped the configuration

hostVars == <<connected, stage, req, answer, told>>
vars == <<hwVars, devVars, hostVars, reattached>>

-----------------------------------------------------------------------------
(* Requests, for a recipient: 0 is the device, 1 an interface, 2 an        *)
(* endpoint.                                                               *)

Ask(kind, recipient, values) ==
    {[kind |-> kind, recipient |-> recipient, value |-> v] : v \in values}

\* Transfers with data for the host.
Queries == {"GetStatus", "GetConfiguration", "GetInterface", "GetDescriptor",
            "GetLineCoding"}

\* What a host may ask of a device without an address, with one, and with a
\* configuration.  GET_DESCRIPTOR with value 0 names a descriptor there is not.
\* The features are 0, the halt of an endpoint, and 1, remote wake-up.
Addressing == Ask("SetAddress", 0, Addresses)
EarlyRequests == Ask("GetDescriptor", 0, {0, 1})
AddressedRequests ==
    Ask("SetConfiguration", 0, Configurations) \cup Ask("SetConfiguration", 1, {0})
    \cup Ask("GetConfiguration", 0, {0}) \cup Ask("SetDescriptor", 0, {0})
    \cup Ask("GetStatus", 0, {0})
    \cup Ask("SetFeature", 0, {1}) \cup Ask("ClearFeature", 0, {1})
ConfiguredRequests ==
    Ask("SetInterface", 1, Settings) \cup Ask("GetInterface", 1, {0})
    \cup Ask("GetStatus", 2, {0})
    \cup Ask("SetFeature", 2, {0}) \cup Ask("ClearFeature", 2, {0})
    \cup Ask("SetLineCoding", 1, Lines) \cup Ask("GetLineCoding", 1, {0})
    \cup Ask("SetControlLineState", 1, {0, 1}) \cup Ask("SendBreak", 1, {0})
    \cup Ask("OtherInterface", 1, {0})
Requests == Addressing \cup EarlyRequests \cup AddressedRequests \cup ConfiguredRequests

Legal(q) ==
    \/ q \in Addressing /\ told.config = {0}
    \/ q \in EarlyRequests
    \/ q \in AddressedRequests /\ told.addr # {0}
    \/ q \in ConfiguredRequests /\ told.addr # {0} /\ 0 \notin told.config

\* The field of "told" that a request sets, and what it sets it to: 2 stands for
\* a remote wake-up that the host has taken back.
Fields == [SetAddress |-> "addr", SetConfiguration |-> "config",
           SetInterface |-> "setting", SetLineCoding |-> "line",
           SetControlLineState |-> "lineState"]
Sets(q, f) ==
    \/ q.kind \in DOMAIN Fields /\ Fields[q.kind] = f
       /\ (f = "config" => q.recipient = 0)
    \/ q.kind \in {"SetFeature", "ClearFeature"}
       /\ f = (IF q.value = 1 THEN "wakeUp" ELSE "halt")
SetTo(q) ==
    CASE q.kind = "SetFeature" -> 1
      [] q.kind = "ClearFeature" -> 2 * q.value
      [] OTHER -> q.value

\* The bound of the model on what the host sets.
Within(q) ==
    Cardinality({f \in DOMAIN told \ {"addr", "config"} : told[f] # {0} \/ Sets(q, f)})
        <= MaxSettings

Nothing == [kind |-> "none", recipient |-> 0, value |-> 0]
Zlp == [zlp |-> TRUE, value |-> 0, fresh |-> FALSE]

Init ==
    /\ attached = FALSE /\ ep0 = FALSE /\ endpoints = FALSE /\ addr = 0
    /\ eorst = FALSE /\ rxstp = FALSE
    /\ bk0rdy = FALSE /\ trcpt0 = FALSE
    /\ bk1rdy = FALSE /\ trcpt1 = FALSE /\ stallrq = FALSE
    /\ outBuf = Nothing /\ in1 = Zlp
    /\ initialized = FALSE
    /\ isr = "idle" /\ configuration = 0 /\ setInterface = 0
    /\ halt = 0 /\ wakeUp = 0 /\ line = 0 /\ lineState = 0 /\ countdown = FALSE
    /\ connected = FALSE /\ stage = "idle" /\ req = Nothing /\ answer = Zlp
    /\ told = [f \in {"addr", "config", "setting", "line", "lineState", "halt",
                   "wakeUp"} |-> {0}]
    /\ reattached = FALSE

-----------------------------------------------------------------------------
(* The host and the peripheral.                                            *)

\* The host begins a transfer, 2 ms or more after a SET_ADDRESS.
HostSetup(q) ==
    /\ connected /\ stage = "idle" /\ isr = "idle"
    /\ ep0 /\ told.addr = {addr} /\ Legal(q) /\ Within(q)
    /\ rxstp' = TRUE
    /\ outBuf' = IF q.kind = "SetLineCoding" THEN [q EXCEPT !.value = 0] ELSE q
    /\ bk0rdy' = TRUE
    /\ stallrq' = FALSE
    /\ in1' = [in1 EXCEPT !.fresh = FALSE]
    /\ req' = q
    /\ stage' = IF q.kind \in Queries THEN "in"
                ELSE IF q.kind = "SetLineCoding" THEN "out" ELSE "statusIn"
    /\ UNCHANGED <<attached, ep0, endpoints, addr, eorst, trcpt0, bk1rdy, trcpt1,
                   devVars, connected, answer, told, reattached>>

\* The data of SET_LINE_CODING.
HostOut ==
    /\ stage = "out" /\ ~rxstp /\ isr # "setup" /\ ~bk0rdy
    /\ outBuf' = [req EXCEPT !.kind = "data"]
    /\ bk0rdy' = TRUE /\ trcpt0' = TRUE
    /\ stage' = "statusIn"
    /\ UNCHANGED <<attached, ep0, endpoints, addr, eorst, rxstp, bk1rdy, trcpt1,
                   stallrq, in1, devVars, connected, req, answer, told, reattached>>

\* The data of a query, or the status packet that ends another request.
HostIn ==
    /\ stage \in {"in", "statusIn"} /\ ~rxstp
    /\ ~stallrq /\ bk1rdy
    /\ bk1rdy' = FALSE /\ trcpt1' = TRUE /\ in1' = Zlp
    /\ IF stage = "in"
       THEN stage' = "statusOut" /\ req' = req /\ answer' = in1 /\ told' = told
       ELSE /\ stage' = "idle" /\ req' = Nothing /\ answer' = answer
            /\ told' = [f \in DOMAIN told |-> IF Sets(req, f) THEN {SetTo(req)}
                                                              ELSE told[f]]
    /\ UNCHANGED <<attached, ep0, endpoints, addr, eorst, rxstp, bk0rdy, trcpt0,
                   stallrq, outBuf, devVars, connected, reattached>>

\* The request is refused.
HostStalled ==
    /\ stage \in {"in", "statusIn"} /\ ~rxstp
    /\ stallrq
    /\ stage' = "idle" /\ req' = Nothing
    /\ UNCHANGED <<hwVars, devVars, connected, answer, told, reattached>>

\* The empty packet by which the host ends a query.
HostStatusOut ==
    /\ stage = "statusOut" /\ ~rxstp /\ ~bk0rdy
    /\ bk0rdy' = TRUE /\ trcpt0' = TRUE
    /\ stage' = "idle" /\ req' = Nothing /\ answer' = Zlp
    /\ UNCHANGED <<attached, ep0, endpoints, addr, eorst, rxstp, bk1rdy, trcpt1,
                   stallrq, outBuf, in1, devVars, connected, told, reattached>>

\* A bus reset, up to its end.  The request it interrupts may have been
\* carried out or not.
BusReset ==
    /\ attached
    /\ connected' = TRUE
    /\ addr' = 0 /\ ep0' = FALSE /\ endpoints' = FALSE
    /\ eorst' = TRUE /\ rxstp' = FALSE
    /\ trcpt0' = FALSE /\ trcpt1' = FALSE /\ stallrq' = FALSE
    /\ bk1rdy' \in {FALSE, bk1rdy}
    /\ stage' = "idle" /\ req' = Nothing /\ answer' = Zlp
    /\ told' = [f \in DOMAIN told |->
                   IF f \in {"addr", "config"} THEN {0}
                   ELSE IF stage # "idle" /\ Sets(req, f) THEN told[f] \cup {SetTo(req)}
                   ELSE told[f]]
    /\ outBuf' = IF isr = "idle" THEN Nothing ELSE outBuf
    /\ reattached' = FALSE
    /\ UNCHANGED <<attached, bk0rdy, in1, devVars>>

-----------------------------------------------------------------------------
(* The main program: init(), attach() and detach().  It runs only while    *)
(* the handler does not; a request may still arrive just before the device *)
(* detaches.                                                               *)

\* The device is gone from the bus.  A request this cuts short may have been
\* carried out or not.
HostLosesDevice ==
    /\ connected' = FALSE /\ stage' = "idle" /\ req' = Nothing /\ answer' = Zlp
    /\ told' = [f \in DOMAIN told |-> IF stage # "idle" /\ Sets(req, f)
                                      THEN told[f] \cup {SetTo(req)} ELSE told[f]]

\* The software reset takes back every register; clock, pins, calibration and
\* mode are the same each time.
ResetRegisters ==
    /\ attached' = FALSE /\ ep0' = FALSE /\ endpoints' = FALSE /\ addr' = 0
    /\ eorst' = FALSE /\ rxstp' = FALSE
    /\ bk0rdy' = FALSE /\ trcpt0' = FALSE
    /\ bk1rdy' = FALSE /\ trcpt1' = FALSE /\ stallrq' = FALSE

\* init(), also of a device that is in use: the members keep their values.
InitDevice ==
    /\ isr = "idle"
    /\ initialized' = TRUE
    /\ ResetRegisters
    /\ HostLosesDevice
    /\ outBuf' = Nothing /\ in1' = Zlp
    /\ UNCHANGED <<isr, configuration, setInterface, halt, wakeUp, line, lineState,
                   countdown, reattached>>

\* Mutant: a configuration from before init() survives.
AttachKeepsConfiguration ==
    /\ initialized /\ isr = "idle" /\ ~rxstp /\ ~eorst
    /\ attached' = TRUE /\ reattached' = attached
    /\ UNCHANGED <<ep0, endpoints, addr, eorst, rxstp, bk0rdy, trcpt0, bk1rdy,
                   trcpt1, stallrq, outBuf, in1, devVars, hostVars>>

\* attach(), also of a device that is attached.
Attach ==
    /\ initialized /\ isr = "idle" /\ ~rxstp /\ ~eorst
    /\ attached' = TRUE /\ reattached' = attached
    /\ configuration' = 0
    /\ UNCHANGED <<ep0, endpoints, addr, eorst, rxstp, bk0rdy, trcpt0, bk1rdy,
                   trcpt1, stallrq, outBuf, in1, initialized, isr, setInterface, halt,
                   wakeUp, line, lineState, countdown, hostVars>>

Detach ==
    /\ attached /\ isr = "idle"
    /\ attached' = FALSE
    /\ HostLosesDevice
    /\ UNCHANGED <<ep0, endpoints, addr, eorst, rxstp, bk0rdy, trcpt0, bk1rdy,
                   trcpt1, stallrq, outBuf, in1, devVars, reattached>>

-----------------------------------------------------------------------------
(* The interrupt handler.                                                  *)

settings == <<endpoints, configuration, setInterface, halt, wakeUp, lineState,
              countdown, reattached>>

\* Mutant: a bus reset leaves the configuration standing.
IsrResetKeepsConfiguration ==
    /\ isr = "idle" /\ eorst
    /\ eorst' = FALSE
    /\ ep0' = TRUE /\ bk0rdy' = TRUE
    /\ UNCHANGED <<attached, endpoints, addr, rxstp, trcpt0, bk1rdy, trcpt1, stallrq,
                   outBuf, in1, devVars, hostVars, reattached>>

\* End of reset: endpoint 0 is set up, its OUT bank refuses.
IsrReset ==
    /\ isr = "idle" /\ eorst
    /\ eorst' = FALSE
    /\ ep0' = TRUE /\ bk0rdy' = TRUE
    /\ configuration' = 0
    /\ UNCHANGED <<attached, endpoints, addr, rxstp, trcpt0, bk1rdy, trcpt1, stallrq,
                   outBuf, in1, initialized, isr, setInterface, halt, wakeUp, line,
                   lineState, countdown, hostVars, reattached>>

\* Mutant: the byte count is not set to zero.
SendZlpNot == UNCHANGED in1

\* armSend() and sendZlp(): the packet, not yet offered to the host.
ArmSend(v) == in1' = [zlp |-> FALSE, value |-> v, fresh |-> TRUE]
SendZlp == in1' = [Zlp EXCEPT !.fresh = TRUE]

\* Mutant: a request that fails is not refused.
RefuseNot ==
    isr' = "idle" /\ outBuf' = Nothing /\ UNCHANGED <<bk0rdy, bk1rdy, trcpt1, stallrq>>

\* The request was handled: epBank1SetReady(0), or it was not: stall(0).
Return == isr' = "idle" /\ outBuf' = Nothing
Ok == bk1rdy' = TRUE /\ Return /\ UNCHANGED <<bk0rdy, trcpt1, stallrq>>
Refuse == stallrq' = TRUE /\ Return /\ UNCHANGED <<bk0rdy, bk1rdy, trcpt1>>

\* RequestType::Device is the number 0; a query has bit 7 set.
BmRequestType(q) == q.recipient + (IF q.kind \in Queries THEN 128 ELSE 0)
Device == 0

GetStatus ==
    /\ outBuf.kind = "GetStatus"
    /\ ArmSend(IF BmRequestType(outBuf) = Device THEN 0 ELSE halt)
    /\ Ok /\ UNCHANGED settings

\* Mutant: the halt is not taken back.
ClearFeatureNot ==
    /\ outBuf.kind = "ClearFeature"
    /\ IF outBuf.value = 1 THEN ArmSend(wakeUp) ELSE SendZlp
    /\ Ok /\ UNCHANGED settings

\* The feature 1 is reported and left as it is.
ClearFeature ==
    /\ outBuf.kind = "ClearFeature"
    /\ IF outBuf.value = 1 THEN ArmSend(wakeUp) /\ halt' = halt
                           ELSE SendZlp /\ halt' = 0
    /\ Ok
    /\ UNCHANGED <<endpoints, configuration, setInterface, wakeUp, lineState, countdown,
                   reattached>>

SetFeature ==
    /\ outBuf.kind = "SetFeature"
    /\ IF outBuf.value = 1 THEN ArmSend(0) /\ wakeUp' = 1 /\ halt' = halt
                           ELSE SendZlp /\ halt' = 1 /\ wakeUp' = wakeUp
    /\ Ok
    /\ UNCHANGED <<endpoints, configuration, setInterface, lineState, countdown, reattached>>

\* Mutant: the flag of the packet before is not acknowledged.
SetAddressNoAck ==
    /\ outBuf.kind = "SetAddress"
    /\ SendZlp
    /\ bk1rdy' = TRUE
    /\ isr' = "address"
    /\ UNCHANGED <<bk0rdy, trcpt1, stallrq, outBuf, settings>>


\* setAddress(), up to its wait for the status packet to be fetched.
SetAddress ==
    /\ outBuf.kind = "SetAddress"
    /\ SendZlp
    /\ trcpt1' = FALSE
    /\ bk1rdy' = TRUE
    /\ isr' = "address"
    /\ UNCHANGED <<bk0rdy, stallrq, outBuf, settings>>

GetDescriptor ==
    /\ outBuf.kind = "GetDescriptor"
    /\ IF outBuf.value = 0 THEN Refuse /\ UNCHANGED in1 ELSE ArmSend(1) /\ Ok
    /\ UNCHANGED settings

SetDescriptor ==
    /\ outBuf.kind = "SetDescriptor"
    /\ Refuse /\ UNCHANGED <<in1, settings>>

GetConfiguration ==
    /\ outBuf.kind = "GetConfiguration"
    /\ ArmSend(configuration) /\ Ok /\ UNCHANGED settings

\* RequestType::RecipientMask: a configuration is one of the device.
SetConfiguration ==
    /\ outBuf.kind = "SetConfiguration"
    /\ IF outBuf.recipient = 0
       THEN /\ endpoints' = TRUE /\ configuration' = outBuf.value /\ SendZlp /\ Ok
            /\ reattached' = FALSE
       ELSE Refuse /\ UNCHANGED <<in1, endpoints, configuration, reattached>>
    /\ UNCHANGED <<setInterface, halt, wakeUp, lineState, countdown>>

GetInterface ==
    /\ outBuf.kind = "GetInterface"
    /\ ArmSend(setInterface) /\ Ok /\ UNCHANGED settings

SetInterface ==
    /\ outBuf.kind = "SetInterface"
    /\ setInterface' = outBuf.value
    /\ SendZlp /\ Ok
    /\ UNCHANGED <<endpoints, configuration, halt, wakeUp, lineState, countdown, reattached>>

\* Mutant: the state of the port does not count.
TouchedOpen(rate, state) == rate = 1

\* 1200 bps, and bit 0 of the line state is not set.
Touched(rate, state) == rate = 1 /\ state = 0

GetLineCoding ==
    /\ outBuf.kind = "GetLineCoding"
    /\ ArmSend(line) /\ Ok /\ UNCHANGED settings

\* recvControl(), up to its wait for the data.
SetLineCoding ==
    /\ outBuf.kind = "SetLineCoding"
    /\ bk0rdy' = FALSE
    /\ isr' = "lineCoding"
    /\ UNCHANGED <<bk1rdy, trcpt1, stallrq, outBuf, in1, settings>>

SetControlLineState ==
    /\ outBuf.kind = "SetControlLineState"
    /\ lineState' = outBuf.value
    /\ countdown' = Touched(line, lineState')
    /\ SendZlp /\ Ok
    /\ UNCHANGED <<endpoints, configuration, setInterface, halt, wakeUp, reattached>>

SendBreak ==
    /\ outBuf.kind = "SendBreak"
    /\ SendZlp /\ Ok /\ UNCHANGED settings

\* No module is plugged in that knows another interface.
OtherInterface ==
    /\ outBuf.kind = "OtherInterface"
    /\ SendZlp /\ Refuse /\ UNCHANGED settings

HandleStandardSetup ==
    \/ GetStatus \/ ClearFeature \/ SetFeature \/ SetAddress \/ GetDescriptor
    \/ SetDescriptor \/ GetConfiguration \/ SetConfiguration \/ GetInterface
    \/ SetInterface

HandleClassInterfaceSetup ==
    \/ GetLineCoding \/ SetLineCoding \/ SetControlLineState \/ SendBreak
    \/ OtherInterface

\* The setup packet is acknowledged, which ends the NAKs, and the OUT bank is
\* emptied.
IsrSetup ==
    /\ isr = "idle" /\ ~eorst /\ rxstp
    /\ rxstp' = FALSE /\ bk0rdy' = FALSE
    /\ isr' = "setup"
    /\ UNCHANGED <<attached, ep0, endpoints, addr, eorst, trcpt0, bk1rdy, trcpt1,
                   stallrq, outBuf, in1, initialized, configuration, setInterface, halt,
                   wakeUp, line, lineState, countdown, hostVars, reattached>>

\* The request is carried out and its packet offered, or it is refused.
IsrAnswer ==
    /\ isr = "setup"
    /\ HandleStandardSetup \/ HandleClassInterfaceSetup
    /\ UNCHANGED <<attached, ep0, addr, eorst, rxstp, trcpt0, initialized, line, hostVars>>

\* The status packet of SET_ADDRESS has been fetched.  The handler offers one
\* more, which nobody asked for.
IsrAddress ==
    /\ isr = "address" /\ trcpt1
    /\ addr' = outBuf.value
    /\ bk1rdy' = TRUE /\ in1' = Zlp
    /\ Return
    /\ UNCHANGED <<attached, ep0, eorst, rxstp, bk0rdy, trcpt0, trcpt1, stallrq,
                   initialized, line, settings, hostVars>>

\* Mutant: only the flag is looked at, which an earlier packet has set.
IsrLineCodingEarly ==
    /\ isr = "lineCoding" /\ trcpt0
    /\ line' = outBuf.value
    /\ countdown' = Touched(line', lineState)
    /\ SendZlp
    /\ bk1rdy' = TRUE
    /\ Return
    /\ UNCHANGED <<attached, ep0, endpoints, addr, eorst, rxstp, bk0rdy, trcpt0,
                   trcpt1, stallrq, initialized, configuration, setInterface,
                   halt, wakeUp, lineState, hostVars, reattached>>

\* The data of SET_LINE_CODING has come.
IsrLineCoding ==
    /\ isr = "lineCoding" /\ bk0rdy /\ trcpt0
    /\ line' = outBuf.value
    /\ countdown' = Touched(line', lineState)
    /\ SendZlp
    /\ bk1rdy' = TRUE
    /\ Return
    /\ UNCHANGED <<attached, ep0, endpoints, addr, eorst, rxstp, bk0rdy, trcpt0,
                   trcpt1, stallrq, initialized, configuration, setInterface,
                   halt, wakeUp, lineState, hostVars, reattached>>

Isr == IsrReset \/ IsrSetup \/ IsrAnswer \/ IsrAddress \/ IsrLineCoding

Host == HostOut \/ HostIn \/ HostStalled \/ HostStatusOut

Next ==
    \/ \E q \in Requests : HostSetup(q)
    \/ Host \/ BusReset \/ InitDevice \/ Attach \/ Detach \/ Isr

\* The interrupt is taken, and a host that has begun a transfer goes on with
\* it: the host controller repeats its tokens until they are answered.
Spec == Init /\ [][Next]_vars /\ WF_vars(Isr) /\ WF_vars(Host)

-----------------------------------------------------------------------------
(* Properties.                                                             *)

TypeOK ==
    /\ {initialized, attached, ep0, endpoints, eorst, rxstp, bk0rdy, trcpt0, bk1rdy, trcpt1,
        stallrq, countdown, connected, reattached} \subseteq BOOLEAN
    /\ addr \in Addresses \cup {0} /\ configuration \in Configurations \cup {0}
    /\ setInterface \in Settings \cup {0} /\ line \in Lines \cup {0}
    /\ {halt, wakeUp, lineState} \subseteq {0, 1}
    /\ isr \in {"idle", "setup", "address", "lineCoding"}
    /\ stage \in {"idle", "in", "out", "statusIn", "statusOut"}

\* Between two transfers the device is in the state the host put it into, over
\* any sequence of requests, refused requests and bus resets, but for two things.
\* attach() of a device that is in use drops the configuration, and no host hears
\* of it.  CLEAR_FEATURE of remote wake-up is answered like any request that was
\* carried out, and leaves the flag set (DeviceClass.cpp:666-672): from then on
\* the device may have a remote wake-up that the host has taken back.
Quiet == connected /\ stage = "idle" /\ isr = "idle" /\ ~eorst
Agreement ==
    Quiet => /\ addr \in told.addr
             /\ configuration \in told.config \/ (reattached /\ configuration = 0)
             /\ setInterface \in told.setting /\ halt \in told.halt
             /\ line \in told.line /\ lineState \in told.lineState
             /\ wakeUp \in told.wakeUp \/ 2 \in told.wakeUp

\* A query is answered with what the host has set before, GET_STATUS of any
\* recipient with the halt of an endpoint: against the comments at
\* DeviceClass.cpp:647-655 a host that asks for the status of the device is
\* told of that halt, too, since the request type 0x80 is never the number of
\* RequestType::Device.  The packet is the one made for the query (AnswerFresh).
Truth(q) ==
    CASE q.kind = "GetConfiguration" -> told.config \cup (IF reattached THEN {0} ELSE {})
      [] q.kind = "GetInterface" -> told.setting
      [] q.kind = "GetLineCoding" -> told.line
      [] q.kind = "GetStatus" -> told.halt
      [] q.kind = "GetDescriptor" -> {1}
AnswerTrue ==
    stage = "statusOut" /\ answer.fresh => ~answer.zlp /\ answer.value \in Truth(req)

\* Each packet the host takes was made for its request, although packets of
\* requests that a reset cut short, and one extra packet of each SET_ADDRESS,
\* stay in the bank.  The exception is a host that fetches while the handler is
\* still at work: the setup packet is acknowledged (line 759) before the answer
\* is made, and what an earlier request left in the bank goes out in its place.
AnswerFresh == [][HostIn => in1.fresh \/ isr \in {"setup", "lineCoding"}]_vars

\* The device takes its new address when the host has the status packet, which
\* goes to the old address: a flag an earlier packet left behind does not count.
AddressAfterStatus == [][addr' # addr /\ addr' # 0 => told.addr = {addr'}]_vars

\* The countdown to the erase of the application runs exactly when the last rate
\* the host has set is 1200 bps and the port is not open.  The comment at
\* CDC.cpp:120-122 speaks of a port that is open at 1200 bps and then closed; in
\* the code the order of the two requests does not count, and SET_LINE_CODING
\* alone starts the countdown of a port that was never opened.
EraseAsTold ==
    Quiet => \E rate \in told.line, state \in told.lineState :
                 countdown <=> (rate = 1 /\ state = 0)

\* No endpoint is used before it is set up: send() and recv() look only at the
\* configuration, which a bus reset leaves standing until its interrupt is
\* handled, and init() until the device is attached again.
ConfiguredIsSetUp == configuration # 0 /\ attached => endpoints \/ eorst

\* A transfer comes to its end, by answer or by refusal.
RequestEnds == stage # "idle" ~> stage = "idle"

=============================================================================
