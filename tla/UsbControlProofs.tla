-------------------------- MODULE UsbControlProofs --------------------------
(***************************************************************************)
(* Control transfers, for any addresses, configurations, settings and line *)
(* codings.  A transfer begins with a request in the OUT bank, is handled  *)
(* by the interrupt, and ends when the host has fetched the packet of the  *)
(* handler, or is refused; a bus reset, detach() or init() may cut it      *)
(* short anywhere.                                                         *)
(***************************************************************************)
EXTENDS UsbControl, TLAPS

Things == {"config", "setting", "line", "lineState", "halt", "wakeUp"}
Names == Things \cup {"addr"}

\* What the device has of each thing a host sets.
Held(f) ==
    CASE f = "config" -> configuration
      [] f = "setting" -> setInterface
      [] f = "line" -> line
      [] f = "lineState" -> lineState
      [] f = "halt" -> halt
      [] f = "wakeUp" -> wakeUp

\* What the device has is among what the host has set, or one of the two
\* exceptions of Agreement accounts for it.
Fits(f, S) ==
    \/ Held(f) \in S
    \/ f = "config" /\ reattached /\ Held(f) = 0
    \/ f = "wakeUp" /\ 2 \in S

\* What a handler may rely on.
WellFormed(q) ==
    /\ q.recipient \in Nat
    /\ q.kind \in {"SetFeature", "ClearFeature"} => q.value \in {0, 1}

\* What is set or not.
Flags ==
    /\ attached \in BOOLEAN /\ ep0 \in BOOLEAN /\ endpoints \in BOOLEAN /\ eorst \in BOOLEAN
    /\ rxstp \in BOOLEAN /\ bk0rdy \in BOOLEAN /\ trcpt0 \in BOOLEAN /\ bk1rdy \in BOOLEAN
    /\ trcpt1 \in BOOLEAN /\ stallrq \in BOOLEAN /\ countdown \in BOOLEAN
    /\ connected \in BOOLEAN /\ reattached \in BOOLEAN

Types ==
    /\ Flags
    /\ isr \in {"idle", "setup", "address", "lineCoding"}
    /\ stage \in {"idle", "in", "out", "statusIn", "statusOut"}
    /\ halt \in {0, 1} /\ wakeUp \in {0, 1}
    /\ told = [f \in Names |-> told[f]]
    /\ stage # "idle" => WellFormed(req)
    /\ rxstp \/ isr = "setup" => WellFormed(outBuf)

-----------------------------------------------------------------------------
(* Where a transfer is.                                                    *)

\* A request is in the bank and has not been handled; it is the transfer's.
Open == rxstp \/ isr = "setup"
Asking == Open /\ stage # "idle"

\* The handler has made its packet, and has not refused.
Handled == ~Open /\ isr # "lineCoding" /\ ~stallrq /\ bk1rdy

\* While the handler makes its packet the host may be ahead of it, with an older
\* packet of the bank.
Phase ==
    /\ connected => attached
    /\ eorst => ~ep0 /\ told.config = {0}
    /\ stage # "idle" => connected /\ ep0
    /\ stage = "out" => req.kind = "SetLineCoding" /\ (~Open => isr = "lineCoding")
    /\ stage \in {"in", "statusOut"} => req.kind \in Queries
    /\ stage = "statusIn" => req.kind \notin Queries
    /\ rxstp => isr = "idle" /\ stage # "statusOut"
    /\ Asking =>
          /\ ~stallrq /\ ~in1.fresh
          /\ stage = "statusIn" => req.kind # "SetLineCoding"
          /\ outBuf.kind = req.kind /\ outBuf.recipient = req.recipient
          /\ req.kind # "SetLineCoding" => outBuf.value = req.value
    /\ rxstp /\ stage = "idle" => ~connected

\* A request that waits for its status packet, or for its data.
Waits ==
    /\ stage = "statusIn" /\ ~Open /\ req.kind = "SetAddress" => isr = "address"
    /\ isr = "address" =>
          \/ /\ stage = "statusIn" /\ req.kind = "SetAddress" /\ outBuf.value = req.value
             /\ ~trcpt1
          \/ stage = "idle" /\ (trcpt1 => told.addr = {outBuf.value})
    /\ isr = "lineCoding" =>
          \/ stage = "out" /\ ~bk0rdy /\ ~stallrq
          \/ /\ stage = "statusIn" /\ req.kind = "SetLineCoding" /\ outBuf.value = req.value
             /\ ~stallrq
          \/ stage = "idle" /\ (bk0rdy /\ trcpt0 => outBuf.value \in told.line)

-----------------------------------------------------------------------------
(* What the device has, and what the host has set.                         *)

Pending(f) == IF stage # "idle" /\ Sets(req, f) THEN {SetTo(req)} ELSE {}

\* The host has the end of a request that the handler is about to carry out.
Late(f) ==
    /\ stage = "idle"
    /\ \/ isr = "setup" /\ f # "line" /\ Sets(outBuf, f)
       \/ isr = "lineCoding" /\ f = "line"

Live(f) == f # "config" \/ (connected /\ ~eorst)

Fitting(f) == Fits(f, told[f])
Reaching(f) == Fits(f, told[f] \cup Pending(f))
Reached(f) == Fits(f, {SetTo(req)})
Told(f) == SetTo(outBuf) \in told[f]

AgreeOn(f) ==
    /\ Live(f) /\ ~Late(f) => Reaching(f)
    /\ stage # "idle" /\ (Open \/ stallrq) => Fitting(f)
    /\ stage = "statusIn" /\ Handled /\ Sets(req, f) => Reached(f)
    /\ Open /\ stage = "idle" /\ Sets(outBuf, f) /\ f # "line" /\ Live(f) => Told(f)

\* The address, and the countdown to the erase.
Numbered ==
    /\ connected /\ isr # "address" /\ ~(isr = "setup" /\ outBuf.kind = "SetAddress") =>
          addr \in told.addr
    /\ countdown <=> line = 1 /\ lineState = 0

Agree == (\A f \in Things : AgreeOn(f)) /\ Numbered

\* The packets of the IN bank.
Packets ==
    /\ stage \in {"in", "statusIn"} /\ Handled => in1.fresh
    /\ stage = "in" /\ Handled => ~in1.zlp /\ in1.value \in Truth(req)
    /\ AnswerTrue

IInv == Types /\ Phase /\ Waits /\ Agree /\ Packets /\ ConfiguredIsSetUp

-----------------------------------------------------------------------------
(* Requests.                                                               *)

Kinds == {"SetAddress", "GetDescriptor", "SetConfiguration", "GetConfiguration", "SetDescriptor",
          "GetStatus", "SetFeature", "ClearFeature", "SetInterface", "GetInterface",
          "SetLineCoding", "GetLineCoding", "SetControlLineState", "SendBreak", "OtherInterface"}
Records == [kind : Kinds, recipient : 0 .. 2, value : Nat]

LEMMA RequestTypes ==
    ASSUME NEW q \in Requests
    PROVE  q \in Records /\ WellFormed(q)
<1> USE UsbControlAssumption DEF Ask, Records, Kinds, WellFormed
<1>1. CASE q \in Addressing
  BY <1>1 DEF Addressing
<1>2. CASE q \in EarlyRequests
  BY <1>2 DEF EarlyRequests
<1>3. CASE q \in AddressedRequests
  BY <1>3 DEF AddressedRequests
<1>4. CASE q \in ConfiguredRequests
  BY <1>4 DEF ConfiguredRequests
<1> QED
  BY <1>1, <1>2, <1>3, <1>4 DEF Requests

\* What each request sets.
LEMMA SetsWhat ==
    \A q, f : Sets(q, f) <=>
        \/ q.kind = "SetAddress" /\ f = "addr"
        \/ q.kind = "SetConfiguration" /\ q.recipient = 0 /\ f = "config"
        \/ q.kind = "SetInterface" /\ f = "setting"
        \/ q.kind = "SetLineCoding" /\ f = "line"
        \/ q.kind = "SetControlLineState" /\ f = "lineState"
        \/ q.kind \in {"SetFeature", "ClearFeature"} /\ q.value = 1 /\ f = "wakeUp"
        \/ q.kind \in {"SetFeature", "ClearFeature"} /\ q.value # 1 /\ f = "halt"
BY DEF Sets, Fields

-----------------------------------------------------------------------------
(* What the handlers do.                                                   *)

Keeps == \A f \in Things : Held(f)' = Held(f)

\* CLEAR_FEATURE of remote wake-up changes nothing.
Takes(q, f) == Sets(q, f) /\ ~(q.kind = "ClearFeature" /\ f = "wakeUp")

\* A request that is carried out, with its packet; one that is refused; and the
\* two that wait.
CarriedOut ==
    /\ outBuf.kind \notin {"SetAddress", "SetLineCoding"}
    /\ bk1rdy' = TRUE /\ isr' = "idle" /\ UNCHANGED <<bk0rdy, trcpt1, stallrq>>
    /\ in1'.fresh
    /\ \A f \in Things : Held(f)' = IF Takes(outBuf, f) THEN SetTo(outBuf) ELSE Held(f)
    /\ Sets(outBuf, "config") \/ UNCHANGED reattached
    /\ outBuf.kind \in Queries =>
          /\ ~in1'.zlp
          /\ outBuf.kind = "GetConfiguration" => in1'.value = configuration
          /\ outBuf.kind = "GetInterface" => in1'.value = setInterface
          /\ outBuf.kind = "GetLineCoding" => in1'.value = line
          /\ outBuf.kind = "GetStatus" => in1'.value = halt
          /\ outBuf.kind = "GetDescriptor" => in1'.value = 1
Refused ==
    /\ outBuf.kind \notin {"SetAddress", "SetLineCoding"}
    /\ stallrq' = TRUE /\ isr' = "idle" /\ UNCHANGED <<bk0rdy, bk1rdy, trcpt1, reattached>>
    /\ Keeps /\ \A f \in Things : ~Sets(outBuf, f)
WaitsForStatus ==
    /\ outBuf.kind = "SetAddress"
    /\ trcpt1' = FALSE /\ bk1rdy' = TRUE /\ isr' = "address"
    /\ UNCHANGED <<bk0rdy, stallrq, outBuf, reattached>>
    /\ in1'.fresh /\ Keeps
WaitsForData ==
    /\ outBuf.kind = "SetLineCoding"
    /\ bk0rdy' = FALSE /\ isr' = "lineCoding"
    /\ UNCHANGED <<bk1rdy, trcpt1, stallrq, outBuf, in1, reattached>>
    /\ Keeps

LEMMA HandlerEffects ==
    ASSUME IsrAnswer, WellFormed(outBuf)
    PROVE  /\ CarriedOut \/ Refused \/ WaitsForStatus \/ WaitsForData
           /\ (countdown <=> line = 1 /\ lineState = 0) => (countdown' <=> line' = 1 /\ lineState' = 0)
           /\ configuration' # configuration => endpoints'
           /\ endpoints => endpoints'
<1>1. line' = line
  BY DEF IsrAnswer
<1> USE SetsWhat DEF settings, Keeps, Held, Things, Takes, SetTo, Queries, Ok, Refuse, Return, ArmSend,
       SendZlp, Zlp
<1>2. CASE GetStatus
  <2>1. BmRequestType(outBuf) # Device
    BY <1>2 DEF GetStatus, BmRequestType, Device, WellFormed
  <2>2. CarriedOut
    BY <1>1, <1>2, <2>1 DEF GetStatus, CarriedOut
  <2> QED
    BY <1>1, <1>2, <2>2 DEF GetStatus
<1>3. CASE ClearFeature
  <2>1. CarriedOut
    BY <1>1, <1>3 DEF ClearFeature, CarriedOut, WellFormed
  <2> QED
    BY <1>1, <1>3, <2>1 DEF ClearFeature
<1>4. CASE SetFeature
  <2>1. CarriedOut
    BY <1>1, <1>4 DEF SetFeature, CarriedOut, WellFormed
  <2> QED
    BY <1>1, <1>4, <2>1 DEF SetFeature
<1>5. CASE SetAddress
  <2>1. WaitsForStatus
    BY <1>1, <1>5 DEF SetAddress, WaitsForStatus
  <2> QED
    BY <1>1, <1>5, <2>1 DEF SetAddress
<1>6. CASE GetDescriptor
  <2>1. CarriedOut \/ Refused
    BY <1>1, <1>6 DEF GetDescriptor, CarriedOut, Refused
  <2> QED
    BY <1>1, <1>6, <2>1 DEF GetDescriptor
<1>7. CASE SetDescriptor
  <2>1. Refused
    BY <1>1, <1>7 DEF SetDescriptor, Refused
  <2> QED
    BY <1>1, <1>7, <2>1 DEF SetDescriptor
<1>8. CASE GetConfiguration
  <2>1. CarriedOut
    BY <1>1, <1>8 DEF GetConfiguration, CarriedOut
  <2> QED
    BY <1>1, <1>8, <2>1 DEF GetConfiguration
<1>9. CASE SetConfiguration
  <2>1. CarriedOut \/ Refused
    BY <1>1, <1>9 DEF SetConfiguration, CarriedOut, Refused
  <2> QED
    BY <1>1, <1>9, <2>1 DEF SetConfiguration
<1>10. CASE GetInterface
  <2>1. CarriedOut
    BY <1>1, <1>10 DEF GetInterface, CarriedOut
  <2> QED
    BY <1>1, <1>10, <2>1 DEF GetInterface
<1>11. CASE SetInterface
  <2>1. CarriedOut
    BY <1>1, <1>11 DEF SetInterface, CarriedOut
  <2> QED
    BY <1>1, <1>11, <2>1 DEF SetInterface
<1>12. CASE GetLineCoding
  <2>1. CarriedOut
    BY <1>1, <1>12 DEF GetLineCoding, CarriedOut
  <2> QED
    BY <1>1, <1>12, <2>1 DEF GetLineCoding
<1>13. CASE SetLineCoding
  <2>1. WaitsForData
    BY <1>1, <1>13 DEF SetLineCoding, WaitsForData
  <2> QED
    BY <1>1, <1>13, <2>1 DEF SetLineCoding
<1>14. CASE SetControlLineState
  <2>1. CarriedOut
    BY <1>1, <1>14 DEF SetControlLineState, CarriedOut
  <2> QED
    BY <1>1, <1>14, <2>1 DEF SetControlLineState, Touched
<1>15. CASE SendBreak
  <2>1. CarriedOut
    BY <1>1, <1>15 DEF SendBreak, CarriedOut
  <2> QED
    BY <1>1, <1>15, <2>1 DEF SendBreak
<1>16. CASE OtherInterface
  <2>1. Refused
    BY <1>1, <1>16 DEF OtherInterface, Refused
  <2> QED
    BY <1>1, <1>16, <2>1 DEF OtherInterface
<1> QED
  BY <1>2, <1>3, <1>4, <1>5, <1>6, <1>7, <1>8, <1>9, <1>10, <1>11, <1>12, <1>13, <1>14, <1>15,
     <1>16 DEF IsrAnswer, HandleStandardSetup, HandleClassInterfaceSetup

-----------------------------------------------------------------------------
(* The invariant, one part after the other.                                *)

\* The request in the bank is the host's, but for the data of SET_LINE_CODING.
LEMMA SetupPuts ==
    ASSUME NEW q \in Requests, HostSetup(q)
    PROVE  /\ WellFormed(req') /\ WellFormed(outBuf')
           /\ req' = q /\ Legal(q)
           /\ outBuf'.kind = q.kind /\ outBuf'.recipient = q.recipient
           /\ q.kind # "SetLineCoding" => outBuf'.value = q.value
<1>1. q \in Records /\ WellFormed(q)
  BY RequestTypes
<1>2. CASE q.kind = "SetLineCoding"
  <2>1. outBuf' = [q EXCEPT !.value = 0]
    BY <1>2 DEF HostSetup
  <2> QED
    BY <1>1, <1>2, <2>1 DEF HostSetup, WellFormed, Records
<1>3. CASE q.kind # "SetLineCoding"
  BY <1>1, <1>3 DEF HostSetup
<1> QED
  BY <1>2, <1>3

LEMMA HandlerTypes ==
    ASSUME Types, IsrAnswer
    PROVE  /\ endpoints' \in BOOLEAN /\ countdown' \in BOOLEAN /\ reattached' \in BOOLEAN
           /\ halt' \in {0, 1} /\ wakeUp' \in {0, 1}
           /\ bk0rdy' \in BOOLEAN /\ bk1rdy' \in BOOLEAN /\ trcpt1' \in BOOLEAN /\ stallrq' \in BOOLEAN
           /\ isr' \in {"idle", "address", "lineCoding"}
           /\ outBuf' \in {outBuf, Nothing}
<1> USE DEF Types, Flags, Ok, Refuse, Return, settings
<1>1. CASE HandleStandardSetup
  <2>1. CASE GetStatus \/ ClearFeature \/ SetFeature
    BY <2>1 DEF GetStatus, ClearFeature, SetFeature
  <2>2. CASE SetAddress \/ GetDescriptor \/ SetDescriptor
    BY <2>2 DEF SetAddress, GetDescriptor, SetDescriptor
  <2>3. CASE GetConfiguration \/ SetConfiguration
    BY <2>3 DEF GetConfiguration, SetConfiguration
  <2>4. CASE GetInterface \/ SetInterface
    BY <2>4 DEF GetInterface, SetInterface
  <2> QED
    BY <1>1, <2>1, <2>2, <2>3, <2>4 DEF HandleStandardSetup
<1>2. CASE HandleClassInterfaceSetup
  BY <1>2 DEF HandleClassInterfaceSetup, GetLineCoding, SetLineCoding, SetControlLineState,
              SendBreak, OtherInterface, Touched
<1> QED
  BY <1>1, <1>2 DEF IsrAnswer

\* The flags stay flags, and the rest of the types.
LEMMA FlagsStep ==
    ASSUME Types, Next
    PROVE  Flags'
<1>0. Flags
  BY DEF Types
<1> USE <1>0 DEF Flags
<1>1. ASSUME NEW q \in Requests, HostSetup(q) PROVE Flags'
  BY <1>1, Zenon DEF HostSetup, devVars
<1>2. CASE HostOut
  BY <1>2, Zenon DEF HostOut, devVars
<1>3. CASE HostIn
  BY <1>3, Zenon DEF HostIn, devVars
<1>4. CASE HostStalled
  BY <1>4, Zenon DEF HostStalled, hwVars, devVars
<1>5. CASE HostStatusOut
  BY <1>5, Zenon DEF HostStatusOut, devVars
<1>6. CASE BusReset
  BY <1>6, Zenon DEF BusReset, devVars
<1>7. CASE InitDevice
  BY <1>7, Zenon DEF InitDevice, ResetRegisters, HostLosesDevice
<1>8. CASE Attach
  BY <1>8, Zenon DEF Attach, hostVars
<1>9. CASE Detach
  BY <1>9, Zenon DEF Detach, HostLosesDevice, devVars
<1>10. CASE IsrReset
  BY <1>10, Zenon DEF IsrReset, hostVars
<1>11. CASE IsrAnswer
  BY <1>11, HandlerTypes, Zenon DEF IsrAnswer, hostVars
<1>12. CASE IsrAddress
  BY <1>12, Zenon DEF IsrAddress, Return, settings, hostVars
<1>13. CASE IsrLineCoding
  BY <1>13, Zenon DEF IsrLineCoding, Return, hostVars, Touched
<1>14. CASE IsrSetup
  BY <1>14, Zenon DEF IsrSetup, hostVars
<1> QED
  BY <1>1, <1>2, <1>3, <1>4, <1>5, <1>6, <1>7, <1>8, <1>9, <1>10, <1>11, <1>12, <1>13, <1>14
  DEF Next, Host, Isr

LEMMA TypesStep ==
    ASSUME Types, Next
    PROVE  Types'
<1>0. Flags'
  BY FlagsStep DEF Types
<1> USE <1>0
<1>1. ASSUME NEW q \in Requests, HostSetup(q) PROVE Types'
  BY <1>1, SetupPuts DEF Types, HostSetup, devVars
<1>2. CASE HostOut
  BY <1>2 DEF Types, HostOut, devVars
<1>3. CASE HostIn
  BY <1>3 DEF Types, HostIn, devVars
<1>4. CASE HostStalled
  BY <1>4 DEF Types, HostStalled, hwVars, devVars
<1>5. CASE HostStatusOut
  BY <1>5 DEF Types, HostStatusOut, devVars
<1>6. CASE BusReset
  BY <1>6 DEF Types, BusReset, devVars
<1>7. CASE InitDevice
  BY <1>7 DEF Types, InitDevice, ResetRegisters, HostLosesDevice
<1>8. CASE Attach
  BY <1>8 DEF Types, Attach, hostVars
<1>9. CASE Detach
  BY <1>9 DEF Types, Detach, HostLosesDevice, devVars
<1>10. CASE IsrReset
  BY <1>10 DEF Types, IsrReset, hostVars
<1>11. CASE IsrAnswer
  <2>1. WellFormed(outBuf)'
    <3>1. WellFormed(outBuf) /\ WellFormed(Nothing)
      BY <1>11 DEF Types, IsrAnswer, WellFormed, Nothing
    <3> QED
      BY <1>11, <3>1, HandlerTypes
  <2> QED
    BY <1>11, <2>1, HandlerTypes DEF Types, IsrAnswer, hostVars
<1>12. CASE IsrAddress
  <2>1. WellFormed(outBuf)'
    BY <1>12 DEF IsrAddress, Return, Nothing, WellFormed
  <2> QED
    BY <1>12, <2>1 DEF Types, IsrAddress, Return, settings, hostVars
<1>13. CASE IsrLineCoding
  BY <1>13 DEF Types, IsrLineCoding, Return, hostVars, Touched, Nothing, WellFormed
<1>14. CASE IsrSetup
  BY <1>14 DEF Types, IsrSetup, hostVars
<1> QED
  BY <1>1, <1>2, <1>3, <1>4, <1>5, <1>6, <1>7, <1>8, <1>9, <1>10, <1>11, <1>12, <1>13, <1>14
  DEF Next, Host, Isr

\* What a step does to what the host has set.
LEMMA ResetTells ==
    ASSUME Types, BusReset
    PROVE  /\ \A f \in Names : told'[f] = IF f \in {"addr", "config"} THEN {0}
                                         ELSE IF stage # "idle" /\ Sets(req, f)
                                              THEN told[f] \cup {SetTo(req)} ELSE told[f]
           /\ told'.config = {0} /\ told'.addr = {0}
<1>1. DOMAIN told = Names
  BY DEF Types, Flags
<1>2. \A f \in Names : told'[f] = IF f \in {"addr", "config"} THEN {0}
                                  ELSE IF stage # "idle" /\ Sets(req, f)
                                       THEN told[f] \cup {SetTo(req)} ELSE told[f]
  BY <1>1 DEF BusReset
<1>3. "config" \in Names /\ "addr" \in Names
  BY DEF Names, Things
<1>4. told'["config"] = {0} /\ told'["addr"] = {0}
  BY <1>2, <1>3
<1> QED
  BY <1>2, <1>4

LEMMA StatusTells ==
    ASSUME Types, HostIn, stage = "statusIn"
    PROVE  /\ \A f \in Names : told'[f] = IF Sets(req, f) THEN {SetTo(req)} ELSE told[f]
           /\ req.kind = "SetAddress" => told'.addr = {req.value}
<1>1. DOMAIN told = Names
  BY DEF Types, Flags
<1>2. \A f \in Names : told'[f] = IF Sets(req, f) THEN {SetTo(req)} ELSE told[f]
  BY <1>1 DEF HostIn
<1> QED
  BY <1>2, SetsWhat DEF Names, Things, SetTo

LEMMA LoseTells ==
    ASSUME Types, HostLosesDevice
    PROVE  \A f \in Names : told'[f] = IF stage # "idle" /\ Sets(req, f)
                                        THEN told[f] \cup {SetTo(req)} ELSE told[f]
<1>1. DOMAIN told = Names
  BY DEF Types, Flags
<1> QED
  BY <1>1 DEF HostLosesDevice

LEMMA PhaseStep ==
    ASSUME Types, Phase, Waits, Next
    PROVE  Phase'
<1> USE DEF Types, Flags, Phase, Waits, Open, Asking, Names, Queries
<1>1. ASSUME NEW q \in Requests, HostSetup(q) PROVE Phase'
  BY <1>1, SetupPuts DEF HostSetup, devVars
<1>2. CASE HostOut
  BY <1>2 DEF HostOut, devVars
<1>3. CASE HostIn
  BY <1>3 DEF HostIn, devVars, Zlp
<1>4. CASE HostStalled
  BY <1>4 DEF HostStalled, hwVars, devVars
<1>5. CASE HostStatusOut
  BY <1>5 DEF HostStatusOut, devVars
<1>6. CASE BusReset
  BY <1>6, ResetTells DEF BusReset, devVars
<1>7. CASE InitDevice
  BY <1>7 DEF InitDevice, ResetRegisters, HostLosesDevice
<1>8. CASE Attach
  BY <1>8 DEF Attach, hostVars
<1>9. CASE Detach
  BY <1>9 DEF Detach, HostLosesDevice, devVars
<1>10. CASE IsrReset
  BY <1>10 DEF IsrReset, hostVars
<1>11. CASE IsrAnswer
  BY <1>11, HandlerEffects DEF IsrAnswer, hostVars, CarriedOut, Refused, WaitsForStatus, WaitsForData
<1>12. CASE IsrAddress
  BY <1>12 DEF IsrAddress, Return, settings, hostVars
<1>13. CASE IsrLineCoding
  BY <1>13 DEF IsrLineCoding, Return, hostVars
<1>14. CASE IsrSetup
  BY <1>14 DEF IsrSetup, hostVars
<1> QED
  BY <1>1, <1>2, <1>3, <1>4, <1>5, <1>6, <1>7, <1>8, <1>9, <1>10, <1>11, <1>12, <1>13, <1>14
  DEF Next, Host, Isr

LEMMA WaitsStep ==
    ASSUME Types, Phase, Waits, Next
    PROVE  Waits'
<1> USE DEF Types, Flags, Phase, Waits, Open, Asking, Names, Queries
<1>1. ASSUME NEW q \in Requests, HostSetup(q) PROVE Waits'
  BY <1>1, SetupPuts DEF HostSetup, devVars
<1>2. CASE HostOut
  BY <1>2 DEF HostOut, devVars
<1>3. CASE HostIn
  <2>1. CASE stage = "in"
    BY <1>3, <2>1 DEF HostIn, devVars
  <2>2. CASE stage = "statusIn"
    <3>1. req.kind = "SetLineCoding" => told'["line"] = {req.value}
      BY <1>3, <2>2, StatusTells, SetsWhat DEF Things, SetTo
    <3> QED
      BY <1>3, <2>2, <3>1, StatusTells DEF HostIn, devVars
  <2> QED
    BY <1>3, <2>1, <2>2 DEF HostIn
<1>4. CASE HostStalled
  BY <1>4 DEF HostStalled, hwVars, devVars
<1>5. CASE HostStatusOut
  BY <1>5 DEF HostStatusOut, devVars
<1>6. CASE BusReset
  BY <1>6, ResetTells DEF BusReset, devVars
<1>7. CASE InitDevice
  BY <1>7 DEF InitDevice, ResetRegisters, HostLosesDevice
<1>8. CASE Attach
  BY <1>8 DEF Attach, hostVars
<1>9. CASE Detach
  BY <1>9 DEF Detach, HostLosesDevice, devVars
<1>10. CASE IsrReset
  BY <1>10 DEF IsrReset, hostVars
<1>11. CASE IsrAnswer
  <2>1. CarriedOut \/ Refused \/ WaitsForStatus \/ WaitsForData
    BY <1>11, HandlerEffects DEF IsrAnswer
  <2>2. UNCHANGED <<told, connected, stage, req, ep0, rxstp>> /\ isr = "setup" /\ ~rxstp
    BY <1>11 DEF IsrAnswer, hostVars
  <2>3. CASE CarriedOut \/ Refused
    BY <2>2, <2>3 DEF CarriedOut, Refused
  <2>4. CASE WaitsForStatus
    BY <2>2, <2>4 DEF WaitsForStatus
  <2>5. CASE WaitsForData
    BY <2>2, <2>5 DEF WaitsForData
  <2> QED
    BY <2>1, <2>3, <2>4, <2>5
<1>12. CASE IsrAddress
  BY <1>12 DEF IsrAddress, Return, settings, hostVars
<1>13. CASE IsrLineCoding
  BY <1>13 DEF IsrLineCoding, Return, hostVars
<1>14. CASE IsrSetup
  BY <1>14 DEF IsrSetup, hostVars
<1> QED
  BY <1>1, <1>2, <1>3, <1>4, <1>5, <1>6, <1>7, <1>8, <1>9, <1>10, <1>11, <1>12, <1>13, <1>14
  DEF Next, Host, Isr

\* A step that leaves the device's values alone.
Values == <<configuration, setInterface, line, lineState, halt, wakeUp>>

LEMMA SameHeld ==
    ASSUME UNCHANGED Values
    PROVE  Keeps
BY DEF Values, Keeps, Held

\* How the agreement on a thing carries over.
LEMMA FitsStatic ==
    \A f : /\ Fitting(f) => Reaching(f)
           /\ stage = "idle" \/ ~Sets(req, f) => (Reaching(f) => Fitting(f))
BY DEF Fitting, Reaching, Fits, Pending

LEMMA FitsReaches ==
    \A f : Fitting(f)' => Reaching(f)'
BY DEF Fitting, Reaching, Fits

LEMMA FitsSame ==
    ASSUME NEW f, Held(f)' = Held(f), f = "config" => reattached' = reattached
    PROVE  /\ told'[f] = told[f] => (Fitting(f)' <=> Fitting(f))
           /\ told'[f] = told[f] \cup Pending(f) => (Reaching(f) => Fitting(f)')
           /\ told'[f] = {SetTo(req)} => (Reached(f) => Fitting(f)')
           /\ told'[f] = told[f] /\ req' = req /\ stage # "idle" /\ stage' # "idle" =>
                 (Reaching(f)' <=> Reaching(f)) /\ (Reached(f)' <=> Reached(f))
BY DEF Fitting, Reaching, Reached, Fits, Pending

\* The request in the bank is the transfer's.
LEMMA SameRequest ==
    ASSUME Phase, Asking, req.kind # "SetLineCoding"
    PROVE  SetTo(outBuf) = SetTo(req) /\ \A f : Sets(outBuf, f) <=> Sets(req, f)
<1>1. outBuf.kind = req.kind /\ outBuf.recipient = req.recipient /\ outBuf.value = req.value
  BY DEF Phase
<1> QED
  BY <1>1, SetsWhat DEF SetTo

\* A bus reset, or a device that is gone: what may have been set counts as told.
LEMMA CutShort ==
    ASSUME Types, Phase, NEW f \in Things, AgreeOn(f), f # "config",
           Held(f)' = Held(f), stage' = "idle", told'[f] = told[f] \cup Pending(f),
           outBuf' = outBuf \/ isr = "idle", isr' = isr,
           ~rxstp' \/ (rxstp /\ outBuf' = outBuf)
    PROVE  AgreeOn(f)'
<1>1. Reaching(f) => Fitting(f)'
  BY FitsSame
<1>2. Late(f) => Late(f)'
  BY DEF Late, Phase
<1>3. Live(f)' /\ ~Late(f)' => Reaching(f)'
  BY <1>1, <1>2, FitsReaches DEF AgreeOn, Live
<1>4. ASSUME Open', Sets(outBuf, f)', f # "line" PROVE Told(f)'
  <2>1. Open /\ outBuf' = outBuf /\ Sets(outBuf, f)
    BY <1>4 DEF Open
  <2>2. CASE stage = "idle"
    BY <2>1, <2>2, <1>4 DEF AgreeOn, Live, Told
  <2>3. CASE stage # "idle"
    <3>1. outBuf.kind # "SetLineCoding"
      BY <2>1, <1>4, SetsWhat
    <3>2. req.kind # "SetLineCoding"
      BY <2>1, <2>3, <3>1 DEF Phase, Asking
    <3>3. SetTo(outBuf) \in Pending(f)
      BY <2>1, <2>3, <3>2, SameRequest DEF Asking, Pending
    <3> QED
      BY <2>1, <3>3 DEF Told
  <2> QED
    BY <2>2, <2>3
<1> QED
  BY <1>3, <1>4 DEF AgreeOn

\* A step that changes nothing of it.
LEMMA Unmoved ==
    ASSUME NEW f, AgreeOn(f), Held(f)' = Held(f), f = "config" => reattached' = reattached,
           UNCHANGED <<told, connected, eorst, stage, req, Open, Handled, stallrq, outBuf>>,
           Late(f) => Late(f)'
    PROVE  AgreeOn(f)'
<1>1. (Fitting(f)' <=> Fitting(f)) /\ (stage # "idle" => (Reaching(f)' <=> Reaching(f))
                                                      /\ (Reached(f)' <=> Reached(f)))
  BY FitsSame
<1>2. stage = "idle" => (Reaching(f) => Reaching(f)')
  BY <1>1, FitsStatic, FitsReaches
<1> QED
  BY <1>1, <1>2 DEF AgreeOn, Live, Told

\* The handler carries the request out, refuses it, or begins to wait.
LEMMA AnswerAgrees ==
    ASSUME Types, Phase, NEW f \in Things, AgreeOn(f), IsrAnswer
    PROVE  AgreeOn(f)'
<1>1. CarriedOut \/ Refused \/ WaitsForStatus \/ WaitsForData
  BY HandlerEffects DEF IsrAnswer, Types, Flags
<1>2. UNCHANGED <<told, connected, stage, req, eorst>> /\ isr = "setup" /\ Open /\ ~rxstp'
  BY DEF IsrAnswer, hostVars, Phase, Open
<1>3. ~Open' /\ (Live(f)' <=> Live(f))
  BY <1>1, <1>2 DEF CarriedOut, Refused, WaitsForStatus, WaitsForData, Open, Live
<1>4. stage # "idle" => Asking /\ Fitting(f)
  BY <1>2 DEF AgreeOn, Asking
<1>5. ASSUME ~Sets(outBuf, f), Held(f)' = Held(f), f = "config" => reattached' = reattached
      PROVE  /\ Live(f) \/ stage # "idle" => Fitting(f)' /\ Reaching(f)'
             /\ req.kind # "SetLineCoding" /\ stage # "idle" => ~Sets(req, f)
  <2>1. Live(f) \/ stage # "idle" => Fitting(f)
    BY <1>2, <1>4, <1>5, FitsStatic DEF AgreeOn, Late
  <2>2. Fitting(f)' <=> Fitting(f)
    BY <1>2, <1>5, FitsSame
  <2>3. req.kind # "SetLineCoding" /\ stage # "idle" => ~Sets(req, f)
    BY <1>4, <1>5, SameRequest
  <2> QED
    BY <2>1, <2>2, <2>3, FitsReaches
<1>6. CASE CarriedOut
  <2>1. outBuf.kind # "SetLineCoding" /\ stallrq' = stallrq /\ isr' = "idle" /\ ~Late(f)'
    BY <1>6 DEF CarriedOut, Late
  <2>2. stage # "idle" => ~stallrq /\ req.kind # "SetLineCoding"
    BY <1>4, <2>1 DEF Phase
  <2>3. Held(f)' = IF Takes(outBuf, f) THEN SetTo(outBuf) ELSE Held(f)
    BY <1>6 DEF CarriedOut
  <2>4. CASE Sets(outBuf, f)
    <3>1. \/ Held(f)' = SetTo(outBuf)
          \/ f = "wakeUp" /\ SetTo(outBuf) = 2
      <4>1. CASE Takes(outBuf, f)
        BY <2>3, <4>1
      <4>2. CASE ~Takes(outBuf, f)
        <5>1. outBuf.kind = "ClearFeature" /\ f = "wakeUp" /\ outBuf.value = 1
          BY <2>4, <4>2, SetsWhat DEF Takes
        <5> QED
          BY <5>1 DEF SetTo
      <4> QED
        BY <4>1, <4>2
    <3>2. CASE stage = "idle"
      <4>1. Live(f) => SetTo(outBuf) \in told[f]
        BY <1>2, <2>1, <2>4, <3>2, SetsWhat DEF AgreeOn, Told
      <4>2. Live(f) => Fitting(f)'
        BY <1>2, <3>1, <4>1 DEF Fitting, Fits
      <4> QED
        BY <1>2, <1>3, <3>2, <4>2, FitsReaches DEF AgreeOn
    <3>3. CASE stage # "idle"
      <4>1. Sets(req, f) /\ SetTo(req) = SetTo(outBuf)
        BY <1>4, <2>2, <2>4, <3>3, SameRequest
      <4>2. Pending(f)' = {SetTo(outBuf)} /\ SetTo(req)' = SetTo(outBuf)
        BY <1>2, <3>3, <4>1 DEF Pending
      <4>3. Reaching(f)' /\ Reached(f)'
        BY <3>1, <4>2 DEF Reaching, Reached, Fits
      <4> QED
        BY <1>2, <1>3, <2>1, <2>2, <3>3, <4>3 DEF AgreeOn
    <3> QED
      BY <3>2, <3>3
  <2>5. CASE ~Sets(outBuf, f)
    <3>1. Held(f)' = Held(f) /\ (f = "config" => reattached' = reattached)
      BY <1>6, <2>3, <2>5 DEF CarriedOut, Takes
    <3> QED
      BY <1>2, <1>3, <1>5, <2>1, <2>2, <2>5, <3>1 DEF AgreeOn
  <2> QED
    BY <2>4, <2>5
<1>7. CASE Refused
  <2>1. ~Sets(outBuf, f) /\ Held(f)' = Held(f) /\ reattached' = reattached /\ stallrq'
    BY <1>7 DEF Refused, Keeps
  <2> QED
    BY <1>2, <1>3, <1>5, <2>1 DEF AgreeOn, Handled
<1>8. CASE WaitsForStatus
  <2>1. ~Sets(outBuf, f) /\ Held(f)' = Held(f) /\ reattached' = reattached
    BY <1>8, SetsWhat DEF WaitsForStatus, Keeps, Things
  <2>2. stage # "idle" => req.kind # "SetLineCoding"
    BY <1>4, <1>8 DEF WaitsForStatus, Phase
  <2> QED
    BY <1>2, <1>3, <1>5, <2>1, <2>2 DEF AgreeOn
<1>9. CASE WaitsForData
  <2>1. Held(f)' = Held(f) /\ reattached' = reattached /\ isr' = "lineCoding"
    BY <1>9 DEF WaitsForData, Keeps
  <2>2. f # "line" => ~Sets(outBuf, f)
    BY <1>9, SetsWhat DEF WaitsForData
  <2>3. CASE f # "line"
    BY <1>2, <1>3, <1>5, <2>1, <2>2, <2>3 DEF AgreeOn, Handled
  <2>4. CASE f = "line"
    <3>1. stage = "idle" => Late(f)'
      BY <1>2, <2>1, <2>4 DEF Late
    <3>2. stage # "idle" => Fitting(f)' /\ Reaching(f)'
      BY <1>2, <1>4, <2>1, FitsSame, FitsReaches
    <3> QED
      BY <1>2, <1>3, <2>1, <3>1, <3>2 DEF AgreeOn, Handled
  <2> QED
    BY <2>3, <2>4
<1> QED
  BY <1>1, <1>6, <1>7, <1>8, <1>9

LEMMA AgreeOnStep ==
    ASSUME Types, Phase, Waits, Agree, Next, NEW f \in Things
    PROVE  AgreeOn(f)'
<1>1. AgreeOn(f) /\ f \in Names
  BY DEF Agree, Names
<1>2. ASSUME UNCHANGED Values PROVE Held(f)' = Held(f)
  BY <1>2, SameHeld DEF Keeps
<1>3. ASSUME NEW q \in Requests, HostSetup(q) PROVE AgreeOn(f)'
  <2>1. Held(f)' = Held(f)
    BY <1>2, <1>3 DEF HostSetup, devVars, Values
  <2>2. stage = "idle" /\ isr = "idle" /\ connected /\ ~eorst
    BY <1>3 DEF HostSetup, Phase
  <2>3. Fitting(f)
    BY <1>1, <2>2, FitsStatic DEF AgreeOn, Live, Late
  <2>4. Fitting(f)' /\ Reaching(f)'
    BY <1>3, <2>1, <2>3, FitsSame, FitsReaches DEF HostSetup
  <2> QED
    BY <1>3, <2>4 DEF HostSetup, AgreeOn, Handled, Open
<1>4. CASE HostOut
  <2>1. Held(f)' = Held(f)
    BY <1>2, <1>4 DEF HostOut, devVars, Values
  <2>2. /\ stage = "out" /\ stage' = "statusIn" /\ ~Open /\ ~Open' /\ isr' = "lineCoding"
        /\ UNCHANGED <<told, req, stallrq, connected, eorst, reattached>>
    BY <1>4 DEF HostOut, Open, Phase, devVars
  <2>3. (Fitting(f)' <=> Fitting(f)) /\ (Reaching(f)' <=> Reaching(f))
    BY <2>1, <2>2, FitsSame
  <2> QED
    BY <1>1, <2>2, <2>3 DEF AgreeOn, Live, Late, Handled
<1>5. CASE HostIn
  <2>1. Held(f)' = Held(f)
    BY <1>2, <1>5 DEF HostIn, devVars, Values
  <2>2. /\ ~rxstp /\ ~stallrq /\ bk1rdy
        /\ UNCHANGED <<rxstp, isr, stallrq, connected, eorst, reattached, outBuf>>
    BY <1>5 DEF HostIn, devVars
  <2>3. CASE stage = "in"
    <3>1. told' = told /\ req' = req /\ stage' = "statusOut"
      BY <1>5, <2>3 DEF HostIn
    <3>2. (Fitting(f)' <=> Fitting(f)) /\ (Reaching(f)' <=> Reaching(f))
      BY <2>1, <2>2, <2>3, <3>1, FitsSame
    <3> QED
      BY <1>1, <2>2, <2>3, <3>1, <3>2 DEF AgreeOn, Live, Late, Open
  <2>4. CASE stage = "statusIn"
    <3>1. stage' = "idle" /\ told'[f] = IF Sets(req, f) THEN {SetTo(req)} ELSE told[f]
      BY <1>1, <1>5, <2>4, StatusTells DEF HostIn
    <3>2. isr = "setup" => req.kind # "SetLineCoding" /\ Asking
      BY <2>4 DEF Phase, Asking, Open
    <3>3. CASE ~Sets(req, f)
      <4>1. Live(f) => Fitting(f)
        BY <1>1, <2>4, <3>3, FitsStatic DEF AgreeOn, Late
      <4>2. Live(f)' => Reaching(f)'
        BY <2>1, <2>2, <3>1, <3>3, <4>1, FitsSame, FitsReaches DEF Live
      <4>3. Open' => ~Sets(outBuf, f)'
        BY <2>2, <3>2, <3>3, SameRequest DEF Open
      <4> QED
        BY <3>1, <4>2, <4>3 DEF AgreeOn
    <3>4. CASE Sets(req, f) /\ isr = "setup"
      <4>1. Sets(outBuf, f)' /\ SetTo(outBuf)' = SetTo(req)
        BY <2>2, <3>2, <3>4, SameRequest
      <4>2. Told(f)'
        BY <3>1, <3>4, <4>1 DEF Told
      <4>3. f # "line"
        BY <3>2, <3>4, SetsWhat
      <4>4. Late(f)'
        BY <2>2, <3>1, <3>4, <4>1, <4>3 DEF Late
      <4> QED
        BY <3>1, <4>2, <4>4 DEF AgreeOn
    <3>5. CASE Sets(req, f) /\ isr = "lineCoding"
      <4>1. f = "line"
        BY <2>4, <3>5, SetsWhat DEF Waits
      <4> QED
        BY <2>2, <3>1, <3>5, <4>1 DEF AgreeOn, Late, Open
    <3>6. CASE Sets(req, f) /\ isr \notin {"setup", "lineCoding"}
      <4>1. Reached(f)
        BY <1>1, <2>2, <2>4, <3>6 DEF AgreeOn, Handled, Open
      <4>2. Reaching(f)'
        BY <2>1, <2>2, <3>1, <3>6, <4>1, FitsSame, FitsReaches
      <4> QED
        BY <2>2, <3>1, <3>6, <4>2 DEF AgreeOn, Open
    <3> QED
      BY <3>3, <3>4, <3>5, <3>6
  <2> QED
    BY <1>5, <2>3, <2>4 DEF HostIn
<1>6. CASE HostStalled
  <2>1. Held(f)' = Held(f)
    BY <1>2, <1>6 DEF HostStalled, devVars, Values
  <2>2. /\ stage # "idle" /\ stage' = "idle" /\ stallrq /\ ~Open /\ ~Open'
        /\ UNCHANGED <<told, reattached>>
    BY <1>6 DEF HostStalled, hwVars, devVars, Phase, Asking, Open
  <2>3. Reaching(f)'
    BY <1>1, <2>1, <2>2, FitsSame, FitsReaches DEF AgreeOn
  <2> QED
    BY <2>2, <2>3 DEF AgreeOn
<1>7. CASE HostStatusOut
  <2>1. Held(f)' = Held(f)
    BY <1>2, <1>7 DEF HostStatusOut, devVars, Values
  <2>2. /\ stage = "statusOut" /\ stage' = "idle"
        /\ UNCHANGED <<told, reattached, outBuf, isr, rxstp, connected, eorst>>
    BY <1>7 DEF HostStatusOut, devVars
  <2>3. ~Sets(req, f) /\ (Open => ~Sets(outBuf, f))
    BY <2>2, SetsWhat DEF Phase, Asking, Queries
  <2>4. Live(f)' => Reaching(f)'
    BY <1>1, <2>1, <2>2, <2>3, FitsStatic, FitsSame, FitsReaches DEF AgreeOn, Late, Live
  <2> QED
    BY <2>2, <2>3, <2>4 DEF AgreeOn, Open
<1>8. CASE BusReset
  <2>1. Held(f)' = Held(f)
    BY <1>2, <1>8 DEF BusReset, devVars, Values
  <2>2. stage' = "idle" /\ ~rxstp' /\ isr' = isr /\ (outBuf' = outBuf \/ isr = "idle") /\ eorst'
    BY <1>8 DEF BusReset, devVars
  <2>3. CASE f = "config"
    BY <2>2, <2>3 DEF AgreeOn, Live
  <2>4. CASE f # "config"
    <3>1. told'[f] = told[f] \cup Pending(f)
      BY <1>1, <1>8, <2>4, ResetTells DEF Pending, Things
    <3> QED
      BY <1>1, <2>1, <2>2, <2>4, <3>1, CutShort
  <2> QED
    BY <2>3, <2>4
<1>9. CASE InitDevice
  <2>1. Held(f)' = Held(f)
    BY <1>2, <1>9 DEF InitDevice, Values
  <2>2. stage' = "idle" /\ ~rxstp' /\ isr' = isr /\ isr = "idle" /\ ~connected'
    BY <1>9 DEF InitDevice, ResetRegisters, HostLosesDevice
  <2>3. told'[f] = told[f] \cup Pending(f)
    BY <1>1, <1>9, LoseTells DEF InitDevice, Pending
  <2>4. CASE f = "config"
    BY <2>2, <2>4 DEF AgreeOn, Live
  <2>5. CASE f # "config"
    BY <1>1, <2>1, <2>2, <2>3, <2>5, CutShort
  <2> QED
    BY <2>4, <2>5
<1>10. CASE Attach
  <2>1. isr = "idle" /\ ~rxstp /\ reattached' = attached
        /\ UNCHANGED <<told, connected, eorst, stage, req, isr, rxstp, bk1rdy, stallrq, outBuf>>
    BY <1>10 DEF Attach, hostVars
  <2>2. CASE f # "config"
    <3>1. Held(f)' = Held(f)
      BY <1>10, <2>2 DEF Attach, Held, Things
    <3> QED
      BY <1>1, <2>1, <2>2, <3>1, Unmoved DEF Open, Handled, Late
  <2>3. CASE f = "config"
    <3>1. Held(f)' = 0
      BY <1>10, <2>3 DEF Attach, Held
    <3>2. connected => Reaching(f)' /\ Fitting(f)' /\ Reached(f)'
      BY <2>1, <2>3, <3>1 DEF Reaching, Fitting, Reached, Fits, Phase
    <3> QED
      BY <2>1, <2>3, <3>2 DEF AgreeOn, Live, Open, Phase
  <2> QED
    BY <2>2, <2>3
<1>11. CASE Detach
  <2>1. Held(f)' = Held(f)
    BY <1>2, <1>11 DEF Detach, devVars, Values
  <2>2. /\ stage' = "idle" /\ isr' = isr /\ isr = "idle" /\ ~connected'
        /\ UNCHANGED <<rxstp, outBuf>>
    BY <1>11 DEF Detach, HostLosesDevice, devVars
  <2>3. told'[f] = told[f] \cup Pending(f)
    BY <1>1, <1>11, LoseTells DEF Detach, Pending
  <2>4. CASE f = "config"
    BY <2>2, <2>4 DEF AgreeOn, Live
  <2>5. CASE f # "config"
    BY <1>1, <2>1, <2>2, <2>3, <2>5, CutShort
  <2> QED
    BY <2>4, <2>5
<1>12. CASE IsrReset
  <2>1. /\ stage = "idle" /\ isr = "idle" /\ told["config"] = {0}
        /\ UNCHANGED <<told, connected, stage, req, isr, rxstp, bk1rdy, stallrq, outBuf, reattached>>
    BY <1>12 DEF IsrReset, hostVars, Phase
  <2>2. CASE f # "config"
    <3>1. Held(f)' = Held(f)
      BY <1>12, <2>2 DEF IsrReset, Held, Things
    <3>2. (Fitting(f)' <=> Fitting(f)) /\ (Fitting(f)' => Reaching(f)')
      BY <2>1, <3>1, FitsSame, FitsReaches
    <3> QED
      BY <1>1, <2>1, <2>2, <3>2, FitsStatic DEF AgreeOn, Live, Late, Open, Told
  <2>3. CASE f = "config"
    <3>1. Held(f)' = 0
      BY <1>12, <2>3 DEF IsrReset, Held
    <3>2. Reaching(f)'
      BY <2>1, <2>3, <3>1 DEF Reaching, Fits
    <3> QED
      BY <2>1, <2>3, <3>2 DEF AgreeOn, Live, Open, Phase
  <2> QED
    BY <2>2, <2>3
<1>13. CASE IsrSetup
  <2>1. Held(f)' = Held(f)
    BY <1>2, <1>13 DEF IsrSetup, Values
  <2>2. UNCHANGED <<told, connected, eorst, stage, req, stallrq, outBuf, reattached>>
    BY <1>13 DEF IsrSetup, hostVars
  <2>3. Open /\ Open' /\ isr = "idle"
    BY <1>13 DEF IsrSetup, Open
  <2> QED
    BY <1>1, <2>1, <2>2, <2>3, Unmoved DEF Handled, Late
<1>14. CASE IsrAnswer
  BY <1>1, <1>14, AnswerAgrees
<1>15. CASE IsrAddress
  <2>1. Held(f)' = Held(f)
    BY <1>2, <1>15 DEF IsrAddress, settings, Values
  <2>2. /\ stage = "idle" /\ isr = "address" /\ ~Open'
        /\ UNCHANGED <<told, connected, eorst, stage, req, stallrq, reattached>>
    BY <1>15 DEF IsrAddress, Return, settings, hostVars, Waits, Phase, Open
  <2>3. Live(f)' => Reaching(f)'
    BY <1>1, <2>1, <2>2, FitsStatic, FitsSame, FitsReaches DEF AgreeOn, Late, Live
  <2> QED
    BY <2>2, <2>3 DEF AgreeOn
<1>16. CASE IsrLineCoding
  <2>1. /\ isr = "lineCoding" /\ isr' = "idle" /\ ~Open' /\ bk0rdy /\ trcpt0
        /\ UNCHANGED <<told, connected, eorst, stage, req, stallrq, reattached>>
    BY <1>16 DEF IsrLineCoding, Return, hostVars, Phase, Open
  <2>2. Held(f)' = IF f = "line" THEN outBuf.value ELSE Held(f)
    BY <1>16 DEF IsrLineCoding, Held, Things
  <2>3. CASE stage = "idle"
    <3>1. CASE f = "line"
      <4>1. outBuf.value \in told["line"]
        BY <2>1, <2>3 DEF Waits
      <4>2. Fitting(f)'
        BY <2>1, <2>2, <3>1, <4>1 DEF Fitting, Fits
      <4> QED
        BY <2>1, <2>3, <4>2, FitsReaches DEF AgreeOn
    <3>2. CASE f # "line"
      <4>1. Live(f)' => Reaching(f)'
        BY <1>1, <2>1, <2>2, <2>3, <3>2, FitsStatic, FitsSame, FitsReaches DEF AgreeOn, Late, Live
      <4> QED
        BY <2>1, <2>3, <4>1 DEF AgreeOn
    <3> QED
      BY <3>1, <3>2
  <2>4. CASE stage # "idle"
    <3>1. stage = "statusIn" /\ req.kind = "SetLineCoding" /\ outBuf.value = req.value /\ ~stallrq
      BY <2>1, <2>4 DEF Waits
    <3>2. Sets(req, f) <=> f = "line"
      BY <3>1, SetsWhat
    <3>3. CASE f = "line"
      <4>1. SetTo(req) = outBuf.value /\ SetTo(req)' = outBuf.value /\ Pending(f)' = {outBuf.value}
        BY <2>1, <3>1, <3>2, <3>3 DEF SetTo, Pending
      <4>2. Reaching(f)' /\ Reached(f)'
        BY <2>2, <3>3, <4>1 DEF Reaching, Reached, Fits
      <4> QED
        BY <2>1, <3>1, <4>2 DEF AgreeOn
    <3>4. CASE f # "line"
      <4>1. Live(f)' => Reaching(f)'
        BY <1>1, <2>1, <2>2, <2>4, <3>4, FitsSame DEF AgreeOn, Late, Live
      <4> QED
        BY <2>1, <3>1, <3>2, <3>4, <4>1 DEF AgreeOn
    <3> QED
      BY <3>3, <3>4
  <2> QED
    BY <2>3, <2>4
<1> QED
  BY <1>3, <1>4, <1>5, <1>6, <1>7, <1>8, <1>9, <1>10, <1>11, <1>12, <1>13, <1>14, <1>15, <1>16
  DEF Next, Host, Isr

LEMMA NumberedStep ==
    ASSUME Types, Phase, Waits, Numbered, Next
    PROVE  Numbered'
<1> USE DEF Types, Flags, Phase, Waits, Open, Asking, Numbered, Names
<1>1. ASSUME NEW q \in Requests, HostSetup(q) PROVE Numbered'
  BY <1>1 DEF HostSetup, devVars
<1>2. CASE HostOut
  BY <1>2 DEF HostOut, devVars
<1>3. CASE HostIn
  <2>1. UNCHANGED <<connected, isr, addr, countdown, line, lineState, outBuf>>
    BY <1>3 DEF HostIn, devVars
  <2>2. CASE stage = "in"
    BY <1>3, <2>1, <2>2 DEF HostIn
  <2>3. CASE stage = "statusIn" /\ req.kind = "SetAddress"
    BY <1>3, <2>1, <2>3 DEF HostIn
  <2>4. CASE stage = "statusIn" /\ req.kind # "SetAddress"
    <3>1. told'["addr"] = told["addr"]
      BY <1>3, <2>4, StatusTells, SetsWhat
    <3> QED
      BY <2>1, <3>1
  <2> QED
    BY <1>3, <2>2, <2>3, <2>4 DEF HostIn
<1>4. CASE HostStalled
  BY <1>4 DEF HostStalled, hwVars, devVars
<1>5. CASE HostStatusOut
  BY <1>5 DEF HostStatusOut, devVars
<1>6. CASE BusReset
  BY <1>6, ResetTells DEF BusReset, devVars
<1>7. CASE InitDevice
  BY <1>7 DEF InitDevice, HostLosesDevice
<1>8. CASE Attach
  BY <1>8 DEF Attach, hostVars
<1>9. CASE Detach
  BY <1>9 DEF Detach, HostLosesDevice, devVars
<1>10. CASE IsrReset
  BY <1>10 DEF IsrReset, hostVars
<1>11. CASE IsrAnswer
  BY <1>11, HandlerEffects DEF IsrAnswer, hostVars, CarriedOut, Refused,
     WaitsForStatus, WaitsForData
<1>12. CASE IsrAddress
  BY <1>12 DEF IsrAddress, Return, settings, hostVars
<1>13. CASE IsrLineCoding
  BY <1>13 DEF IsrLineCoding, Return, hostVars, Touched
<1>14. CASE IsrSetup
  BY <1>14 DEF IsrSetup, hostVars
<1> QED
  BY <1>1, <1>2, <1>3, <1>4, <1>5, <1>6, <1>7, <1>8, <1>9, <1>10, <1>11, <1>12, <1>13, <1>14
  DEF Next, Host, Isr

\* The packet of a query that has been handled.
LEMMA QueryPacket ==
    ASSUME Types, Phase, Agree, Asking, CarriedOut, stage \in {"in", "statusOut"}
    PROVE  ~in1'.zlp /\ in1'.value \in Truth(req)
<1>1. outBuf.kind = req.kind /\ req.kind \in Queries /\ ~in1'.zlp
  BY DEF Phase, Asking, CarriedOut
<1>2. \A f \in Things : Fits(f, told[f])
  BY DEF Asking, Agree, AgreeOn, Fitting
<1>3. /\ configuration \in told.config \/ (reattached /\ configuration = 0)
      /\ setInterface \in told.setting /\ line \in told.line /\ halt \in told.halt
  <2>1. {"config", "setting", "line", "halt"} \subseteq Things
    BY DEF Things
  <2>2. Fits("config", told.config) /\ Fits("setting", told.setting)
        /\ Fits("line", told.line) /\ Fits("halt", told.halt)
    BY <1>2, <2>1
  <2> QED
    BY <2>2 DEF Fits, Held
<1> QED
  BY <1>1, <1>3 DEF CarriedOut, Queries, Truth

LEMMA PacketsStep ==
    ASSUME Types, Phase, Waits, Agree, Packets, Next
    PROVE  Packets'
<1> USE DEF Types, Flags, Phase, Waits, Packets, Open, Asking, Handled, AnswerTrue
<1>1. ASSUME NEW q \in Requests, HostSetup(q) PROVE Packets'
  <2>1. Open' /\ stage' # "statusOut"
    BY <1>1 DEF HostSetup
  <2> QED
    BY <2>1, Zenon DEF Packets, Handled, AnswerTrue
<1>2. CASE HostOut
  BY <1>2 DEF HostOut, devVars
<1>3. CASE HostIn
  <2>1. CASE stage = "in"
    BY <1>3, <2>1 DEF HostIn, Truth
  <2>2. CASE stage = "statusIn"
    BY <1>3, <2>2 DEF HostIn
  <2> QED
    BY <1>3, <2>1, <2>2 DEF HostIn
<1>4. CASE HostStalled
  BY <1>4 DEF HostStalled, hwVars
<1>5. CASE HostStatusOut
  BY <1>5 DEF HostStatusOut
<1>6. CASE BusReset
  BY <1>6, ResetTells DEF BusReset
<1>7. CASE InitDevice
  BY <1>7 DEF InitDevice, HostLosesDevice
<1>8. CASE Attach
  <2>1. /\ stage # "idle" => reattached'
        /\ UNCHANGED <<told, stage, req, answer, isr, rxstp, stallrq, bk1rdy, in1>>
    BY <1>8 DEF Attach, hostVars
  <2>2. ASSUME req.kind \in Queries, stage # "idle" PROVE Truth(req) \subseteq Truth(req)'
    BY <2>1, <2>2 DEF Truth, Queries
  <2> QED
    BY <2>1, <2>2
<1>9. CASE Detach
  BY <1>9 DEF Detach, HostLosesDevice
<1>10. CASE IsrReset
  BY <1>10 DEF IsrReset, hostVars, Truth
<1>11. CASE IsrAnswer
  <2> HIDE DEF Types, Flags, Waits, AnswerTrue
  <2>1. CarriedOut \/ Refused \/ WaitsForStatus \/ WaitsForData
    BY <1>11, HandlerEffects DEF IsrAnswer, Types, Flags
  <2>2. UNCHANGED <<told, connected, stage, req, answer>> /\ isr = "setup" /\ ~rxstp'
    BY <1>11 DEF IsrAnswer, hostVars
  <2>3. CASE stage = "idle"
    BY <2>2, <2>3 DEF AnswerTrue
  <2>4. CASE stage # "idle"
    <3>1. Asking /\ outBuf.kind = req.kind
      BY <2>2, <2>4
    <3>2. CASE CarriedOut
      <4>1. stage \in {"in", "statusOut"} => reattached' = reattached
        BY <3>1, <3>2, SetsWhat DEF CarriedOut, Queries
      <4>2. stage \in {"in", "statusOut"} => (Truth(req)' = Truth(req)) /\ (AnswerTrue' <=> AnswerTrue)
        <5>1. stage \in {"in", "statusOut"} => req.kind \in Queries
          BY <2>4
        <5>2. stage \in {"in", "statusOut"} => Truth(req)' = Truth(req)
          BY <2>2, <4>1, <5>1 DEF Truth, Queries
        <5> QED
          BY <2>2, <5>2 DEF AnswerTrue
      <4>3. stage = "in" => ~in1'.zlp /\ in1'.value \in Truth(req)'
        BY <3>1, <3>2, <4>2, QueryPacket
      <4>4. AnswerTrue'
        BY <2>2, <4>2 DEF AnswerTrue
      <4> QED
        BY <2>2, <3>2, <4>3, <4>4 DEF CarriedOut
    <3>3. CASE Refused
      <4>1. AnswerTrue'
        BY <2>2, <3>3 DEF Refused, AnswerTrue, Truth
      <4> QED
        BY <3>3, <4>1 DEF Refused
    <3>4. CASE WaitsForStatus
      <4>1. stage = "statusIn" /\ in1'.fresh
        BY <3>1, <3>4 DEF WaitsForStatus, Queries, Types, Flags
      <4> QED
        BY <2>2, <4>1 DEF AnswerTrue
    <3>5. CASE WaitsForData
      <4>1. stage = "out" /\ isr' = "lineCoding"
        BY <3>1, <3>5 DEF WaitsForData, Queries, Types, Flags
      <4> QED
        BY <2>2, <4>1 DEF AnswerTrue
    <3> QED
      BY <2>1, <3>2, <3>3, <3>4, <3>5
  <2> QED
    BY <2>3, <2>4
<1>12. CASE IsrAddress
  BY <1>12 DEF IsrAddress, Return, settings, hostVars
<1>13. CASE IsrLineCoding
  BY <1>13 DEF IsrLineCoding, Return, hostVars, SendZlp, Queries
<1>14. CASE IsrSetup
  BY <1>14 DEF IsrSetup, hostVars, Truth
<1> QED
  BY <1>1, <1>2, <1>3, <1>4, <1>5, <1>6, <1>7, <1>8, <1>9, <1>10, <1>11, <1>12, <1>13, <1>14
  DEF Next, Host, Isr

LEMMA ConfiguredStep ==
    ASSUME Types, ConfiguredIsSetUp, Next
    PROVE  ConfiguredIsSetUp'
<1> USE DEF ConfiguredIsSetUp
<1>1. ASSUME NEW q \in Requests, HostSetup(q) PROVE ConfiguredIsSetUp'
  BY <1>1 DEF HostSetup, devVars
<1>2. CASE HostOut
  BY <1>2 DEF HostOut, devVars
<1>3. CASE HostIn
  BY <1>3 DEF HostIn, devVars
<1>4. CASE HostStalled
  BY <1>4 DEF HostStalled, hwVars, devVars
<1>5. CASE HostStatusOut
  BY <1>5 DEF HostStatusOut, devVars
<1>6. CASE BusReset
  BY <1>6 DEF BusReset
<1>7. CASE InitDevice
  BY <1>7 DEF InitDevice, ResetRegisters
<1>8. CASE Attach
  BY <1>8 DEF Attach
<1>9. CASE Detach
  BY <1>9 DEF Detach
<1>10. CASE IsrReset
  BY <1>10 DEF IsrReset
<1>11. CASE IsrAnswer
  BY <1>11, HandlerEffects DEF IsrAnswer, Types, Flags
<1>12. CASE IsrAddress
  BY <1>12 DEF IsrAddress, settings
<1>13. CASE IsrLineCoding
  BY <1>13 DEF IsrLineCoding
<1>14. CASE IsrSetup
  BY <1>14 DEF IsrSetup
<1> QED
  BY <1>1, <1>2, <1>3, <1>4, <1>5, <1>6, <1>7, <1>8, <1>9, <1>10, <1>11, <1>12, <1>13, <1>14
  DEF Next, Host, Isr

-----------------------------------------------------------------------------
(* The theorems.                                                           *)

LEMMA InitIInv == Init => IInv
<1> SUFFICES ASSUME Init PROVE IInv
  OBVIOUS
<1>1. \A f \in Names : told[f] = {0}
  BY DEF Init, Names, Things
<1>2. told = [f \in Names |-> told[f]]
  BY <1>1 DEF Init, Names, Things
<1>3. \A f \in Things : AgreeOn(f)
  BY <1>1 DEF Init, AgreeOn, Reaching, Fits, Held, Open, Things, Names
<1>4. Types
  BY <1>2 DEF Init, Types, Flags
<1>5. Numbered
  BY <1>1 DEF Init, Numbered, Names
<1>6. Phase /\ Waits /\ Packets /\ ConfiguredIsSetUp
  BY DEF Init, Phase, Waits, Packets, ConfiguredIsSetUp, Open, Asking, Handled, AnswerTrue
<1> QED
  BY <1>3, <1>4, <1>5, <1>6 DEF IInv, Agree

LEMMA NextIInv == IInv /\ [Next]_vars => IInv'
<1> SUFFICES ASSUME IInv, [Next]_vars PROVE IInv'
  OBVIOUS
<1>1. CASE Next
  <2>1. Types' /\ Phase' /\ Waits' /\ Packets' /\ ConfiguredIsSetUp'
    BY <1>1, TypesStep, PhaseStep, WaitsStep, PacketsStep, ConfiguredStep DEF IInv
  <2>2. \A f \in Things : AgreeOn(f)'
    BY <1>1, AgreeOnStep DEF IInv
  <2>3. Numbered'
    BY <1>1, NumberedStep DEF IInv, Agree
  <2> QED
    BY <2>1, <2>2, <2>3 DEF IInv, Agree
<1>2. CASE UNCHANGED vars
  <2> USE <1>2 DEF vars, hwVars, devVars, hostVars
  <2>1. Types' /\ Phase' /\ Waits' /\ ConfiguredIsSetUp' /\ Numbered'
    BY DEF IInv, Types, Flags, Phase, Waits, ConfiguredIsSetUp, Open, Asking, Agree, Numbered
  <2>2. Packets'
    BY DEF IInv, Packets, Open, Handled, AnswerTrue, Truth
  <2>3. ASSUME NEW f \in Things PROVE AgreeOn(f)'
    <3>1. Held(f)' = Held(f)
      BY SameHeld DEF Keeps, Values
    <3> QED
      BY <3>1, Unmoved DEF IInv, Agree, Open, Handled, Late
  <2> QED
    BY <2>1, <2>2, <2>3 DEF IInv, Agree
<1> QED
  BY <1>1, <1>2

\* The invariant of control transfers: where each transfer is, what the handler
\* waits for, and that what the device has is what the host has set, or is about
\* to have set.
THEOREM Invariance == Spec => []IInv
BY InitIInv, NextIInv, PTL DEF Spec

\* At rest every thing fits what the host has set.
LEMMA QuietFits == IInv /\ Quiet => \A f \in Things : Fits(f, told[f])
<1> SUFFICES ASSUME IInv, Quiet, NEW f \in Things PROVE Fits(f, told[f])
  OBVIOUS
<1>1. Reaching(f)
  BY DEF IInv, Agree, AgreeOn, Live, Late, Quiet
<1> QED
  BY <1>1, FitsStatic DEF Fitting, Quiet

\* Between two transfers the device has the address, the configuration, the
\* alternate setting, the halt, the line coding, the line state and the remote
\* wake-up that the host has set, over any requests, refusals and bus resets, but
\* for a configuration that attach() of a device in use has dropped, and for a
\* remote wake-up the host has taken back, which the device answers and does not
\* do.
THEOREM DeviceAgrees == Spec => []Agreement
<1>1. IInv => Agreement
  <2> SUFFICES ASSUME IInv, Quiet PROVE Agreement
    BY DEF Agreement
  <2>1. /\ Fits("config", told["config"]) /\ Fits("setting", told["setting"])
        /\ Fits("line", told["line"]) /\ Fits("lineState", told["lineState"])
        /\ Fits("halt", told["halt"]) /\ Fits("wakeUp", told["wakeUp"])
    BY QuietFits DEF Things
  <2> QED
    BY <2>1 DEF IInv, Agree, Numbered, Fits, Held, Quiet, Agreement
<1> QED
  BY <1>1, Invariance, PTL

\* The answer that was made for a query says what the host has set before; the
\* answer to GET_STATUS, of the device too, is the halt of an endpoint.
THEOREM AnswersAreTrue == Spec => []AnswerTrue
<1>1. IInv => AnswerTrue
  BY DEF IInv, Packets
<1> QED
  BY <1>1, Invariance, PTL

\* The countdown to the erase of the application runs exactly when the host has
\* set 1200 bps and a line state with bit 0 clear, in whatever order, and
\* whether the port was open before or not.
THEOREM EraseIsAsked == Spec => []EraseAsTold
<1>1. IInv => EraseAsTold
  <2> SUFFICES ASSUME IInv, Quiet PROVE EraseAsTold
    BY DEF EraseAsTold
  <2>1. Fits("line", told["line"]) /\ Fits("lineState", told["lineState"])
    BY QuietFits DEF Things
  <2>2. line \in told.line /\ lineState \in told.lineState
    BY <2>1 DEF Fits, Held
  <2> QED
    BY <2>2 DEF IInv, Agree, Numbered, EraseAsTold
<1> QED
  BY <1>1, Invariance, PTL

\* While the device is configured and attached its endpoints are set up, or the
\* interrupt of the bus reset that took them back is pending.
THEOREM EndpointsAreSetUp == Spec => []ConfiguredIsSetUp
<1>1. IInv => ConfiguredIsSetUp
  BY DEF IInv
<1> QED
  BY <1>1, Invariance, PTL

\* Each packet the host takes was made for the request it has asked, unless it
\* is taken while the handler is still at work on that request.
THEOREM PacketsAreFresh == Spec => AnswerFresh
<1>1. IInv => (HostIn => in1.fresh \/ isr \in {"setup", "lineCoding"})
  BY DEF IInv, Packets, Handled, Open, HostIn
<1>2. IInv /\ [Next]_vars => [HostIn => in1.fresh \/ isr \in {"setup", "lineCoding"}]_vars
  BY <1>1
<1> QED
  BY <1>2, Invariance, PTL DEF Spec, AnswerFresh

\* The device takes a new address only when the host has its status packet and
\* knows the address as set.
THEOREM AddressIsAwaited == Spec => AddressAfterStatus
<1>1. IInv /\ Next => (addr' # addr /\ addr' # 0 => told.addr = {addr'})
  <2> SUFFICES ASSUME IInv, Next, addr' # addr, addr' # 0 PROVE told.addr = {addr'}
    OBVIOUS
  <2>1. IsrAddress
    BY DEF Next, Host, Isr, HostSetup, HostOut, HostIn, HostStalled, HostStatusOut, BusReset,
           InitDevice, ResetRegisters, Attach, Detach, IsrReset, IsrSetup, IsrAnswer, IsrLineCoding, hwVars
  <2> QED
    BY <2>1 DEF IsrAddress, IInv, Types, Flags, Waits
<1>2. IInv /\ [Next]_vars => [addr' # addr /\ addr' # 0 => told.addr = {addr'}]_vars
  BY <1>1
<1> QED
  BY <1>2, Invariance, PTL DEF Spec, AddressAfterStatus

-----------------------------------------------------------------------------
(* The types.                                                              *)

Legitimate(q) ==
    /\ q.kind = "SetAddress" => q.value \in Addresses
    /\ q.kind = "SetConfiguration" => q.value \in Configurations \cup {0}
    /\ q.kind = "SetInterface" => q.value \in Settings
    /\ q.kind = "SetLineCoding" => q.value \in Lines
    /\ q.kind = "SetControlLineState" => q.value \in {0, 1}

\* What the device holds comes from a request, which comes from the host.
Ranges ==
    /\ addr \in Addresses \cup {0}
    /\ configuration \in Configurations \cup {0} /\ setInterface \in Settings \cup {0}
    /\ line \in Lines \cup {0} /\ {halt, wakeUp, lineState} \subseteq {0, 1}
    /\ initialized \in BOOLEAN
    /\ stage # "idle" => Legitimate(req)
    /\ Open /\ outBuf.kind # "SetLineCoding" => Legitimate(outBuf)
    /\ isr = "address" => outBuf.value \in Addresses
    /\ isr = "lineCoding" /\ bk0rdy => outBuf.value \in Lines

LEMMA LegitimateRequests ==
    ASSUME NEW q \in Requests
    PROVE  Legitimate(q)
<1>1. CASE q \in Addressing
  BY <1>1 DEF Legitimate, Addressing, Ask
<1>2. CASE q \in EarlyRequests
  BY <1>2 DEF Legitimate, EarlyRequests, Ask
<1>3. CASE q \in AddressedRequests
  BY <1>3 DEF Legitimate, AddressedRequests, Ask
<1>4. CASE q \in ConfiguredRequests
  BY <1>4 DEF Legitimate, ConfiguredRequests, Ask
<1> QED
  BY <1>1, <1>2, <1>3, <1>4 DEF Requests

LEMMA SetupRanges ==
    ASSUME IInv, Ranges, IsrAnswer
    PROVE  /\ configuration' \in Configurations \cup {0} /\ setInterface' \in Settings \cup {0}
           /\ {halt', wakeUp', lineState'} \subseteq {0, 1}
           /\ isr' = "address" => outBuf'.value \in Addresses
           /\ ~(isr' = "lineCoding" /\ bk0rdy')
<1>1. Open /\ isr = "setup" /\ WellFormed(outBuf)
  BY DEF IsrAnswer, IInv, Types, Flags, Open
<1>2. CarriedOut \/ Refused \/ WaitsForStatus \/ WaitsForData
  BY <1>1, HandlerEffects
<1>3. wakeUp' \in {0, 1}
  BY DEF Ranges, IsrAnswer, HandleStandardSetup, HandleClassInterfaceSetup, settings, GetStatus,
         ClearFeature, SetFeature, SetAddress, GetDescriptor, SetDescriptor, GetConfiguration,
         SetConfiguration, GetInterface, SetInterface, GetLineCoding, SetLineCoding,
         SetControlLineState, SendBreak, OtherInterface
<1>4. halt' \in {0, 1}
  BY HandlerTypes DEF IInv
<1>5. CASE CarriedOut
  <2>1. Legitimate(outBuf) /\ isr' = "idle"
    BY <1>1, <1>5 DEF Ranges, CarriedOut
  <2>2. \A f \in Things : Held(f)' = IF Takes(outBuf, f) THEN SetTo(outBuf) ELSE Held(f)
    BY <1>5 DEF CarriedOut
  <2>3. /\ Held("config")' = IF Sets(outBuf, "config") THEN SetTo(outBuf) ELSE Held("config")
        /\ Held("setting")' = IF Sets(outBuf, "setting") THEN SetTo(outBuf) ELSE Held("setting")
        /\ Held("lineState")' = IF Sets(outBuf, "lineState") THEN SetTo(outBuf)
                                                             ELSE Held("lineState")
    BY <2>2 DEF Things, Takes
  <2>4. /\ configuration' = IF outBuf.kind = "SetConfiguration" /\ outBuf.recipient = 0 THEN outBuf.value ELSE configuration
        /\ setInterface' = IF outBuf.kind = "SetInterface" THEN outBuf.value ELSE setInterface
        /\ lineState' = IF outBuf.kind = "SetControlLineState" THEN outBuf.value ELSE lineState
    BY <2>3, SetsWhat DEF Held, SetTo
  <2> QED
    BY <1>3, <1>4, <2>1, <2>4 DEF Ranges, Legitimate
<1>6. CASE Refused \/ WaitsForStatus \/ WaitsForData
  <2>1. Keeps
    BY <1>6 DEF Refused, WaitsForStatus, WaitsForData
  <2>2. UNCHANGED <<configuration, setInterface, lineState>>
    <3>1. Held("config")' = Held("config") /\ Held("setting")' = Held("setting")
          /\ Held("lineState")' = Held("lineState")
      BY <2>1 DEF Keeps, Things
    <3> QED
      BY <3>1 DEF Held
  <2>3. isr' = "address" => outBuf'.value \in Addresses
    BY <1>1, <1>6 DEF Refused, WaitsForStatus, WaitsForData, Ranges, Legitimate
  <2> QED
    BY <1>3, <1>4, <1>6, <2>2, <2>3 DEF Ranges, Refused, WaitsForStatus, WaitsForData
<1> QED
  BY <1>2, <1>5, <1>6

LEMMA RangesStep ==
    ASSUME IInv, Ranges, Next
    PROVE  Ranges'
<1> USE DEF Ranges, Open
<1>1. ASSUME NEW q \in Requests, HostSetup(q) PROVE Ranges'
  <2>1. Legitimate(q)
    BY LegitimateRequests
  <2>2. req' = q /\ outBuf'.kind = q.kind /\ (q.kind # "SetLineCoding" => outBuf' = q)
    BY <1>1, SetupPuts DEF HostSetup
  <2> QED
    BY <1>1, <2>1, <2>2 DEF HostSetup, devVars, Legitimate
<1>2. CASE HostOut
  BY <1>2 DEF HostOut, devVars, IInv, Phase, Legitimate
<1>3. CASE HostIn
  BY <1>3 DEF HostIn, devVars
<1>4. CASE HostStalled
  BY <1>4 DEF HostStalled, hwVars, devVars
<1>5. CASE HostStatusOut
  BY <1>5 DEF HostStatusOut, devVars, IInv, Waits
<1>6. CASE BusReset
  BY <1>6 DEF BusReset, devVars
<1>7. CASE InitDevice
  BY <1>7 DEF InitDevice, ResetRegisters, HostLosesDevice
<1>8. CASE Attach
  BY <1>8 DEF Attach, hostVars
<1>9. CASE Detach
  BY <1>9 DEF Detach, HostLosesDevice, devVars
<1>10. CASE IsrReset
  BY <1>10 DEF IsrReset, hostVars
<1>11. CASE IsrAnswer
  BY <1>11, SetupRanges, HandlerTypes DEF IsrAnswer, hostVars, IInv, Phase
<1>12. CASE IsrAddress
  BY <1>12 DEF IsrAddress, Return, settings, hostVars, IInv, Phase
<1>13. CASE IsrLineCoding
  BY <1>13 DEF IsrLineCoding, Return, hostVars, IInv, Phase
<1>14. CASE IsrSetup
  BY <1>14 DEF IsrSetup, hostVars
<1> QED
  BY <1>1, <1>2, <1>3, <1>4, <1>5, <1>6, <1>7, <1>8, <1>9, <1>10, <1>11, <1>12, <1>13, <1>14
  DEF Next, Host, Isr

\* Every variable keeps its type: the device holds no address, configuration,
\* setting or line coding that is not one a host may send.
THEOREM TypeCorrect == Spec => []TypeOK
<1>1. Init => Ranges
  BY DEF Init, Ranges, Open
<1>2. IInv /\ Ranges /\ [Next]_vars => Ranges'
  <2>1. IInv /\ Ranges /\ UNCHANGED vars => Ranges'
    BY DEF Ranges, Open, vars, hwVars, devVars, hostVars
  <2> QED
    BY <2>1, RangesStep
<1>3. IInv /\ Ranges => TypeOK
  BY DEF IInv, Types, Flags, Ranges, TypeOK
<1> QED
  BY <1>1, <1>2, <1>3, Invariance, PTL DEF Spec
=============================================================================
